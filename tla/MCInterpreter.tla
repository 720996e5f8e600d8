---------------------------- MODULE MCInterpreter ----------------------------
(* One plugin instance; what host and user do in each run.                  *)
EXTENDS Interpreter

Host == (AudioJobs \cup EditorJobs) \ {"shiftEscDown", "shiftEscUp"}
Threaded == {"frame", "keyDown", "shiftEscDown", "shiftEscUp"}
FrameReset == {"frame", "reset"}
HaltWindow == {"halt", "window"}
HaltShiftEscape == {"halt", "shiftEscUp"}
FrameShiftEscape == {"frame", "shiftEscDown"}
=============================================================================
