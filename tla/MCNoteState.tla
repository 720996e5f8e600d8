----------------------------- MODULE MCNoteState -----------------------------
(* Two notes; in each callback the script does one thing (sends an event,   *)
(* stopAllPlaying, panic), one event is sent ahead, one callback is cut.    *)
EXTENDS NoteState
=============================================================================
