----------------------------- MODULE ProgramBank -----------------------------
(***************************************************************************)
(* The programs (presets) of one instance and the data a script keeps with *)
(* each: VstLua::setProgram, setProgramNoSave, getChunk, setChunk and      *)
(* setParameter (src/vstlua.cpp), VstLuaProgram (src/vstlua.h) and the     *)
(* table programData that persistence.lua and callback_wrappers.lua copy   *)
(* to and from the current program's data string.                          *)
(*                                                                         *)
(* The host's thread changes programs, the audio thread restarts the       *)
(* script and automates parameters, the editor's thread restarts it.  What *)
(* is done under one hold of the lua lock is one step (LuaLock.tla says    *)
(* when that is right); what the host's thread does without it, as the     *)
(* copying of getChunk, is several steps.  Of a data string and of         *)
(* programData only the script name in it is kept, and of programData      *)
(* whose data it is.                                                       *)
(***************************************************************************)
EXTENDS Naturals, FiniteSets

CONSTANTS NumPrograms, \* NUM_PROGRAMS
          Scripts,     \* script files
          NoScript,    \* current_script = "", or no scriptName in the table
          NoRequest,   \* scriptToLoad = NULL
          Blocks,      \* bound: the blocks malloc may return
          Null, Wild,  \* a null pointer and one that malloc never returned here
          Freed,
          Nobody,      \* a table that is no program's data
          Values,      \* values of the one parameter that is kept of each program
          Interrupts   \* bound: what may happen: subset of {"halt", "preset", "both"}:
                       \* errors of the script and suspend(), presets, one after the other

Programs == 0..(NumPrograms - 1)
Texts == Scripts \cup {NoScript}

ASSUME ProgramsAssumption == NumPrograms \in Nat \ {0}
ASSUME TextsAssumption == NoScript \notin Scripts /\ {NoRequest, Freed} \cap Texts = {}
ASSUME PointersAssumption == {Null, Wild} \cap Blocks = {} /\ Null # Wild
ASSUME NobodyAssumption == Nobody \notin Programs

VARIABLES curProgram, dataString, VSTLUA,  \* programSet
          heap,         \* what the blocks of the heap hold
          params,
          programData,  \* the script name in lua's table
          current_script, scriptToLoad, halted,
          pc, target,   \* the host's thread: where it is, and its argument
          \* history
          tableOf,      \* the program whose data programData holds
          lagging,      \* it is not the current one's, because it was not loaded
                        \* (halted, failed) or a chunk was refused half way
          strayed,      \* the script lost a request, or did not load its table
          misplaced,    \* a table was saved into a program whose data it is not
          exposed,      \* it lagged once, or a restart hit the middle of a call
          torn,         \* a string was replaced after getChunk had measured it
          suspect,      \* a preset was set, or a chunk refused half way
          refused,      \* no program was switched to since a chunk was refused
          broken        \* a pointer that owns no block was read or freed

bank == <<curProgram, dataString, VSTLUA, heap, params>>
script == <<programData, current_script, scriptToLoad, halted>>
history == <<tableOf, lagging, strayed, misplaced, exposed, torn, suspect, refused, broken>>
vars == <<bank, script, pc, target, history>>

Live(p) == dataString[p] \in Blocks /\ heap[dataString[p]] # Freed
Text(p) == heap[dataString[p]]

(* The constructor: every program has an empty string, setProgram(0) finds *)
(* the plugin halted, and reInit starts without a script.                  *)
Init ==
    /\ curProgram = 0
    /\ dataString \in [Programs -> Blocks]
    /\ \A p, q \in Programs : dataString[p] = dataString[q] => p = q
    /\ heap = [b \in Blocks |-> IF \E p \in Programs : dataString[p] = b THEN NoScript ELSE Freed]
    /\ params \in Values /\ VSTLUA = [p \in Programs |-> params]
    /\ programData = NoScript /\ current_script = NoScript
    /\ scriptToLoad = NoRequest /\ halted = FALSE
    /\ pc = "idle" /\ target = 0
    /\ tableOf = 0 /\ lagging = FALSE /\ strayed = FALSE
    /\ misplaced = FALSE /\ exposed = FALSE /\ torn = FALSE
    /\ suspect = FALSE /\ refused = FALSE /\ broken = FALSE

-----------------------------------------------------------------------------
\* where a call of the host has replaced the data of the current program, or
\* the program, and has not told the script
MidCall == {"switch", "load", "presetString", "bankPointers", "bankStrings"}
Copying == {"copyPreset", "copyBank"}

(* setDataString(str, len) of program p: free what was there, then malloc. *)
setDataString(p, text) ==
    IF dataString[p] # Null /\ ~Live(p)
    THEN broken' = TRUE /\ UNCHANGED <<dataString, heap, torn>>
    ELSE \E b \in Blocks :
            /\ heap[b] = Freed \/ b = dataString[p]
            /\ dataString' = [dataString EXCEPT ![p] = b]
            /\ heap' = [c \in Blocks |-> IF c = b THEN text
                                         ELSE IF c = dataString[p] THEN Freed ELSE heap[c]]
            /\ torn' = (torn \/ (pc \in Copying /\ p >= target))
            /\ UNCHANGED broken

\* bound: whether an error of the script, or a suspend(), may happen now
Faults == "halt" \in Interrupts /\ (suspect => "both" \in Interrupts)

(* savePersistentProgramData, as the script saves before the host or a     *)
(* restart does something: it may fail before it has written (a value that *)
(* serializeTable refuses).                                                *)
Saves ==
    /\ setDataString(curProgram, programData)
    /\ misplaced' = (misplaced \/ tableOf # curProgram)
CannotSave == UNCHANGED <<dataString, heap, misplaced, torn, broken>>

\* onSaveProgram: an error in it or in saveProgramCb halts the plugin
onSaveProgram ==
    \/ Saves /\ UNCHANGED halted
    \/ Faults /\ (Saves \/ CannotSave) /\ halted' = TRUE

SaveUnlessHalted ==
    \/ ~halted /\ onSaveProgram
    \/ halted /\ CannotSave /\ UNCHANGED halted

(* loadPersistentProgramData: programData is the table in the string of    *)
(* the current program.                                                    *)
LoadTable ==
    /\ programData' = Text(curProgram)
    /\ tableOf' = curProgram /\ lagging' = FALSE /\ UNCHANGED exposed

\* the table the script has is left with it
Lags ==
    /\ lagging' = (tableOf # curProgram)
    /\ exposed' = (exposed \/ lagging')
    /\ UNCHANGED <<programData, scriptToLoad, tableOf, strayed, broken>>

\* mutant of onLoadProgram: the program change is not told to the script
LoadedAlready ==
    UNCHANGED <<programData, scriptToLoad, tableOf, lagging, exposed, strayed, broken, halted>>

\* mutant of onLoadProgram: programData is replaced, the script is not
LoadWithoutReset ==
    /\ Live(curProgram) /\ LoadTable
    /\ strayed' = FALSE
    /\ UNCHANGED <<scriptToLoad, broken, halted>>

(* _loadProgramCb loads and asks for the program's script.  It may fail    *)
(* before it has loaded (the string is not a table), and be cut before it  *)
(* has asked.                                                              *)
onLoadProgram ==
    \/ /\ Live(curProgram) /\ LoadTable
       /\ scriptToLoad' = Text(curProgram) /\ strayed' = FALSE
       /\ UNCHANGED <<broken, halted>>
    \/ /\ Faults /\ halted' = TRUE
       /\ Live(curProgram) /\ LoadTable /\ strayed' = TRUE
       /\ UNCHANGED <<scriptToLoad, broken>>
    \/ /\ Faults /\ halted' = TRUE
       /\ Lags
    \/ /\ ~Live(curProgram) /\ broken' = TRUE
       /\ UNCHANGED <<programData, scriptToLoad, tableOf, lagging, exposed, strayed, halted>>

-----------------------------------------------------------------------------
\* mutant of InRange: one program too many
InRangeByOne(p) == p <= NumPrograms
InRange(p) == p < NumPrograms

\* mutant of setProgram: it saves after the switch
setProgramSavesLate(p) ==
    /\ InRange(p)
    /\ pc = "idle" /\ pc' = "switch"
    /\ target' = p /\ curProgram' = p
    /\ setDataString(p, programData)
    /\ misplaced' = (misplaced \/ tableOf # p)
    /\ UNCHANGED <<VSTLUA, params, script, tableOf, lagging, exposed, strayed, suspect,
                   refused>>

(* setProgram: save, switch, load.                                         *)
setProgram(p) ==
    /\ InRange(p)
    /\ pc = "idle" /\ pc' = "switch"
    /\ target' = p
    /\ SaveUnlessHalted
    /\ UNCHANGED <<curProgram, VSTLUA, params, programData, current_script,
                   scriptToLoad, tableOf, lagging, exposed, strayed, suspect, refused>>

\* mutant of Switch: the parameters are left to the host
SwitchWithoutParameters ==
    /\ pc = "switch" /\ pc' = "load"
    /\ curProgram' = target
    /\ UNCHANGED <<dataString, VSTLUA, heap, script, target, history, params>>

\* curProgram, and setParameter for every parameter
Switch ==
    /\ pc = "switch" /\ pc' = "load"
    /\ curProgram' = target
    /\ params' = VSTLUA[target]
    /\ refused' = FALSE
    /\ UNCHANGED <<dataString, VSTLUA, heap, script, target, tableOf, lagging, strayed,
                   misplaced, exposed, torn, suspect, broken>>

Load ==
    /\ pc = "load" /\ pc' = "idle"
    /\ \/ ~halted /\ onLoadProgram
       \/ halted /\ Lags /\ UNCHANGED halted
    /\ UNCHANGED <<bank, current_script, target, misplaced, torn, suspect, refused>>

-----------------------------------------------------------------------------
(* getChunk saves, adds up the lengths of the strings it will copy (of the *)
(* current program or of all), and copies one after the other; only the    *)
(* save is done under the lua lock.                                        *)
getChunk(isPreset) ==
    /\ pc = "idle" /\ pc' = IF isPreset THEN "measurePreset" ELSE "measureBank"
    /\ SaveUnlessHalted
    /\ UNCHANGED <<curProgram, VSTLUA, params, programData, current_script,
                   scriptToLoad, target, tableOf, lagging, exposed, strayed, suspect,
                   refused>>

Measure ==
    /\ \/ pc = "measurePreset" /\ pc' = "copyPreset" /\ target' = curProgram
       \/ pc = "measureBank" /\ pc' = "copyBank" /\ target' = 0
    /\ UNCHANGED <<bank, script, history>>

(* The memcpy of one string.  Of a string that was replaced after it was   *)
(* measured it may read what was freed, or more than there is room for.    *)
CopyString ==
    /\ pc \in Copying
    /\ \/ broken' = ~Live(target)
       \/ torn /\ broken' = TRUE
    /\ IF pc = "copyBank" /\ target < NumPrograms - 1
       THEN target' = target + 1 /\ UNCHANGED <<pc, torn>>
       ELSE pc' = "idle" /\ torn' = (torn /\ broken') /\ UNCHANGED target
    /\ UNCHANGED <<bank, script, tableOf, lagging, strayed, misplaced, exposed, suspect,
                   refused>>

\* the table the script has is no longer the data of these programs
Replaced(P) == tableOf' = IF tableOf \in P THEN Nobody ELSE tableOf

(* setChunk with a preset: the whole VstLuaProgram is assigned, with the   *)
(* pointer the chunk was saved with; the string itself follows.            *)
setPreset ==
    /\ "preset" \in Interrupts
    /\ halted \/ exposed \/ strayed => "both" \in Interrupts
    /\ pc = "idle" /\ pc' = "presetString"
    /\ \E ptr \in Blocks \cup {Wild}, v \in Values :
          /\ dataString' = [dataString EXCEPT ![curProgram] = ptr]
          /\ VSTLUA' = [VSTLUA EXCEPT ![curProgram] = v]
    /\ Replaced({curProgram}) /\ suspect' = TRUE
    /\ UNCHANGED <<curProgram, heap, params, script, target, lagging, strayed,
                   misplaced, exposed, torn, refused, broken>>

PresetString ==
    /\ pc = "presetString" /\ pc' = "switch"
    /\ \E text \in Texts : setDataString(curProgram, text)
    /\ target' = curProgram
    /\ Replaced({curProgram})
    /\ UNCHANGED <<curProgram, VSTLUA, params, script, lagging, strayed, misplaced,
                   exposed, suspect, refused>>

(* setChunk with a bank: the copied programs replace the old ones, whose   *)
(* strings are never freed; their pointers, copied too, are then cleared.  *)
setBank ==
    /\ pc = "idle" /\ pc' = "bankPointers"
    /\ dataString' = [p \in Programs |-> Wild]
    /\ VSTLUA' \in [Programs -> Values]
    /\ Replaced(Programs)
    /\ UNCHANGED <<curProgram, heap, params, script, target, lagging, strayed,
                   misplaced, exposed, torn, suspect, refused, broken>>

\* mutant of BankPointers: the copied pointers are kept
BankPointersKept ==
    /\ pc = "bankPointers" /\ pc' = "bankStrings"
    /\ target' = 0
    /\ UNCHANGED <<bank, script, history>>

BankPointers ==
    /\ pc = "bankPointers" /\ pc' = "bankStrings"
    /\ dataString' = [p \in Programs |-> Null]
    /\ target' = 0
    /\ UNCHANGED <<curProgram, VSTLUA, heap, params, script, history>>

BankString ==
    /\ pc = "bankStrings"
    /\ \E text \in Texts : setDataString(target, text)
    /\ IF target = NumPrograms - 1
       THEN pc' = "switch" /\ target' = curProgram
       ELSE target' = target + 1 /\ UNCHANGED pc
    /\ Replaced({target})
    /\ UNCHANGED <<curProgram, VSTLUA, params, script, lagging, strayed, misplaced,
                   exposed, suspect, refused>>

(* The sizes do not match: setChunk stops where it is and halts.           *)
SizeMismatch ==
    /\ "halt" \in Interrupts
    /\ pc = "presetString" \/ (pc = "bankStrings" /\ target = 0)
    /\ pc' = "idle"
    /\ halted' = TRUE /\ refused' = TRUE
    /\ suspect' = TRUE /\ Lags
    /\ UNCHANGED <<bank, current_script, target, misplaced, torn>>

-----------------------------------------------------------------------------
(* reInit: _resetCb saves, whether the plugin is halted or not, unless it  *)
(* fails, and lua starts anew with an empty table.                         *)
SaveAtReset ==
    \/ Saves
    \/ Faults /\ CannotSave

(* _initCb of the new script loads and notes the script's name.  It is not *)
(* called after a resume() meanwhile, it may fail before it has loaded,    *)
(* and be cut between the two; the plugin runs afterwards all the same.    *)
InitLoads(s) ==
    /\ programData' = s
    /\ tableOf' = curProgram /\ lagging' = FALSE /\ strayed' = FALSE
InitCut ==
    /\ Faults
    /\ programData' = Text(curProgram)'
    /\ tableOf' = curProgram /\ lagging' = FALSE /\ strayed' = TRUE
InitSkipped ==
    /\ Faults
    /\ programData' = NoScript
    /\ tableOf' = Nobody /\ lagging' = TRUE /\ strayed' = TRUE

reInit(s) ==
    /\ UNCHANGED <<curProgram, VSTLUA, params, pc, target, suspect, refused>>
    /\ current_script' = s
    /\ halted' = FALSE
    /\ \/ SaveAtReset /\ InitSkipped
       \/ SaveAtReset /\ Live(curProgram)' /\ (InitLoads(s) \/ InitCut)
       \/ /\ ~Live(curProgram) /\ (dataString[curProgram] # Null \/ Faults)
          /\ broken' = TRUE
          /\ UNCHANGED <<dataString, heap, programData, tableOf, lagging, strayed, misplaced, torn>>
    /\ exposed' = (exposed \/ lagging' \/ pc \in MidCall)

\* onFrame: setScript takes the request, or no script when the file is gone
Frame ==
    /\ scriptToLoad # NoRequest
    /\ reInit(scriptToLoad) \/ reInit(NoScript)
    /\ scriptToLoad' = NoRequest

(* reset(name) by the script itself, or reset() for none: preloadScript    *)
(* drops a request that was waiting.  Some callbacks (onOpened) are made   *)
(* while the plugin is halted.                                             *)
preloadScript(s) ==
    /\ scriptToLoad' = s
    /\ strayed' = (strayed \/ scriptToLoad # NoRequest)
    /\ UNCHANGED <<bank, programData, current_script, halted, pc, target, tableOf,
                   lagging, misplaced, exposed, torn, suspect, refused, broken>>

ResetButton == reInit(current_script) /\ UNCHANGED scriptToLoad
LoadButton == (\E s \in Scripts : reInit(s)) /\ UNCHANGED scriptToLoad

(* A running script fails; the host suspends and resumes.                  *)
Halt ==
    /\ Faults /\ halted' = TRUE
    /\ UNCHANGED <<bank, programData, current_script, scriptToLoad, pc, target, history>>
Resume ==
    /\ halted /\ halted' = FALSE
    /\ UNCHANGED <<bank, programData, current_script, scriptToLoad, pc, target, history>>

(* setParameterNoCallback needs the host lock, which setProgram keeps.     *)
setParameter(v) ==
    /\ pc \notin {"switch", "load", "measurePreset", "measureBank"} \cup Copying
    /\ params' = v
    /\ VSTLUA' = [VSTLUA EXCEPT ![curProgram] = v]
    /\ UNCHANGED <<curProgram, dataString, heap, script, pc, target, history>>

-----------------------------------------------------------------------------
SetProgram == \E p \in 0..NumPrograms : setProgram(p)
GetChunk == \E isPreset \in BOOLEAN : getChunk(isPreset)
ScriptReset == \E s \in Texts : preloadScript(s)
SetParameter == \E v \in Values : setParameter(v)

Next ==
    /\ ~broken
    /\ \/ SetProgram \/ Switch \/ Load
       \/ GetChunk \/ Measure \/ CopyString
       \/ setPreset \/ PresetString \/ setBank \/ BankPointers \/ BankString \/ SizeMismatch
       \/ Frame \/ ScriptReset \/ ResetButton \/ LoadButton \/ Halt \/ Resume \/ SetParameter

Spec == Init /\ [][Next]_vars

-----------------------------------------------------------------------------
TypeOK ==
    /\ curProgram \in Programs /\ target \in Programs
    /\ dataString \in [Programs -> Blocks \cup {Null, Wild}]
    /\ heap \in [Blocks -> Texts \cup {Freed}]
    /\ params \in Values /\ VSTLUA \in [Programs -> Values]
    /\ programData \in Texts /\ current_script \in Texts
    /\ scriptToLoad \in Texts \cup {NoRequest}
    /\ halted \in BOOLEAN
    /\ pc \in {"idle", "measurePreset", "measureBank"} \cup Copying \cup MidCall
    /\ tableOf \in Programs \cup {Nobody}
    /\ misplaced \in BOOLEAN /\ exposed \in BOOLEAN
    /\ lagging \in BOOLEAN /\ strayed \in BOOLEAN /\ torn \in BOOLEAN
    /\ suspect \in BOOLEAN /\ refused \in BOOLEAN /\ broken \in BOOLEAN

(* programData is the table of the current program whenever no call of the *)
(* host has just replaced that, unless the script did not load it: because *)
(* the plugin was halted, because the loading failed or was skipped, or    *)
(* because a chunk was refused half way.                                   *)
TableOfProgram == pc \notin MidCall /\ ~broken => tableOf = curProgram \/ lagging

(* What is saved into a program is the table that was loaded from it; only *)
(* two things put the data of one program into another, and lose the other:*)
(* a table that lags, and a restart in the middle of setProgram or         *)
(* setChunk, which saves before it loads.                                  *)
DataKept == misplaced => exposed

(* As long as no preset was set and no bank refused half way, programs own *)
(* their strings: each a block of its own, whenever the host is idle, and  *)
(* none is read or freed that is not there, unless by a restart in the     *)
(* middle of setChunk, which finds the copied pointers or a cleared one,   *)
(* or by getChunk when a restart replaced a string that it has measured.   *)
StringsOwned == ~suspect =>
    /\ broken => \/ pc = "bankPointers" \/ torn
                 \/ pc = "bankStrings" /\ dataString[curProgram] = Null
    /\ pc = "idle" /\ ~broken =>
          /\ \A p \in Programs : Live(p)
          /\ \A p, q \in Programs : dataString[p] = dataString[q] => p = q

(* The parameters the host sees are those of the current program when no   *)
(* call of the host is under way, whatever was automated meanwhile, unless *)
(* a chunk was refused half way.                                           *)
ParametersFollow == pc = "idle" /\ ~refused => params = VSTLUA[curProgram]

(* programData names the script that is running, or the one that will be   *)
(* as soon as the next frame comes, unless the script lost the request to  *)
(* one of its own, or the loading failed, was cut or skipped.              *)
ScriptFollows == broken \/ strayed \/ programData \in {current_script, scriptToLoad}

-----------------------------------------------------------------------------
(* The inductive invariant.  No string is shared, and none is missing but  *)
(* those that setChunk has still to copy.                                  *)
Owned ==
    /\ \A p \in Programs : dataString[p] = Null \/ Live(p)
    /\ \A p, q \in Programs : dataString[p] = dataString[q] /\ dataString[p] # Null => p = q

StringsInv == ~suspect =>
    /\ pc # "presetString"
    /\ pc = "bankPointers" => \A p \in Programs : dataString[p] = Wild
    /\ pc # "bankPointers" /\ ~broken =>
          /\ Owned
          /\ \A p \in Programs : dataString[p] = Null => pc = "bankStrings" /\ p >= target
    /\ broken => \/ pc = "bankPointers" \/ torn
                 \/ pc = "bankStrings" /\ dataString[curProgram] = Null

ParametersInv ==
    pc \notin {"switch", "presetString", "bankPointers", "bankStrings"} /\ ~refused =>
    params = VSTLUA[curProgram]

ExposedInv == lagging => exposed

IInv ==
    /\ TypeOK /\ StringsInv /\ TableOfProgram /\ ExposedInv /\ DataKept /\ ParametersInv
    /\ ScriptFollows

-----------------------------------------------------------------------------
(* docs/VstLuaApi.html:1768: "The table updates as programs change": a     *)
(* script that runs finds the current program's data in it.                *)
TableUpdates == pc = "idle" /\ ~halted => tableOf = curProgram
=============================================================================
