-------------------------- MODULE ProgramBank_proofs --------------------------
(***************************************************************************)
(* Proofs about ProgramBank for any number of programs, any scripts,       *)
(* parameter values and blocks.                                            *)
(***************************************************************************)
EXTENDS ProgramBank, TLAPS

(* A string that is replaced, and what a save or a restart does with it.   *)
LEMMA SetStringTyped ==
  ASSUME TypeOK, NEW p \in Programs, NEW text \in Texts, setDataString(p, text)
  PROVE  /\ dataString' \in [Programs -> Blocks \cup {Null, Wild}]
         /\ heap' \in [Blocks -> Texts \cup {Freed}]
         /\ broken' \in BOOLEAN /\ torn' \in BOOLEAN
<1>1. CASE dataString[p] # Null /\ ~Live(p)
  BY <1>1 DEF setDataString, TypeOK
<1>2. CASE ~(dataString[p] # Null /\ ~Live(p))
  <2>1. PICK b \in Blocks :
           /\ dataString' = [dataString EXCEPT ![p] = b]
           /\ heap' = [c \in Blocks |-> IF c = b THEN text
                                        ELSE IF c = dataString[p] THEN Freed ELSE heap[c]]
           /\ broken' = broken
           /\ torn' = (torn \/ (pc \in Copying /\ p >= target))
    BY <1>2 DEF setDataString
  <2>2. torn' \in BOOLEAN
    BY <2>1, Zenon DEF TypeOK
  <2> QED
    BY <2>1, <2>2 DEF TypeOK
<1> QED
  BY <1>1, <1>2

LEMMA SetStringOwned ==
  ASSUME TypeOK, Owned, NEW p \in Programs, NEW text \in Texts, setDataString(p, text)
  PROVE  /\ broken' = broken /\ Owned' /\ dataString'[p] # Null
         /\ \A q \in Programs \ {p} : dataString'[q] = dataString[q]
<1>1. PICK b \in Blocks :
         /\ heap[b] = Freed \/ b = dataString[p]
         /\ dataString' = [dataString EXCEPT ![p] = b]
         /\ heap' = [c \in Blocks |-> IF c = b THEN text
                                      ELSE IF c = dataString[p] THEN Freed ELSE heap[c]]
         /\ broken' = broken
  BY DEF setDataString, Owned
<1> USE TextsAssumption, PointersAssumption DEF TypeOK
<1>2. /\ dataString'[p] = b /\ b # Null /\ text # Freed
      /\ \A q \in Programs \ {p} : dataString'[q] = dataString[q]
  BY <1>1
<1>3. \A q \in Programs \ {p} : dataString[q] # Null =>
         /\ dataString[q] \in Blocks /\ heap[dataString[q]] # Freed
         /\ dataString[q] # dataString[p]
  BY DEF Owned, Live
<1>4. \A q \in Programs \ {p} : dataString[q] # Null => dataString[q] # b
  BY <1>1, <1>3
<1>5. \A q \in Programs : dataString'[q] = Null \/ (dataString'[q] \in Blocks /\ heap'[dataString'[q]] # Freed)
  BY <1>1, <1>2, <1>3, <1>4
<1>6. \A q, r \in Programs :
         dataString'[q] = dataString'[r] /\ dataString'[q] # Null => q = r
  <2> SUFFICES ASSUME NEW q \in Programs, NEW r \in Programs,
                      dataString'[q] = dataString'[r], dataString'[q] # Null
               PROVE  q = r
    OBVIOUS
  <2>1. (q = p <=> r = p)
    BY <1>2, <1>4
  <2> QED
    BY <1>2, <2>1 DEF Owned
<1> QED
  BY <1>1, <1>2, <1>5, <1>6 DEF Owned, Live

LEMMA SaveTyped ==
  ASSUME TypeOK, SaveUnlessHalted \/ Saves \/ CannotSave
  PROVE  /\ dataString' \in [Programs -> Blocks \cup {Null, Wild}]
         /\ heap' \in [Blocks -> Texts \cup {Freed}]
         /\ broken' \in BOOLEAN /\ torn' \in BOOLEAN /\ misplaced' \in BOOLEAN
<1>1. curProgram \in Programs /\ programData \in Texts
  BY DEF TypeOK
<1>2. CASE Saves
  <2>1. misplaced' \in BOOLEAN
    BY <1>2, Zenon DEF Saves, TypeOK
  <2> QED
    BY <1>1, <1>2, <2>1, SetStringTyped DEF Saves
<1>3. CASE CannotSave
  BY <1>3 DEF TypeOK, CannotSave
<1> QED
  BY <1>2, <1>3 DEF SaveUnlessHalted, onSaveProgram

LEMMA SaveOwned ==
  ASSUME TypeOK, Owned, SaveUnlessHalted \/ Saves \/ CannotSave
  PROVE  /\ broken' = broken /\ Owned'
         /\ \A p \in Programs : dataString'[p] = Null => dataString[p] = Null
<1>1. curProgram \in Programs /\ programData \in Texts
  BY DEF TypeOK
<1>2. CASE Saves
  <2>1. setDataString(curProgram, programData)
    BY <1>2 DEF Saves
  <2> QED
    BY <1>1, <2>1, SetStringOwned
<1>3. CASE CannotSave
  BY <1>3 DEF Owned, Live, CannotSave
<1> QED
  BY <1>2, <1>3 DEF SaveUnlessHalted, onSaveProgram

LEMMA Restarts ==
  ASSUME TypeOK, Frame \/ ResetButton \/ LoadButton
  PROVE  /\ scriptToLoad' \in {scriptToLoad, NoRequest}
         /\ \E s \in Texts : reInit(s)
  BY DEF TypeOK, Frame, ResetButton, LoadButton, Texts

(* What a restart leaves in the table, when it did not break.              *)
LEMMA RestartTyped ==
  ASSUME TypeOK, NEW s \in Texts, reInit(s)
  PROVE  TypeOK' \/ scriptToLoad' \notin Texts \cup {NoRequest}
<1> USE DEF Programs
<1>1. /\ UNCHANGED <<curProgram, VSTLUA, params, pc, target, suspect, refused>>
      /\ current_script' = s /\ halted' = FALSE
  BY DEF reInit
<1>2. /\ dataString' \in [Programs -> Blocks \cup {Null, Wild}]
      /\ heap' \in [Blocks -> Texts \cup {Freed}] /\ broken' \in BOOLEAN
      /\ torn' \in BOOLEAN /\ misplaced' \in BOOLEAN
  <2>1. CASE Saves \/ CannotSave
    BY <2>1, SaveTyped
  <2>2. CASE broken' = TRUE /\ UNCHANGED <<dataString, heap, misplaced, torn>>
    BY <2>2 DEF TypeOK
  <2> QED
    BY <2>1, <2>2 DEF reInit, SaveAtReset
<1>3. /\ programData' \in Texts /\ tableOf' \in Programs \cup {Nobody}
      /\ lagging' \in BOOLEAN /\ strayed' \in BOOLEAN
  <2>1. CASE InitSkipped
    BY <2>1 DEF InitSkipped, Texts
  <2>2. CASE InitLoads(s)
    BY <2>2 DEF InitLoads, TypeOK
  <2>3. CASE Live(curProgram)' /\ InitCut
    <3>1. Text(curProgram)' \in Texts
      BY <1>1, <1>2, <2>3 DEF Live, Text, TypeOK
    <3> QED
      BY <2>3, <3>1 DEF InitCut, TypeOK
  <2>4. CASE UNCHANGED <<programData, tableOf, lagging, strayed>>
    BY <2>4 DEF TypeOK
  <2> QED
    BY <2>1, <2>2, <2>3, <2>4 DEF reInit
<1>4. exposed' \in BOOLEAN
  BY Zenon DEF reInit
<1> QED
  BY <1>1, <1>2, <1>3, <1>4 DEF TypeOK

(* Every step keeps the types.                                             *)
LEMMA Typed ==
  ASSUME TypeOK, Next
  PROVE  TypeOK'
<1> USE ProgramsAssumption DEF Programs, bank, script, history
<1>1. CASE SetProgram
  <2>1. /\ dataString' \in [Programs -> Blocks \cup {Null, Wild}]
        /\ heap' \in [Blocks -> Texts \cup {Freed}] /\ broken' \in BOOLEAN
        /\ torn' \in BOOLEAN /\ misplaced' \in BOOLEAN /\ halted' \in BOOLEAN
    BY <1>1, SaveTyped DEF SetProgram, setProgram, InRange, SaveUnlessHalted, onSaveProgram, TypeOK
  <2>2. pc' \in MidCall
    BY <1>1 DEF SetProgram, setProgram, MidCall
  <2> QED
    BY <1>1, <2>1, <2>2 DEF SetProgram, setProgram, InRange, TypeOK
<1>2. CASE Switch
  BY <1>2 DEF Switch, TypeOK, MidCall
<1>3. CASE Load
  <2>1. /\ lagging' \in BOOLEAN /\ exposed' \in BOOLEAN /\ strayed' \in BOOLEAN
        /\ halted' \in BOOLEAN /\ broken' \in BOOLEAN
    BY <1>3, Zenon DEF Load, onLoadProgram, LoadTable, Lags, TypeOK
  <2>2. /\ programData' \in Texts /\ tableOf' \in Programs \cup {Nobody}
        /\ scriptToLoad' \in Texts \cup {NoRequest}
    BY <1>3 DEF Load, onLoadProgram, LoadTable, Lags, Live, Text, TypeOK
  <2> QED
    BY <1>3, <2>1, <2>2 DEF Load, TypeOK
<1>4. CASE GetChunk
  <2>1. /\ dataString' \in [Programs -> Blocks \cup {Null, Wild}]
        /\ heap' \in [Blocks -> Texts \cup {Freed}] /\ broken' \in BOOLEAN
        /\ torn' \in BOOLEAN /\ misplaced' \in BOOLEAN /\ halted' \in BOOLEAN
    BY <1>4, SaveTyped DEF GetChunk, getChunk, SaveUnlessHalted, onSaveProgram, TypeOK
  <2> QED
    BY <1>4, <2>1 DEF GetChunk, getChunk, TypeOK
<1>5. CASE Measure
  BY <1>5 DEF Measure, TypeOK, Copying
<1>6. CASE CopyString
  <2>1. broken' \in BOOLEAN /\ torn' \in BOOLEAN
    BY <1>6, Zenon DEF CopyString, TypeOK
  <2> QED
    BY <1>6, <2>1 DEF CopyString, TypeOK, Copying
<1>7. CASE setPreset
  BY <1>7 DEF setPreset, Replaced, TypeOK, MidCall
<1>8. CASE PresetString
  <2>1. PICK text \in Texts : setDataString(curProgram, text)
    BY <1>8 DEF PresetString
  <2>2. /\ dataString' \in [Programs -> Blocks \cup {Null, Wild}]
        /\ heap' \in [Blocks -> Texts \cup {Freed}] /\ broken' \in BOOLEAN
        /\ torn' \in BOOLEAN
    BY <2>1, SetStringTyped DEF TypeOK
  <2> QED
    BY <1>8, <2>2 DEF PresetString, Replaced, TypeOK, MidCall
<1>9. CASE setBank
  BY <1>9 DEF setBank, Replaced, TypeOK, MidCall
<1>10. CASE BankPointers
  BY <1>10 DEF BankPointers, TypeOK, MidCall
<1>11. CASE BankString
  <2>1. PICK text \in Texts : setDataString(target, text)
    BY <1>11 DEF BankString
  <2>2. /\ dataString' \in [Programs -> Blocks \cup {Null, Wild}]
        /\ heap' \in [Blocks -> Texts \cup {Freed}] /\ broken' \in BOOLEAN
        /\ torn' \in BOOLEAN
    BY <2>1, SetStringTyped DEF TypeOK
  <2> QED
    BY <1>11, <2>2 DEF BankString, Replaced, TypeOK, MidCall
<1>12. CASE SizeMismatch
  <2>1. lagging' \in BOOLEAN /\ exposed' \in BOOLEAN
    BY <1>12, Zenon DEF SizeMismatch, Lags, TypeOK
  <2> QED
    BY <1>12, <2>1 DEF SizeMismatch, Lags, TypeOK
<1>13. CASE Frame \/ ResetButton \/ LoadButton
  <2>1. PICK s \in Texts : reInit(s)
    BY <1>13, Restarts
  <2>2. scriptToLoad' \in {scriptToLoad, NoRequest}
    BY <1>13, Restarts
  <2> QED
    BY <2>1, <2>2, RestartTyped DEF TypeOK
<1>14. CASE ScriptReset
  <2>1. strayed' \in BOOLEAN
    BY <1>14, Zenon DEF ScriptReset, preloadScript, TypeOK
  <2> QED
    BY <1>14, <2>1 DEF ScriptReset, preloadScript, TypeOK
<1>15. CASE Halt
  <2>1. halted' \in BOOLEAN
    BY <1>15, Zenon DEF Halt
  <2> QED
    BY <1>15, <2>1, SMTT(30) DEF Halt, TypeOK
<1>16. CASE Resume
  <2>1. halted' \in BOOLEAN
    BY <1>16, Zenon DEF Resume
  <2> QED
    BY <1>16, <2>1, SMTT(30) DEF Resume, TypeOK
<1>17. CASE SetParameter
  BY <1>17 DEF SetParameter, setParameter, TypeOK
<1> QED
  BY <1>1, <1>2, <1>3, <1>4, <1>5, <1>6, <1>7, <1>8, <1>9, <1>10, <1>11, <1>12, <1>13,
     <1>14, <1>15, <1>16, <1>17 DEF Next

(* The strings.                                                            *)
LEMMA KeepsStrings ==
  ASSUME TypeOK, StringsInv, Next, ~broken
  PROVE  StringsInv'
<1>0. /\ curProgram \in Programs /\ target \in Programs
      /\ dataString \in [Programs -> Blocks \cup {Null, Wild}]
  BY DEF TypeOK
<1> USE <1>0, ProgramsAssumption, PointersAssumption
    DEF StringsInv, bank, script, history
<1>1. CASE SetProgram
  BY <1>1, SaveOwned DEF SetProgram, setProgram, InRange
<1>2. CASE Switch
  BY <1>2 DEF Switch, Owned, Live
<1>3. CASE Load
  <2>1. /\ UNCHANGED <<dataString, heap, suspect, target, curProgram>>
        /\ pc = "load" /\ pc' = "idle"
    BY <1>3 DEF Load
  <2>2. broken' => ~Live(curProgram)
    BY <1>3 DEF Load, onLoadProgram, Lags
  <2> QED
    BY <2>1, <2>2 DEF Owned, Live
<1>4. CASE GetChunk
  BY <1>4, SaveOwned DEF GetChunk, getChunk
<1>5. CASE Measure
  BY <1>5 DEF Measure, Owned, Live
<1>6. CASE CopyString
  <2>1. UNCHANGED <<dataString, heap, suspect, curProgram>> /\ pc \in {"copyPreset", "copyBank"}
    BY <1>6 DEF CopyString, Copying
  <2>2. broken' => torn' \/ ~Live(target)
    BY <1>6, Zenon DEF CopyString
  <2>3. pc' \in {"copyPreset", "copyBank", "idle"}
    BY <1>6, <2>1 DEF CopyString
  <2> QED
    BY <2>1, <2>2, <2>3 DEF Owned, Live
<1>7. CASE setPreset
  BY <1>7 DEF setPreset, Owned, Live
<1>8. CASE PresetString
  BY <1>8 DEF PresetString
<1>9. CASE setBank
  BY <1>9 DEF setBank, Owned, Live
<1>10. CASE BankPointers
  BY <1>10 DEF BankPointers, Owned, Live, Programs
<1>11. CASE BankString
  <2> SUFFICES ASSUME ~suspect PROVE StringsInv'
    BY <1>11 DEF BankString
  <2> HIDE DEF StringsInv
  <2>1. /\ pc = "bankStrings" /\ Owned /\ UNCHANGED <<curProgram, suspect>>
        /\ \A p \in Programs : dataString[p] = Null => p >= target
    BY <1>11 DEF StringsInv, BankString
  <2>2. PICK text \in Texts : setDataString(target, text)
    BY <1>11 DEF BankString
  <2>3. /\ broken' = broken /\ Owned' /\ dataString'[target] # Null
        /\ \A q \in Programs \ {target} : dataString'[q] = dataString[q]
    BY <2>1, <2>2, SetStringOwned
  <2>4. \A p \in Programs : dataString'[p] = Null => p >= target + 1
    BY <2>1, <2>3 DEF Programs
  <2>5. CASE target = NumPrograms - 1
    <3>1. pc' = "switch" /\ \A p \in Programs : dataString'[p] # Null
      BY <1>11, <2>4, <2>5 DEF BankString, Programs
    <3> QED
      BY <2>1, <2>3, <3>1 DEF StringsInv
  <2>6. CASE target # NumPrograms - 1
    <3>1. pc' = pc /\ target' = target + 1
      BY <1>11, <2>6 DEF BankString
    <3> QED
      BY <2>1, <2>3, <2>4, <3>1 DEF StringsInv
  <2> QED
    BY <2>5, <2>6
<1>12. CASE SizeMismatch
  BY <1>12 DEF SizeMismatch, Lags, Owned, Live
<1>13. CASE Frame \/ ResetButton \/ LoadButton
  <2>1. PICK s \in Texts : reInit(s)
    BY <1>13, Restarts
  <2>2. UNCHANGED <<pc, target, curProgram, suspect>>
    BY <2>1 DEF reInit
  <2>3. CASE ~suspect /\ pc = "bankPointers"
    <3>1. dataString' = dataString
      BY <2>1, <2>3 DEF reInit, SaveAtReset, CannotSave, Saves, setDataString, Live
    <3> QED
      BY <2>2, <2>3, <3>1
  <2>4. CASE ~suspect /\ pc # "bankPointers"
    <3>1. Owned
      BY <2>4
    <3>2. CASE Saves \/ CannotSave
      <4>1. /\ broken' = broken /\ Owned'
            /\ \A p \in Programs : dataString'[p] = Null => dataString[p] = Null
        BY <3>1, <3>2, SaveOwned
      <4> QED
        BY <2>2, <2>4, <4>1
    <3>3. CASE dataString' = dataString /\ heap' = heap /\ ~Live(curProgram)
      <4>1. Owned'
        BY <3>1, <3>3 DEF Owned, Live
      <4>2. dataString[curProgram] = Null
        BY <3>1, <3>3 DEF Owned
      <4> QED
        BY <2>2, <2>4, <3>3, <4>1, <4>2
    <3> QED
      BY <2>1, <3>2, <3>3 DEF reInit, SaveAtReset
  <2> QED
    BY <2>2, <2>3, <2>4
<1>14. CASE ScriptReset
  BY <1>14 DEF ScriptReset, preloadScript, Owned, Live
<1>15. CASE Halt
  BY <1>15 DEF Halt, Owned, Live
<1>16. CASE Resume
  BY <1>16 DEF Resume, Owned, Live
<1>17. CASE SetParameter
  BY <1>17 DEF SetParameter, setParameter, Owned, Live
<1> QED
  BY <1>1, <1>2, <1>3, <1>4, <1>5, <1>6, <1>7, <1>8, <1>9, <1>10, <1>11, <1>12, <1>13,
     <1>14, <1>15, <1>16, <1>17 DEF Next

(* The table: whose data it holds, and into which program it was saved.    *)
LEMMA KeepsTable ==
  ASSUME TypeOK, TableOfProgram, ExposedInv, DataKept, Next, ~broken
  PROVE  TableOfProgram' /\ ExposedInv' /\ DataKept'
<1> USE DEF TableOfProgram, ExposedInv, DataKept, bank, script, history
<1>1. ASSUME Saves \/ CannotSave
      PROVE  misplaced' => misplaced \/ tableOf # curProgram
  BY <1>1, Zenon DEF Saves, CannotSave
<1>2. CASE SetProgram
  <2>1. /\ pc = "idle" /\ pc' = "switch" /\ UNCHANGED <<lagging, exposed, tableOf>>
        /\ Saves \/ CannotSave
    BY <1>2 DEF SetProgram, setProgram, SaveUnlessHalted, onSaveProgram
  <2> QED
    BY <1>1, <2>1 DEF MidCall
<1>3. CASE Switch
  BY <1>3 DEF Switch, MidCall
<1>4. CASE Load
  <2>1. /\ UNCHANGED <<curProgram, misplaced>> /\ pc' = "idle"
        /\ \/ LoadTable
           \/ Lags
           \/ broken' /\ UNCHANGED <<lagging, exposed>>
    BY <1>4 DEF Load, onLoadProgram
  <2>2. CASE LoadTable
    BY <2>1, <2>2 DEF LoadTable
  <2>3. CASE Lags
    <3>1. /\ lagging' <=> tableOf # curProgram
          /\ exposed' <=> exposed \/ lagging'
          /\ tableOf' = tableOf
      BY <2>3, Zenon DEF Lags
    <3> QED
      BY <2>1, <3>1
  <2>4. CASE broken' /\ UNCHANGED <<lagging, exposed>>
    BY <2>1, <2>4
  <2> QED
    BY <2>1, <2>2, <2>3, <2>4
<1>5. CASE GetChunk
  <2>1. /\ pc = "idle" /\ UNCHANGED <<curProgram, lagging, exposed, tableOf>>
        /\ Saves \/ CannotSave
    BY <1>5 DEF GetChunk, getChunk, SaveUnlessHalted, onSaveProgram
  <2> QED
    BY <1>1, <2>1 DEF MidCall
<1>6. CASE Measure
  BY <1>6 DEF Measure, MidCall
<1>7. CASE CopyString
  BY <1>7 DEF CopyString, MidCall, Copying
<1>8. CASE setPreset \/ PresetString \/ setBank
  BY <1>8 DEF setPreset, PresetString, setBank, MidCall
<1>9. CASE BankPointers
  BY <1>9 DEF BankPointers, MidCall
<1>10. CASE BankString
  BY <1>10 DEF BankString, MidCall
<1>11. CASE SizeMismatch
  BY <1>11 DEF SizeMismatch, Lags
<1>12. CASE Frame \/ ResetButton \/ LoadButton
  <2>1. PICK s \in Texts : reInit(s)
    BY <1>12, Restarts
  <2>2. /\ UNCHANGED <<pc, curProgram>> /\ (exposed' <=> exposed \/ lagging' \/ pc \in MidCall)
    BY <2>1, Zenon DEF reInit
  <2>3. broken' \/ tableOf' = curProgram \/ lagging'
    BY <2>1 DEF reInit, InitLoads, InitCut, InitSkipped
  <2>4. misplaced' => misplaced \/ tableOf # curProgram
    <3>1. CASE Saves \/ CannotSave
      BY <1>1, <3>1
    <3>2. CASE UNCHANGED misplaced
      BY <3>2
    <3> QED
      BY <2>1, <3>1, <3>2 DEF reInit, SaveAtReset
  <2> QED
    BY <2>2, <2>3, <2>4
<1>13. CASE ScriptReset
  BY <1>13 DEF ScriptReset, preloadScript
<1>14. CASE Halt \/ Resume
  BY <1>14 DEF Halt, Resume
<1>15. CASE SetParameter
  BY <1>15 DEF SetParameter, setParameter
<1> QED
  BY <1>2, <1>3, <1>4, <1>5, <1>6, <1>7, <1>8, <1>9, <1>10, <1>11, <1>12, <1>13, <1>14,
     <1>15 DEF Next

(* The parameters and the script.                                          *)
LEMMA KeepsRest ==
  ASSUME TypeOK, ParametersInv, ScriptFollows, Next, ~broken
  PROVE  ParametersInv' /\ ScriptFollows'
<1> USE DEF TypeOK, ParametersInv, ScriptFollows, bank, script, history
<1>1. CASE SetProgram
  BY <1>1 DEF SetProgram, setProgram, InRange
<1>2. CASE Switch
  BY <1>2 DEF Switch
<1>3. CASE Load
  BY <1>3 DEF Load, onLoadProgram, LoadTable, Lags
<1>4. CASE GetChunk
  BY <1>4 DEF GetChunk, getChunk
<1>5. CASE Measure
  BY <1>5 DEF Measure
<1>6. CASE CopyString
  BY <1>6 DEF CopyString, Copying
<1>7. CASE setPreset
  BY <1>7 DEF setPreset
<1>8. CASE PresetString
  BY <1>8 DEF PresetString
<1>9. CASE setBank
  BY <1>9 DEF setBank
<1>10. CASE BankPointers
  BY <1>10 DEF BankPointers
<1>11. CASE BankString
  BY <1>11 DEF BankString
<1>12. CASE SizeMismatch
  BY <1>12 DEF SizeMismatch, Lags
<1>13. CASE Frame \/ ResetButton \/ LoadButton
  <2>1. PICK s \in Texts : reInit(s)
    BY <1>13, Restarts
  <2>2. broken' \/ strayed' \/ programData' = current_script'
    BY <2>1 DEF reInit, InitLoads, InitCut, InitSkipped
  <2> QED
    BY <2>1, <2>2 DEF reInit
<1>14. CASE ScriptReset
  <2>1. strayed' <=> strayed \/ scriptToLoad # NoRequest
    BY <1>14, Zenon DEF ScriptReset, preloadScript
  <2>2. UNCHANGED <<curProgram, VSTLUA, params, pc, refused, broken, programData, current_script>>
    BY <1>14 DEF ScriptReset, preloadScript
  <2>3. ScriptFollows'
    <3>1. CASE scriptToLoad # NoRequest
      BY <2>1, <3>1
    <3>2. CASE scriptToLoad = NoRequest
      BY <2>1, <2>2, <3>2, TextsAssumption
    <3> QED
      BY <3>1, <3>2
  <2> QED
    BY <2>2, <2>3
<1>15. CASE Halt
  BY <1>15 DEF Halt
<1>16. CASE Resume
  BY <1>16 DEF Resume
<1>17. CASE SetParameter
  BY <1>17 DEF SetParameter, setParameter
<1> QED
  BY <1>1, <1>2, <1>3, <1>4, <1>5, <1>6, <1>7, <1>8, <1>9, <1>10, <1>11, <1>12, <1>13,
     <1>14, <1>15, <1>16, <1>17 DEF Next

-----------------------------------------------------------------------------
LEMMA InitIInv == Init => IInv
<1> SUFFICES ASSUME Init PROVE IInv
  OBVIOUS
<1> USE ProgramsAssumption, TextsAssumption, PointersAssumption DEF Init
<1>1. TypeOK
  <2>1. /\ lagging \in BOOLEAN /\ strayed \in BOOLEAN /\ misplaced \in BOOLEAN
        /\ exposed \in BOOLEAN /\ torn \in BOOLEAN /\ suspect \in BOOLEAN
        /\ refused \in BOOLEAN /\ broken \in BOOLEAN /\ halted \in BOOLEAN
    BY Zenon
  <2>2. /\ curProgram \in Programs /\ target \in Programs
        /\ dataString \in [Programs -> Blocks \cup {Null, Wild}]
        /\ heap \in [Blocks -> Texts \cup {Freed}]
        /\ params \in Values /\ VSTLUA \in [Programs -> Values]
    BY DEF Programs, Texts
  <2> QED
    BY <2>1, <2>2 DEF TypeOK, Texts
<1>2. StringsInv
  <2>1. \A p \in Programs : Live(p) /\ dataString[p] # Null
    BY DEF Live, Texts
  <2> QED
    BY <2>1 DEF StringsInv, Owned
<1>3. /\ TableOfProgram /\ ExposedInv /\ DataKept
      /\ ParametersInv /\ ScriptFollows
  BY DEF TableOfProgram, ExposedInv, DataKept, ParametersInv, ScriptFollows, Programs
<1> QED
  BY <1>1, <1>2, <1>3 DEF IInv

LEMMA NextIInv == IInv /\ [Next]_vars => IInv'
<1> SUFFICES ASSUME IInv, [Next]_vars PROVE IInv'
  OBVIOUS
<1> USE DEF IInv
<1>1. CASE Next
  <2>1. ~broken
    BY <1>1 DEF Next
  <2> QED
    BY <1>1, <2>1, Typed, KeepsStrings, KeepsTable, KeepsRest
<1>2. CASE UNCHANGED vars
  <2> USE <1>2 DEF vars, bank, script, history
  <2>1. TypeOK'
    BY DEF TypeOK
  <2>2. StringsInv'
    BY DEF StringsInv, Owned, Live
  <2>3. /\ TableOfProgram' /\ ExposedInv' /\ DataKept'
        /\ ParametersInv' /\ ScriptFollows'
    BY DEF TableOfProgram, ExposedInv, DataKept, ParametersInv, ScriptFollows
  <2> QED
    BY <2>1, <2>2, <2>3
<1> QED
  BY <1>1, <1>2

(* The inductive invariant of the programs: who owns which string at which *)
(* step of a call of the host, and when table and parameters may lag.      *)
THEOREM Invariance == Spec => []IInv
<1> QED
  BY InitIInv, NextIInv, PTL DEF Spec

(* programData is the current program's table, except in the middle of a   *)
(* call that changes the program and when the script did not load it.      *)
THEOREM TableIsCurrent == Spec => []TableOfProgram
<1>1. IInv => TableOfProgram
  BY DEF IInv
<1> QED
  BY <1>1, Invariance, PTL

(* No table is saved into another program, unless it lagged or a restart   *)
(* came in the middle of a program change.                                 *)
THEOREM DataStays == Spec => []DataKept
<1>1. IInv => DataKept
  BY DEF IInv
<1> QED
  BY <1>1, Invariance, PTL

(* Without presets and refused banks each program owns its string, and     *)
(* only a restart in the middle of setChunk, or while getChunk copies, has *)
(* a pointer read or freed that owns none.                                 *)
THEOREM ProgramsOwnStrings == Spec => []StringsOwned
<1>1. IInv => StringsOwned
  BY DEF IInv, StringsInv, Owned, StringsOwned
<1> QED
  BY <1>1, Invariance, PTL

(* The parameters are those of the current program whenever the host is    *)
(* idle.                                                                   *)
THEOREM ParametersAreCurrent == Spec => []ParametersFollow
<1>1. IInv => ParametersFollow
  BY DEF IInv, ParametersInv, ParametersFollow
<1> QED
  BY <1>1, Invariance, PTL

(* programData names the script that runs or is about to, unless the script*)
(* replaced that request or its table was not loaded.                      *)
THEOREM ScriptIsFollowed == Spec => []ScriptFollows
<1>1. IInv => ScriptFollows
  BY DEF IInv
<1> QED
  BY <1>1, Invariance, PTL
===============================================================================
