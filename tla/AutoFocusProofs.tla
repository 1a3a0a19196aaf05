--------------------------- MODULE AutoFocusProofs ---------------------------
(***************************************************************************)
(* Theorems about AutoFocus, for every lens, range, step, set of           *)
(* commanders, number of tries and of commands.                            *)
(***************************************************************************)
EXTENDS AutoFocus, TLAPS

USE DEF Bit, lensVars, rangeVars, flagVars, searchState, faults, callKeeps,
        commandKeeps

-----------------------------------------------------------------------------
(***************************************************************************)
(* The lens calls.                                                         *)
(***************************************************************************)
LEMMA ClampInRange ==
  ASSUME NEW p \in Int
  PROVE  Clamp(p) \in Range /\ (p \in Range => Clamp(p) = p)
BY FocusRangeAssumption DEF Clamp, Range

LEMMA MoveStaysInRange ==
  ASSUME NEW l \in Range, NEW t \in Int, NEW m \in MoveEnds(l, t)
  PROVE  m \in Range
<1>1. Clamp(t) \in Range
  BY ClampInRange
<1>2. Clamp(t) \in Int /\ l \in Int /\ MinFocus \in Int /\ MaxFocus \in Int
  BY <1>1, FocusRangeAssumption DEF Range
<1>3. m \in l .. Clamp(t) \/ m \in Clamp(t) .. l
  BY DEF MoveEnds
<1> QED BY <1>1, <1>2, <1>3 DEF Range

LEMMA TargetIsInt == TypeOK => Target \in Int
<1> SUFFICES ASSUME TypeOK PROVE Target \in Int
  OBVIOUS
<1>1. MaxFocus \in Int /\ DefaultFocus \in Int /\ lens \in Int
  BY FocusRangeAssumption DEF TypeOK, Range
<1>2. Stride \in Int /\ FromWhereItIs \in Int
  BY DEF Stride, Lesser, FromWhereItIs, TypeOK
<1>3. Displacement \in Int
  BY <1>1, <1>2 DEF Displacement, TypeOK
<1> QED BY <1>1, <1>3 DEF Target

\* fp leaves an integer, whatever it was answered.
LEMMA Reported ==
  ASSUME TypeOK, NEW shared, TakeReport(shared) \/ Unparsed
  PROVE  focusPos' \in Int /\ prevPos' \in Int
<1>1. CASE TakeReport(shared)
  <2>1. PICK p \in Reports(shared) : focusPos' = p /\ prevPos' = p
    BY <1>1 DEF TakeReport
  <2>2. p \in Range
    BY DEF Reports, TypeOK
  <2>3. p \in Int
    BY <2>2, FocusRangeAssumption DEF Range
  <2> QED BY <2>1, <2>3
<1>2. CASE Unparsed
  BY <1>2 DEF Unparsed, TypeOK
<1> QED BY <1>1, <1>2

\* Where a lens call goes when it is over, and what it leaves alone.
LEMMA ReturnLeads ==
  ASSUME TypeOK, NEW ok, Return(ok)
  PROVE  /\ step' \in LensSteps /\ focusMode' \in Bit /\ gone' \in BOOLEAN
         /\ \/ pc = "toRange" /\ pc' = "bin"
            \/ pc = "shift" /\ pc' = "loop" /\ gone' = TRUE
            \/ pc = "back" /\ pc' \in {"best", "default"}
            \/ pc = "default" /\ pc' = "failed"
            \/ pc = "best" /\ pc' = "done"
         /\ pc' = "best" => step' = "mf"
<1>1. gone' \in BOOLEAN
  BY Zenon DEF Return, TypeOK
<1> QED BY <1>1 DEF Return, Goto, TypeOK, LensSteps

LEMMA LensCallLeads ==
  ASSUME TypeOK, LensCall
  PROVE  /\ pc \in LensCalls /\ UNCHANGED callKeeps
         /\ step' \in LensSteps /\ focusMode' \in Bit /\ gone' \in BOOLEAN
         /\ \/ pc' = pc
            \/ pc = "toRange" /\ pc' = "bin"
            \/ pc = "shift" /\ pc' = "loop"
            \/ pc = "back" /\ pc' \in {"best", "default"}
            \/ pc = "default" /\ pc' = "failed"
            \/ pc = "best" /\ pc' = "done"
         /\ pc' \in {"shift", "best"} => step' \in {"mf", "check"}
<1>1. CASE MoveLens
  <2>1. pc \in LensCalls /\ UNCHANGED callKeeps
    BY <1>1 DEF MoveLens
  <2>2. CASE GoOn(IF step = "mi" THEN "fp" ELSE "check")
    <3>1. gone' \in BOOLEAN
      BY <2>2, Zenon DEF GoOn, TypeOK
    <3>2. pc \in {"shift", "best"} => step # "mi"
      BY DEF TypeOK
    <3> QED BY <2>1, <2>2, <3>1, <3>2 DEF GoOn, TypeOK, LensSteps
  <2>3. CASE Return(FALSE)
    BY <2>1, <2>3, ReturnLeads
  <2> QED BY <1>1, <2>2, <2>3 DEF MoveLens
<1>2. CASE SkipShift
  <2>1. Return(TRUE) /\ UNCHANGED callKeeps /\ pc \in LensCalls
    BY <1>2 DEF SkipShift, LensCalls
  <2> QED BY <2>1, ReturnLeads
<1>3. CASE ReadLens
  <2>1. pc \in LensCalls /\ UNCHANGED callKeeps
    BY <1>3 DEF ReadLens
  <2>2. CASE GoOn("mf")
    <3>1. gone' \in BOOLEAN
      BY <2>2, Zenon DEF GoOn, TypeOK
    <3> QED BY <2>1, <2>2, <3>1 DEF GoOn, TypeOK, LensSteps
  <2>3. CASE Return(FALSE)
    BY <2>1, <2>3, ReturnLeads
  <2>4. CASE Return(TRUE)
    BY <2>1, <2>4, ReturnLeads
  <2> QED BY <1>3, <2>2, <2>3, <2>4 DEF ReadLens
<1> QED BY <1>1, <1>2, <1>3 DEF LensCall

\* What a step that leaves no trace in the history has done.
LEMMA Noted ==
  ASSUME TypeOK, NEW fault, NoteFault(fault)
  PROVE  /\ disturbed' \in BOOLEAN /\ astray' \in BOOLEAN
         /\ ~disturbed' => ~disturbed /\ ~fault
         /\ ~astray' /\ pc \in {"best", "done"} => ~astray /\ ~fault
BY Zenon DEF NoteFault, TypeOK

LEMMA Moved ==
  ASSUME TypeOK, MoveLens
  PROVE  /\ disturbed' \in BOOLEAN /\ astray' \in BOOLEAN
         /\ ~disturbed' => /\ ~disturbed /\ lens' = Clamp(Target)
                           /\ GoOn(IF step = "mi" THEN "fp" ELSE "check")
         /\ ~astray' /\ pc = "best" =>
              /\ ~astray /\ lens' = Clamp(Target)
              /\ GoOn(IF step = "mi" THEN "fp" ELSE "check")
<1>1. CASE /\ NoteFault(lens' # Clamp(Target))
           /\ GoOn(IF step = "mi" THEN "fp" ELSE "check")
  BY <1>1, Noted
<1>2. CASE NoteFault(TRUE)
  BY <1>2, Noted
<1> QED BY <1>1, <1>2 DEF MoveLens

LEMMA WasRead ==
  ASSUME TypeOK, ReadLens
  PROVE  /\ disturbed' \in BOOLEAN /\ astray' \in BOOLEAN
         /\ ~disturbed' =>
              /\ ~disturbed /\ focusPos' = lens /\ lens' = lens
              /\ IF step = "fp" THEN GoOn("mf") ELSE Return(TRUE)
         /\ ~astray' /\ pc = "best" => ~astray /\ focusPos' = lens
         /\ ~astray' /\ pc = "back" /\ pc' = "best" => focusPos' = lens
<1>1. CASE NoteReading /\ IF step = "fp" THEN GoOn("mf") ELSE Return(TRUE)
  <2>1. CASE pc = "back" /\ step = "check"
    <3>1. /\ disturbed' = (disturbed \/ focusPos' # lens)
          /\ astray' = (focusPos' # lens)
      BY <1>1, <2>1 DEF NoteReading
    <3>2. /\ disturbed' \in BOOLEAN /\ astray' \in BOOLEAN
          /\ ~disturbed' => ~disturbed /\ focusPos' = lens
          /\ ~astray' => focusPos' = lens
      BY <3>1, Zenon DEF TypeOK
    <3>3. lens' = lens
      BY DEF ReadLens
    <3> QED BY <1>1, <2>1, <3>2, <3>3
  <2>2. CASE ~(pc = "back" /\ step = "check")
    <3>1. NoteFault(focusPos' # lens)
      BY <1>1, <2>2 DEF NoteReading
    <3>2. pc = "back" => pc' # "best"
      <4>1. ASSUME pc = "back" PROVE GoOn("mf")
        BY <1>1, <2>2, <4>1 DEF ReadLens
      <4> QED BY <4>1 DEF GoOn
    <3>3. lens' = lens
      BY DEF ReadLens
    <3> QED BY <1>1, <3>1, <3>2, <3>3, Noted
  <2> QED BY <2>1, <2>2
<1>2. CASE NoteFault(TRUE) /\ Return(FALSE) /\ UNCHANGED focusPos
  <2>1. /\ disturbed' = TRUE /\ disturbed' \in BOOLEAN /\ astray' \in BOOLEAN
        /\ pc = "best" => astray'
    BY <1>2, Zenon DEF NoteFault, TypeOK
  <2>2. pc = "back" => pc' # "best"
    BY <1>2 DEF Return, Goto
  <2> QED BY <2>1, <2>2
<1> QED BY <1>1, <1>2 DEF ReadLens

-----------------------------------------------------------------------------
(***************************************************************************)
(* Commands.                                                               *)
(***************************************************************************)
\* A command moves no part of the run but its flags and its range.  What it
\* does to the lens, to focus_position or to the range is remembered.
LEMMA CommandsKeep ==
  ASSUME TypeOK, NEW c \in Commanders, Commands(c)
  PROVE  /\ UNCHANGED commandKeeps
         /\ disturbed' \in BOOLEAN /\ astray' \in BOOLEAN
         /\ ~disturbed' => /\ ~disturbed
                           /\ UNCHANGED <<lens, focusPos, rangeVars, cancelling>>
         /\ ~astray' => ~astray
         /\ ~astray' /\ pc \in {"best", "done"} => UNCHANGED <<lens, focusPos>>
<1> USE DEF TypeOK
<1>1. CASE CommandMode(c)
  <2>1. UNCHANGED <<commandKeeps, lensVars, rangeVars, astray>>
    BY <1>1 DEF CommandMode
  <2>2. disturbed' = TRUE \/ UNCHANGED <<disturbed, cancelling>>
    BY <1>1 DEF CommandMode, SetMode, Disturb
  <2>3. astray' \in BOOLEAN
    BY <2>1, Zenon
  <2>4. disturbed' \in BOOLEAN
    BY <2>2, Zenon
  <2> QED BY <2>1, <2>2, <2>3, <2>4
<1>2. CASE CommandRange(c)
  <2>1. UNCHANGED <<commandKeeps, lensVars, cancelling, astray>>
    BY <1>2 DEF CommandRange
  <2>2. disturbed' = TRUE \/ UNCHANGED <<disturbed, rangeVars>>
    BY <1>2 DEF CommandRange, Disturb
  <2>3. astray' \in BOOLEAN
    BY <2>1, Zenon
  <2>4. disturbed' \in BOOLEAN
    BY <2>2, Zenon
  <2> QED BY <2>1, <2>2, <2>3, <2>4
<1>3. CASE TurnedAway(c) \/ PassGate(c) \/ SeeNoImage(c) \/ LeaveLens(c)
  <2>1. UNCHANGED <<commandKeeps, lensVars, rangeVars, cancelling, faults>>
    BY <1>3 DEF TurnedAway, PassGate, SeeNoImage, LeaveLens, Command
  <2>2. disturbed' \in BOOLEAN /\ astray' \in BOOLEAN
    BY <2>1, Zenon
  <2> QED BY <2>1, <2>2
<1>4. CASE CommandPosition(c) \/ CommandLens(c) \/ CommandRead(c)
  <2>1. UNCHANGED <<commandKeeps, rangeVars, cancelling>>
    BY <1>4 DEF CommandPosition, CommandLens, CommandRead, Command
  <2>2. Touch \/ UNCHANGED <<lens, focusPos, faults>>
    BY <1>4 DEF CommandPosition, CommandLens, CommandRead
  <2>3. CASE Touch
    <3>1. /\ disturbed' = TRUE /\ disturbed' \in BOOLEAN
          /\ astray' \in BOOLEAN
          /\ ~astray' => ~astray /\ pc \notin {"best", "done"}
      BY <2>3, Zenon DEF Touch, Disturb
    <3> QED BY <2>1, <3>1
  <2>4. CASE UNCHANGED <<lens, focusPos, faults>>
    <3>1. disturbed' \in BOOLEAN /\ astray' \in BOOLEAN
      BY <2>4, Zenon
    <3> QED BY <2>1, <2>4, <3>1
  <2> QED BY <2>2, <2>3, <2>4
<1> QED BY <1>1, <1>2, <1>3, <1>4 DEF Commands

-----------------------------------------------------------------------------
(***************************************************************************)
(* Types.                                                                  *)
(***************************************************************************)
LEMMA InitTypeOK == Init => TypeOK
<1> SUFFICES ASSUME Init PROVE TypeOK
  OBVIOUS
<1>1. lens \in Range /\ focusPos \in Int /\ prevPos \in Int
  BY FocusRangeAssumption DEF Init, Range
<1>2. startPos \in Int /\ endPos \in Int /\ focusStep \in Int
  BY FocusParamsAssumption DEF Init
<1>3. tries \in 0 .. MaxTries /\ commands \in 0 .. MaxCommands
  BY FocusParamsAssumption DEF Init
<1>4. gone \in BOOLEAN /\ disturbed \in BOOLEAN /\ astray \in BOOLEAN
  BY Zenon DEF Init
<1>5. at \in [Commanders -> CommandLabels]
  BY DEF Init, CommandLabels
<1> QED BY <1>1, <1>2, <1>3, <1>4, <1>5 DEF Init, TypeOK, Labels, LensSteps

LEMMA LensCallTypes == ASSUME TypeOK, LensCall PROVE TypeOK'
<1>1. lens' \in Range /\ focusPos' \in Int /\ prevPos' \in Int
  <2>1. CASE MoveLens
    <3>1. lens' \in MoveEnds(lens, Target) /\ UNCHANGED <<focusPos, prevPos>>
      BY <2>1 DEF MoveLens
    <3>2. lens' \in Range
      BY <3>1, TargetIsInt, MoveStaysInRange DEF TypeOK
    <3> QED BY <3>1, <3>2 DEF TypeOK
  <2>2. CASE SkipShift
    BY <2>2 DEF SkipShift, TypeOK
  <2>3. CASE ReadLens
    <3>1. lens' = lens
      BY <2>3 DEF ReadLens
    <3>2. CASE TakeReport(LensShared) \/ Unparsed
      BY <3>1, <3>2, Reported DEF TypeOK
    <3>3. CASE UNCHANGED <<focusPos, prevPos>>
      BY <3>1, <3>3 DEF TypeOK
    <3> QED BY <2>3, <3>2, <3>3 DEF ReadLens
  <2> QED BY <2>1, <2>2, <2>3 DEF LensCall
<1>2. disturbed' \in BOOLEAN /\ astray' \in BOOLEAN
  <2>1. CASE SkipShift
    BY <2>1, Zenon DEF SkipShift, TypeOK
  <2> QED BY <2>1, Moved, WasRead DEF LensCall
<1>3. /\ UNCHANGED callKeeps /\ pc' \in Labels
      /\ step' \in LensSteps /\ focusMode' \in Bit /\ gone' \in BOOLEAN
      /\ pc' \in {"shift", "best"} => step' \in {"mf", "check"}
  BY LensCallLeads DEF TypeOK, Labels
<1> QED BY <1>1, <1>2, <1>3 DEF TypeOK

LEMMA CommandTypes ==
  ASSUME TypeOK, NEW c \in Commanders, Commands(c) PROVE TypeOK'
<1>1. /\ UNCHANGED commandKeeps
      /\ disturbed' \in BOOLEAN /\ astray' \in BOOLEAN
  BY CommandsKeep
<1>2. at' \in [Commanders -> CommandLabels]
  <2>1. PICK label \in CommandLabels : at' = [at EXCEPT ![c] = label]
    BY DEF Commands, CommandMode, CommandRange, TurnedAway, PassGate,
           CommandPosition, SeeNoImage, CommandLens, LeaveLens, CommandRead,
           Command, CommandGoto, CommandLabels
  <2> QED BY <2>1 DEF TypeOK
<1>3. commands' \in 0 .. MaxCommands
  BY FocusParamsAssumption
  DEF Commands, CommandMode, CommandRange, TurnedAway, PassGate,
      CommandPosition, SeeNoImage, CommandLens, LeaveLens, CommandRead,
      Command, TypeOK
<1>4. /\ focusMode' \in Bit /\ beginAutoFocus' \in Bit /\ cancelling' \in Bit
      /\ startPos' \in Int /\ endPos' \in Int /\ focusStep' \in Int
  <2>1. CASE CommandMode(c)
    BY <2>1 DEF CommandMode, SetMode, TypeOK
  <2>2. CASE CommandRange(c)
    BY <2>2, FocusParamsAssumption DEF CommandRange, TypeOK
  <2>3. CASE UNCHANGED <<rangeVars, focusMode, beginAutoFocus, cancelling>>
    BY <2>3 DEF TypeOK
  <2> QED BY <2>1, <2>2, <2>3
          DEF Commands, TurnedAway, PassGate, CommandPosition, SeeNoImage,
              CommandLens, LeaveLens, CommandRead, Command
<1>5. lens' \in Range /\ focusPos' \in Int /\ prevPos' \in Int
  <2>1. CASE UNCHANGED lensVars
    BY <2>1 DEF TypeOK
  <2>2. CASE CommandPosition(c)
    BY <2>2, FocusParamsAssumption DEF CommandPosition, TypeOK
  <2>3. CASE CommandLens(c)
    <3>1. MaxFocus \in Int /\ lens + focusPos - prevPos \in Int
      BY FocusRangeAssumption DEF TypeOK, Range
    <3>2. /\ UNCHANGED <<focusPos, prevPos>>
          /\ \/ lens' \in MoveEnds(lens, MaxFocus)
             \/ lens' \in MoveEnds(lens, lens + focusPos - prevPos)
      BY <2>3 DEF CommandLens
    <3>3. lens' \in Range
      BY <3>1, <3>2, MoveStaysInRange DEF TypeOK
    <3> QED BY <3>2, <3>3 DEF TypeOK
  <2>4. CASE CommandRead(c)
    <3>1. lens' = lens
      BY <2>4 DEF CommandRead
    <3>2. CASE TakeReport(pc \in LensCalls) \/ Unparsed
      BY <3>1, <3>2, Reported DEF TypeOK
    <3>3. CASE UNCHANGED <<focusPos, prevPos>>
      BY <3>1, <3>3 DEF TypeOK
    <3> QED BY <2>4, <3>2, <3>3 DEF CommandRead
  <2> QED BY <2>1, <2>2, <2>3, <2>4
          DEF Commands, CommandMode, CommandRange, TurnedAway, PassGate,
              SeeNoImage, LeaveLens
<1> QED BY <1>1, <1>2, <1>3, <1>4, <1>5 DEF TypeOK

LEMMA NextTypeOK == TypeOK /\ [Next]_vars => TypeOK'
<1> SUFFICES ASSUME TypeOK, [Next]_vars PROVE TypeOK'
  OBVIOUS
<1> USE DEF TypeOK, Labels, LensSteps, Goto
<1>1. CASE Request
  <2>1. tries' \in 0 .. MaxTries /\ commands' \in 0 .. MaxCommands
    BY <1>1, FocusParamsAssumption DEF Request
  <2>2. gone' \in BOOLEAN /\ disturbed' \in BOOLEAN /\ astray' \in BOOLEAN
    BY <1>1, Zenon DEF Request
  <2> QED BY <1>1, <2>1, <2>2 DEF Request
<1>2. CASE OpenLog
  <2>1. startPos' \in Int /\ endPos' \in Int
    BY <1>2, FocusRangeAssumption DEF OpenLog
  <2> QED BY <1>2, <2>1 DEF OpenLog
<1>3. CASE LogFails
  BY <1>3 DEF LogFails, ReturnFailed
<1>4. CASE Bin \/ BinFails
  BY <1>4 DEF Bin, BinFails, ReturnFailed
<1>5. CASE Exhausted \/ Image
  BY <1>5 DEF Exhausted, Image
<1>6. CASE Quit \/ Expose
  <2>1. tries' \in 0 .. MaxTries
    BY <1>6, FocusParamsAssumption DEF Quit, Expose, TriesLeft, SpendTry
  <2> QED BY <1>6, <2>1 DEF Quit, Expose
<1>7. CASE GiveUp
  BY <1>7 DEF GiveUp, ReturnFailed, RestoreBinning
<1>8. CASE Measure
  BY <1>8 DEF Measure
<1>9. CASE Unbin
  <2>1. bestPos' \in Int
    BY <1>9, ClampInRange, FocusRangeAssumption DEF Unbin, Range
  <2> QED BY <1>9, <2>1 DEF Unbin
<1>10. CASE UnbinFails
  BY <1>10 DEF UnbinFails, ReturnFailed
<1>11. CASE LensCall
  BY <1>11, LensCallTypes
<1>12. CASE \E c \in Commanders : Commands(c)
  BY <1>12, CommandTypes
<1>13. CASE UNCHANGED vars
  BY <1>13 DEF vars
<1> QED
  BY <1>1, <1>2, <1>3, <1>4, <1>5, <1>6, <1>7, <1>8, <1>9, <1>10, <1>11,
     <1>12, <1>13 DEF Next, Run

\* Every variable stays in its set; in particular the lens between its stops,
\* wherever the run, a stuck move or a command sends it, and remainingFocusPos
\* at or above zero (doContrastDetectAutoFocus).
THEOREM TypeCorrect == Spec => []TypeOK
<1> QED BY InitTypeOK, NextTypeOK, PTL DEF Spec

-----------------------------------------------------------------------------
(***************************************************************************)
(* The binning.                                                            *)
(***************************************************************************)
\* Only the search is binned.  BinningRestored alone would let a run begin
\* or bin again with the camera in any state.
BinnedOnlyInSearch ==
  /\ BinningRestored
  /\ pc \in {"start", "toRange", "bin", "back", "default", "best"} => binning = 1

LEMMA NextBinned ==
  TypeOK /\ BinnedOnlyInSearch /\ [Next]_vars => BinnedOnlyInSearch'
<1> SUFFICES ASSUME TypeOK, BinnedOnlyInSearch, [Next]_vars
             PROVE  BinnedOnlyInSearch'
  OBVIOUS
<1> USE DEF BinnedOnlyInSearch, BinningRestored, Running, Labels, Goto
<1>1. CASE Request
  BY <1>1 DEF Request
<1>2. CASE OpenLog \/ LogFails
  BY <1>2 DEF OpenLog, LogFails, ReturnFailed
<1>3. CASE Bin \/ BinFails
  BY <1>3 DEF Bin, BinFails, ReturnFailed
<1>4. CASE Exhausted \/ Quit \/ Expose \/ Image \/ Measure
  BY <1>4 DEF Exhausted, Quit, Expose, Image, Measure
<1>5. CASE GiveUp
  BY <1>5 DEF GiveUp, RestoreBinning, ReturnFailed
<1>6. CASE Unbin \/ UnbinFails
  BY <1>6 DEF Unbin, UnbinFails, ReturnFailed
<1>7. CASE LensCall
  BY <1>7, LensCallLeads DEF LensCalls
<1>8. CASE \E c \in Commanders : Commands(c)
  BY <1>8, CommandsKeep
<1>9. CASE UNCHANGED vars
  BY <1>9 DEF vars
<1> QED
  BY <1>1, <1>2, <1>3, <1>4, <1>5, <1>6, <1>7, <1>8, <1>9 DEF Next, Run

\* No way out of the run, early or late, leaves the camera at the binning of
\* the search with the program running on (doContrastDetectAutoFocus,
\* restoreBinningFactor).
THEOREM BinningIsRestored == Spec => []BinningRestored
<1>1. Init => BinnedOnlyInSearch
  BY DEF Init, BinnedOnlyInSearch, BinningRestored
<1>2. BinnedOnlyInSearch => BinningRestored
  BY DEF BinnedOnlyInSearch
<1> QED BY <1>1, <1>2, InitTypeOK, NextTypeOK, NextBinned, PTL DEF Spec

-----------------------------------------------------------------------------
(***************************************************************************)
(* The end of the run.                                                     *)
(***************************************************************************)
\* From the end of the search on the best position is one the lens can reach;
\* before the last move a lens that is not astray is where fp has found it,
\* and after it at the best position.  Nothing of the search itself is needed:
\* beginAutoFocus reads the position again.
OnTheWayToBest ==
  /\ pc \in {"back", "best", "done"} => bestPos \in Range
  /\ pc = "best" /\ step = "mf" /\ ~astray => focusPos = lens
  /\ pc = "best" /\ step = "check" /\ ~astray => lens = bestPos
  /\ FinishesAtBest

LEMMA LensCallOnTheWay ==
  ASSUME TypeOK, OnTheWayToBest, LensCall PROVE OnTheWayToBest'
<1> USE DEF OnTheWayToBest, FinishesAtBest
<1>1. /\ bestPos' = bestPos
      /\ pc' = pc \/ pc' \in {"bin", "loop", "default", "failed"}
         \/ (pc = "back" /\ pc' = "best") \/ (pc = "best" /\ pc' = "done")
      /\ pc \in LensCalls
      /\ pc' = "best" => step' \in {"mf", "check"}
  BY LensCallLeads
<1>2. CASE pc # "best" /\ pc' # "best"
  BY <1>1, <1>2 DEF LensCalls
<1>3. CASE pc = "back" /\ pc' = "best"
  <2>1. ReadLens /\ step' = "mf" /\ lens' = lens
    <3>1. CASE MoveLens
      BY <1>3, <3>1 DEF MoveLens, GoOn, Return, Goto
    <3>2. CASE SkipShift
      BY <1>3, <3>2 DEF SkipShift
    <3>3. CASE ReadLens
      BY <1>3, <3>3 DEF ReadLens, GoOn, Return, Goto
    <3> QED BY <3>1, <3>2, <3>3 DEF LensCall
  <2>2. ~astray' => focusPos' = lens
    BY <1>3, <2>1, WasRead
  <2> QED BY <1>1, <1>3, <2>1, <2>2
<1>4. CASE pc = "best"
  <2>1. bestPos \in Range /\ bestPos' = bestPos /\ step \in {"mf", "check"}
    BY <1>1, <1>4 DEF TypeOK
  <2>2. CASE MoveLens
    <3>1. step = "mf"
      BY <2>1, <2>2 DEF MoveLens
    <3>2. ~astray' => /\ ~astray /\ lens' = Clamp(Target)
                      /\ step' = "check" /\ pc' = "best"
      BY <1>4, <2>2, <3>1, Moved DEF GoOn
    <3>3. Target = lens + (bestPos - focusPos)
      BY <1>4, <3>1 DEF Target, Displacement, FromWhereItIs
    <3>4. lens \in Int /\ focusPos \in Int /\ bestPos \in Int
      BY FocusRangeAssumption DEF TypeOK, Range
    <3>5. ~astray => Target = bestPos
      BY <1>4, <3>1, <3>3, <3>4
    <3>6. Clamp(bestPos) = bestPos
      BY <2>1, <3>4, ClampInRange
    <3>7. ~astray' => lens' = bestPos
      BY <3>2, <3>5, <3>6
    <3> QED BY <1>1, <1>4, <2>1, <3>2, <3>7
  <2>3. CASE ReadLens
    <3>1. step = "check" /\ lens' = lens
      BY <2>1, <2>3 DEF ReadLens
    <3>2. pc' = "done"
      BY <1>4, <2>3, <3>1 DEF ReadLens, Return, Goto
    <3>3. ~astray' => ~astray /\ focusPos' = lens
      BY <1>4, <2>3, WasRead
    <3> QED BY <1>4, <2>1, <3>1, <3>2, <3>3
  <2>4. ~SkipShift
    BY <1>4 DEF SkipShift
  <2> QED BY <2>2, <2>3, <2>4 DEF LensCall
<1> QED BY <1>1, <1>2, <1>3, <1>4

LEMMA NextOnTheWay == TypeOK /\ OnTheWayToBest /\ [Next]_vars => OnTheWayToBest'
<1> SUFFICES ASSUME TypeOK, OnTheWayToBest, [Next]_vars PROVE OnTheWayToBest'
  OBVIOUS
<1> USE DEF OnTheWayToBest, FinishesAtBest, Labels, Goto
<1>1. CASE Request \/ OpenLog \/ LogFails
  BY <1>1 DEF Request, OpenLog, LogFails, ReturnFailed
<1>2. CASE Bin \/ BinFails \/ Exhausted \/ Quit \/ Expose \/ Image \/ GiveUp
             \/ Measure
  BY <1>2 DEF Bin, BinFails, Exhausted, Quit, Expose, Image, GiveUp, Measure,
              ReturnFailed
<1>3. CASE Unbin
  <2>1. bestPos' \in Range
    BY <1>3, ClampInRange DEF Unbin, TypeOK
  <2> QED BY <1>3, <2>1 DEF Unbin
<1>4. CASE UnbinFails
  BY <1>4 DEF UnbinFails, ReturnFailed
<1>5. CASE LensCall
  BY <1>5, LensCallOnTheWay
<1>6. CASE \E c \in Commanders : Commands(c)
  BY <1>6, CommandsKeep
<1>7. CASE UNCHANGED vars
  BY <1>7 DEF vars
<1> QED BY <1>1, <1>2, <1>3, <1>4, <1>5, <1>6, <1>7 DEF Next, Run

\* However the search went, a run that returns 0 leaves the lens at the
\* position it chose, unless the lens disobeyed or misreported, or a command
\* drove it or wrote focus_position, since it was read for the last move
\* (doContrastDetectAutoFocus).
THEOREM LensEndsAtBest == Spec => []FinishesAtBest
<1>1. Init => OnTheWayToBest
  BY DEF Init, OnTheWayToBest, FinishesAtBest
<1>2. OnTheWayToBest => FinishesAtBest
  BY DEF OnTheWayToBest
<1> QED BY <1>1, <1>2, InitTypeOK, NextTypeOK, NextOnTheWay, PTL DEF Spec

-----------------------------------------------------------------------------
(***************************************************************************)
(* AutoFocus implements FocusSearch.                                       *)
(***************************************************************************)
AfterSearch == {"back", "default", "best", "done"}

\* The best position is that of a sharpest image, brought between the stops
\* once the search is over.
IsBest(i) ==
  /\ i[2] = bestScore
  /\ \A j \in images : j[2] <= bestScore
  /\ bestPos = IF pc \in AfterSearch THEN Clamp(i[1]) ELSE i[1]

BestOfImages ==
  /\ images = {} => bestScore = 0
  /\ images # {} /\ pc \notin {"idle", "failed"} => \E i \in images : IsBest(i)
  /\ pc \in {"start", "toRange", "bin"} => images = {}

\* A step that keeps the images and the best of them keeps BestOfImages.
LEMMA BestKept ==
  ASSUME BestOfImages,
         UNCHANGED <<images, bestScore>>,
         \/ pc' \in {"idle", "failed"}
         \/ /\ bestPos' = bestPos /\ pc \notin {"idle", "failed"}
            /\ pc \in AfterSearch <=> pc' \in AfterSearch,
         pc' \in {"start", "toRange", "bin"} => pc \in {"start", "toRange", "bin"}
  PROVE  BestOfImages'
BY DEF BestOfImages, IsBest, AfterSearch

LEMMA NextBest == TypeOK /\ BestOfImages /\ [Next]_vars => BestOfImages'
<1> SUFFICES ASSUME TypeOK, BestOfImages, [Next]_vars PROVE BestOfImages'
  OBVIOUS
<1> USE DEF Goto
<1>1. CASE Request
  BY <1>1 DEF Request, BestOfImages, AfterSearch
<1>2. CASE OpenLog \/ LogFails
  BY <1>2, BestKept DEF OpenLog, LogFails, ReturnFailed, AfterSearch
<1>3. CASE Bin \/ BinFails \/ Exhausted \/ Quit \/ Expose \/ Image \/ GiveUp
  BY <1>3, BestKept DEF Bin, BinFails, Exhausted, Quit, Expose, Image, GiveUp,
              ReturnFailed, AfterSearch
<1>4. CASE Measure
  <2>1. PICK s \in Scores :
          /\ images' = images \union {<<focusPos, s>>}
          /\ bestScore' = IF Improves(s) THEN s ELSE bestScore
          /\ bestPos' = IF Improves(s) THEN focusPos ELSE bestPos
    BY <1>4 DEF Measure
  <2>2. pc = "measure" /\ pc' = "shift" /\ focusPos' = focusPos
    BY <1>4 DEF Measure
  <2>3. s \in Nat /\ bestScore \in Nat
    BY FocusScoresAssumption DEF TypeOK
  <2>4. \A j \in images : j[2] \in Nat
    BY FocusScoresAssumption DEF TypeOK
  <2>5. CASE Improves(s)
    <3>1. \A j \in images : j[2] <= bestScore
      BY <2>2 DEF BestOfImages, IsBest
    <3>2. \A j \in images' : j[2] <= s
      BY <2>1, <2>3, <2>4, <2>5, <3>1 DEF Improves
    <3>3. PICK i \in images' : i = <<focusPos, s>>
      BY <2>1
    <3>4. i[1] = focusPos /\ i[2] = s
      BY <3>3
    <3>5. i[2] = bestScore' /\ bestPos' = i[1] /\ pc' \notin AfterSearch
      BY <2>1, <2>2, <2>5, <3>4 DEF AfterSearch
    <3>6. \E j \in images' : IsBest(j)'
      BY <2>1, <2>5, <3>2, <3>5 DEF IsBest
    <3> QED BY <2>2, <3>3, <3>6 DEF BestOfImages
  <2>6. CASE ~Improves(s)
    <3>1. s < bestScore
      BY <2>3, <2>6 DEF Improves
    <3>2. images # {}
      BY <2>3, <3>1 DEF BestOfImages
    <3>3. PICK i \in images : IsBest(i)
      BY <2>2, <3>2 DEF BestOfImages
    <3>4. \A j \in images' : j[2] <= bestScore
      BY <2>1, <2>3, <3>1, <3>3 DEF IsBest
    <3>5. IsBest(i)' /\ i \in images'
      BY <2>1, <2>2, <2>6, <3>3, <3>4 DEF IsBest, AfterSearch
    <3> QED BY <2>1, <2>2, <3>5 DEF BestOfImages
  <2> QED BY <2>5, <2>6
<1>5. CASE Unbin
  <2>1. UNCHANGED <<images, bestScore>> /\ bestPos' = Clamp(bestPos)
        /\ pc = "unbin" /\ pc' = "back"
    BY <1>5 DEF Unbin
  <2>2. ASSUME NEW i \in images, IsBest(i) PROVE IsBest(i)'
    BY <2>1, <2>2 DEF IsBest, AfterSearch
  <2> QED BY <2>1, <2>2 DEF BestOfImages
<1>6. CASE UnbinFails
  BY <1>6, BestKept DEF UnbinFails, ReturnFailed, AfterSearch
<1>7. CASE LensCall
  <2>1. UNCHANGED <<images, bestScore, bestPos>> /\ pc \notin {"idle", "failed"}
    BY <1>7, LensCallLeads DEF LensCalls
  <2>2. pc' = "failed" \/ (pc \in AfterSearch <=> pc' \in AfterSearch)
    BY <1>7, LensCallLeads DEF AfterSearch
  <2>3. pc' \in {"start", "toRange", "bin"} => pc \in {"start", "toRange", "bin"}
    BY <1>7, LensCallLeads DEF LensCalls
  <2> QED BY <2>1, <2>2, <2>3, BestKept
<1>8. CASE \E c \in Commanders : Commands(c)
  <2>1. UNCHANGED <<pc, images, bestScore, bestPos>>
    BY <1>8, CommandsKeep
  <2> QED BY <2>1, BestKept
<1>9. CASE UNCHANGED vars
  <2>1. UNCHANGED <<pc, images, bestScore, bestPos>>
    BY <1>9 DEF vars
  <2> QED BY <2>1, BestKept
<1> QED BY <1>1, <1>2, <1>3, <1>4, <1>5, <1>6, <1>7, <1>8, <1>9
        DEF Next, Run

\* A step that neither takes an image nor ends the run does not show.
LEMMA Unseen ==
  ASSUME UNCHANGED images,
         \/ UNCHANGED <<pc, bestPos>>
         \/ pc \in Running /\ pc' \in Running
  PROVE  UNCHANGED Search!searchVars
<1>1. UNCHANGED <<searchPhase, searchChoice>>
  BY DEF searchPhase, searchChoice, Running, Labels
<1> QED BY <1>1 DEF Search!searchVars

\* A run that fails is abandoned.
LEMMA FailureAbandons ==
  ASSUME pc \in Running, pc' = "failed", UNCHANGED images
  PROVE  Search!SearchNext
<1>1. searchPhase = "searching" /\ searchPhase' = "abandoned"
  BY DEF searchPhase, Running, Labels
<1>2. searchChoice' = searchChoice
  BY DEF searchChoice, Running
<1> QED BY <1>1, <1>2 DEF Search!SearchNext, Search!Abandon

LEMMA SettlesOnBest ==
  ASSUME TypeOK, BestOfImages, OnTheWayToBest,
         pc = "best", pc' = "done", UNCHANGED <<images, bestPos>>
  PROVE  Search!Settle
<1>1. pc = "best" /\ pc' = "done" /\ UNCHANGED <<images, bestPos>>
  OBVIOUS
<1>2. searchPhase = "searching" /\ searchPhase' = "settled"
  BY <1>1 DEF searchPhase
<1>3. searchChoice' = {bestPos}
  BY <1>1 DEF searchChoice
<1>4. CASE images = {}
  <2>1. bestPos \in MinFocus .. MaxFocus
    BY <1>1 DEF OnTheWayToBest, Range
  <2> QED BY <1>1, <1>2, <1>3, <1>4, <2>1 DEF Search!Settle
<1>5. CASE images # {}
  <2>1. PICK i \in images : IsBest(i)
    BY <1>1, <1>5 DEF BestOfImages
  <2>2. i \in Search!Sharpest
    BY <2>1 DEF IsBest, Search!Sharpest
  <2>3. bestPos = Search!InRange(i[1])
    BY <1>1, <2>1 DEF IsBest, AfterSearch, Clamp, Search!InRange
  <2> QED BY <1>1, <1>2, <1>3, <1>5, <2>2, <2>3 DEF Search!Settle
<1> QED BY <1>4, <1>5

LEMMA MeasureIsMeasure ==
  ASSUME TypeOK, Measure
  PROVE  Search!Measure
<1>1. PICK s \in Scores : images' = images \union {<<focusPos, s>>}
  BY DEF Measure
<1>2. pc = "measure" /\ pc' = "shift"
  BY DEF Measure, Goto
<1>3. searchPhase = "searching" /\ searchPhase' = "searching"
      /\ searchChoice' = searchChoice
  BY <1>2 DEF searchPhase, searchChoice
<1>4. \A i \in images' \ images : i = <<focusPos, s>>
  BY <1>1
<1>5. \A i \in images' \ images : i[1] \in Int /\ i[2] \in Scores
  BY <1>4 DEF TypeOK
<1>6. \A i, j \in images' \ images : i = j
  BY <1>4
<1> QED BY <1>1, <1>3, <1>5, <1>6 DEF Search!Measure

LEMMA StepRefines ==
  TypeOK /\ BestOfImages /\ OnTheWayToBest /\ [Next]_vars
    => [Search!SearchNext]_(Search!searchVars)
<1> SUFFICES ASSUME TypeOK, BestOfImages, OnTheWayToBest, [Next]_vars
             PROVE  Search!SearchNext \/ UNCHANGED Search!searchVars
  OBVIOUS
<1> USE DEF Goto
<1>1. CASE Request
  <2>1. searchPhase # "searching" /\ searchPhase' = "searching"
        /\ images' = {} /\ searchChoice' = {}
    BY <1>1 DEF Request, searchPhase, searchChoice
  <2> QED BY <2>1 DEF Search!SearchNext, Search!Start
<1>2. CASE OpenLog \/ Bin \/ Exhausted \/ Quit \/ Expose \/ Image \/ Unbin
  <2>1. pc \in Running /\ pc' \in Running /\ UNCHANGED images
    BY <1>2 DEF OpenLog, Bin, Exhausted, Quit, Expose, Image, Unbin, Running,
                Labels
  <2> QED BY <2>1, Unseen
<1>3. CASE LogFails \/ BinFails \/ GiveUp \/ UnbinFails
  <2>1. pc \in Running /\ pc' = "failed" /\ UNCHANGED images
    BY <1>3 DEF LogFails, BinFails, GiveUp, UnbinFails, ReturnFailed, Running,
                Labels
  <2> QED BY <2>1, FailureAbandons
<1>4. CASE Measure
  BY <1>4, MeasureIsMeasure DEF Search!SearchNext
<1>5. CASE LensCall
  <2>1. /\ pc \in Running /\ UNCHANGED <<images, bestPos>>
        /\ pc' \in Running \/ pc' = "failed" \/ (pc = "best" /\ pc' = "done")
    BY <1>5, LensCallLeads DEF LensCalls, Running, Labels
  <2>2. CASE pc' \in Running
    BY <2>1, <2>2, Unseen
  <2>3. CASE pc' = "failed"
    BY <2>1, <2>3, FailureAbandons
  <2>4. CASE pc = "best" /\ pc' = "done"
    BY <2>1, <2>4, SettlesOnBest DEF Search!SearchNext
  <2> QED BY <2>1, <2>2, <2>3, <2>4
<1>6. CASE \E c \in Commanders : Commands(c)
  <2>1. UNCHANGED <<pc, images, bestPos>>
    BY <1>6, CommandsKeep
  <2> QED BY <2>1, Unseen
<1>7. CASE UNCHANGED vars
  <2>1. UNCHANGED <<pc, images, bestPos>>
    BY <1>7 DEF vars
  <2> QED BY <2>1, Unseen
<1> QED BY <1>1, <1>2, <1>3, <1>4, <1>5, <1>6, <1>7 DEF Next, Run

\* Whatever fails and whoever interferes, the run keeps the promise of
\* FocusSearch: what it settles on is a sharpest image of this run.
THEOREM RunIsFocusSearch == Spec => ImplementsFocusSearch
<1>1. Init => Search!Init
  BY DEF Init, Search!Init, searchPhase, searchChoice
<1>2. Init => BestOfImages
  BY DEF Init, BestOfImages
<1>3. Init => OnTheWayToBest
  BY DEF Init, OnTheWayToBest, FinishesAtBest
<1> QED BY <1>1, <1>2, <1>3, InitTypeOK, NextTypeOK, NextBest, NextOnTheWay,
           StepRefines, PTL
        DEF Spec, ImplementsFocusSearch, Search!SearchSpec

-----------------------------------------------------------------------------
(***************************************************************************)
(* The images of an undisturbed search.                                    *)
(***************************************************************************)
Margins == MinFocus + Margin <= startPos /\ endPos <= MaxFocus - Margin

\* An undisturbed lens is where the software believes it is, at whole steps
\* from the end of the range, whenever an image is taken; when a step has
\* left the range, the end condition holds, and the next image is not taken.
\* Within a lens call the lens is known again from its last fp on.
InsideRange ==
  /\ pc \in {"start", "toRange", "bin"} => images = {}
  /\ (pc \in {"toRange", "bin"} \/ Searching) /\ ~disturbed => Margins
  /\ pc = "toRange" /\ step = "mf" /\ Undisturbed => focusPos = lens
  /\ pc = "toRange" /\ step = "check" /\ Undisturbed => lens = endPos
  /\ pc \in {"bin", "loop", "image", "measure"} /\ Undisturbed =>
       focusPos = lens
  /\ pc = "shift" /\ step = "mf" /\ Undisturbed => focusPos = lens
  /\ pc = "shift" /\ step = "check" /\ Undisturbed =>
       lens = Clamp(focusPos - focusStep)
  /\ pc \in {"bin", "image", "measure", "shift"} /\ Undisturbed =>
       WholeSteps(focusPos)
  /\ pc = "loop" /\ Undisturbed => WholeSteps(focusPos) \/ EndConditions
  /\ ImagesInRange

\* One more step that stays at or above the start is a whole step.
LEMMA OneMoreStep ==
  ASSUME TypeOK, focusStep > 0, NEW p \in Int, WholeSteps(p),
         startPos <= p - focusStep
  PROVE  WholeSteps(p - focusStep)
<1>1. PICK k \in 0 .. endPos - p : p = endPos - k * focusStep
  BY DEF WholeSteps
<1>2. startPos \in Int /\ endPos \in Int /\ focusStep \in Int
  BY DEF TypeOK
<1>3. p - focusStep \in startPos .. endPos
  BY <1>2 DEF WholeSteps
<1>4. p - focusStep = endPos - (k + 1) * focusStep
  BY <1>1, <1>2
<1>5. k + 1 \in 0 .. endPos - (p - focusStep)
  BY <1>1, <1>2
<1> QED BY <1>3, <1>4, <1>5 DEF WholeSteps

LEMMA EndIsWhole ==
  ASSUME TypeOK, startPos <= endPos PROVE WholeSteps(endPos)
<1>1. endPos \in startPos .. endPos /\ 0 \in 0 .. endPos - endPos
  BY DEF TypeOK
<1>2. endPos = endPos - 0 * focusStep
  BY DEF TypeOK
<1> QED BY <1>1, <1>2 DEF WholeSteps

\* A step that takes no image, leaves an undisturbed lens alone and changes
\* nothing else but pc, to a stage that asks no more, keeps InsideRange.
LEMMA InsideKept ==
  ASSUME InsideRange, UNCHANGED images,
         ~disturbed' => ~disturbed /\ UNCHANGED <<lens, focusPos, rangeVars>>,
         \/ UNCHANGED <<pc, step, gone>>
         \/ pc = "image" /\ pc' = "measure"
         \/ pc = "bin" /\ pc' = "loop"
         \/ Searching /\ pc' = "unbin"
         \/ pc' \notin {"start", "toRange", "bin"} /\ ~Searching'
  PROVE  InsideRange'
<1>1. Undisturbed' => /\ Undisturbed /\ UNCHANGED <<lens, focusPos>>
                      /\ UNCHANGED <<startPos, endPos, focusStep>>
  BY DEF Undisturbed
<1>2. ~disturbed' => ~disturbed /\ Margins' = Margins
  BY DEF Margins
<1>3. Undisturbed' => \A p : WholeSteps(p)' <=> WholeSteps(p)
  BY <1>1 DEF WholeSteps
<1>4. Undisturbed' /\ EndConditions /\ gone' = gone => EndConditions'
  BY <1>1 DEF EndConditions, AtNearEnd
<1>5. Undisturbed' => /\ WholeSteps(focusPos)' <=> WholeSteps(focusPos)
                      /\ Clamp(focusPos - focusStep)' = Clamp(focusPos - focusStep)
  BY <1>1 DEF WholeSteps, Clamp
<1>6. Undisturbed' /\ Searching' /\ Searching =>
        \A i \in images' : WholeSteps(i[1])'
  BY <1>1, <1>3 DEF InsideRange, ImagesInRange
<1>7. Undisturbed' /\ Searching' /\ ~Searching => \A i \in images' : WholeSteps(i[1])'
  BY DEF InsideRange, Searching
<1>8. ImagesInRange'
  BY <1>6, <1>7 DEF ImagesInRange
<1> QED BY <1>1, <1>2, <1>4, <1>5, <1>8 DEF InsideRange, Searching

\* The move to the end of the range.
LEMMA ToRangeInside ==
  ASSUME TypeOK, InsideRange, LensCall, pc = "toRange" PROVE InsideRange'
<1>1. /\ UNCHANGED <<startPos, endPos, focusStep, images>>
      /\ pc' \in {"toRange", "bin"} /\ images = {} /\ ~Searching'
  BY LensCallLeads DEF InsideRange, Searching
<1>2. ~SkipShift
  BY DEF SkipShift
<1>3. ~disturbed' => ~disturbed
  BY <1>2, Moved, WasRead DEF LensCall
<1>4. ~disturbed' => Margins'
  BY <1>1, <1>3 DEF InsideRange, Margins
<1>5. ASSUME Undisturbed'
      PROVE  /\ pc' = "toRange" /\ step' = "mf" => focusPos' = lens'
             /\ pc' = "toRange" /\ step' = "check" => lens' = endPos'
             /\ pc' = "bin" => focusPos' = lens' /\ WholeSteps(focusPos)'
  <2>1. Undisturbed /\ ~disturbed' /\ startPos <= endPos
    BY <1>1, <1>3, <1>5 DEF Undisturbed
  <2>2. endPos \in Int /\ endPos \in Range
    <3>1. MinFocus + Margin <= startPos /\ endPos <= MaxFocus - Margin
      BY <2>1 DEF InsideRange, Margins, Undisturbed
    <3> QED BY <2>1, <3>1, FocusRangeAssumption DEF TypeOK, Range
  <2>3. CASE MoveLens
    <3>1. /\ lens' = Clamp(Target) /\ pc' = "toRange"
          /\ step' = IF step = "mi" THEN "fp" ELSE "check"
      BY <2>1, <2>3, Moved DEF GoOn
    <3>2. ASSUME step = "mf" PROVE lens' = endPos
      <4>1. Target = lens + (endPos - focusPos) /\ focusPos = lens
        BY <2>1, <3>2 DEF Target, Displacement, InsideRange
      <4>2. Target = endPos
        BY <2>2, <4>1, FocusRangeAssumption DEF TypeOK, Range
      <4> QED BY <2>2, <3>1, <4>2, ClampInRange
    <3>3. step \in {"mi", "mf"}
      BY <2>3 DEF MoveLens
    <3> QED BY <1>1, <3>1, <3>2, <3>3
  <2>4. CASE ReadLens
    <3>1. focusPos' = lens /\ lens' = lens /\ step \in {"fp", "check"}
      BY <2>1, <2>4, WasRead DEF ReadLens
    <3>2. CASE step = "fp"
      BY <2>1, <2>4, <3>1, <3>2, WasRead DEF GoOn
    <3>3. CASE step = "check"
      <4>1. pc' = "bin"
        BY <2>1, <2>4, <3>3, WasRead DEF Return, Goto
      <4>2. lens = endPos
        BY <2>1, <3>3 DEF InsideRange
      <4>3. WholeSteps(endPos)
        BY <2>1, EndIsWhole
      <4> QED BY <1>1, <3>1, <4>1, <4>2, <4>3 DEF WholeSteps
    <3> QED BY <3>1, <3>2, <3>3
  <2> QED BY <1>2, <2>3, <2>4 DEF LensCall
<1> QED BY <1>1, <1>4, <1>5 DEF InsideRange, ImagesInRange, Searching

\* The move of an undisturbed lens is one step down; when that leaves the
\* range, the lens is below the last image the search may take.
LEMMA StepDown ==
  ASSUME TypeOK, InsideRange, pc = "shift", step = "mf", Undisturbed
  PROVE  Clamp(Target) = Clamp(focusPos - focusStep)
<1>1. /\ focusPos = lens /\ WholeSteps(focusPos) /\ focusStep > 0
  BY DEF InsideRange, Undisturbed
<1>2. focusPos \in Int /\ startPos \in Int /\ endPos \in Int /\ focusStep \in Int
  BY DEF TypeOK
<1>3. startPos <= focusPos
  BY <1>1, <1>2 DEF WholeSteps
<1>4. Stride = -focusStep
  BY <1>1, <1>2, <1>3 DEF Stride, Lesser
<1>5. Target = lens + Stride
  BY DEF Target, Displacement
<1>6. lens + Stride = focusPos - focusStep
  BY <1>1, <1>2, <1>4
<1> QED BY <1>5, <1>6

LEMMA StepIsWholeOrLast ==
  ASSUME TypeOK, Margins, focusStep > 0, WholeSteps(focusPos)
  PROVE  \/ WholeSteps(Clamp(focusPos - focusStep))
         \/ Clamp(focusPos - focusStep) < startPos + focusStep
<1>1. /\ focusPos \in Int /\ startPos \in Int /\ endPos \in Int
      /\ focusStep \in Int /\ MinFocus \in Int /\ MaxFocus \in Int
      /\ Margin \in Nat
  BY FocusRangeAssumption DEF TypeOK
<1>2. startPos <= focusPos /\ focusPos <= endPos
  BY <1>1 DEF WholeSteps
<1>3. CASE startPos <= focusPos - focusStep
  <2>1. focusPos - focusStep \in Range
    BY <1>1, <1>2, <1>3 DEF Range, Margins
  <2>2. Clamp(focusPos - focusStep) = focusPos - focusStep
    BY <1>1, <2>1, ClampInRange
  <2>3. WholeSteps(focusPos - focusStep)
    BY <1>1, <1>3, OneMoreStep
  <2> QED BY <2>2, <2>3
<1>4. CASE focusPos - focusStep < startPos
  BY <1>1, <1>2, <1>4 DEF Clamp, Margins
<1> QED BY <1>1, <1>3, <1>4

LEMMA ShiftInside ==
  ASSUME TypeOK, InsideRange, LensCall, pc = "shift" PROVE InsideRange'
<1>1. /\ UNCHANGED <<startPos, endPos, focusStep, images>>
      /\ pc' \in {"shift", "loop"}
  BY LensCallLeads
<1>2. CASE SkipShift
  <2>1. /\ UNCHANGED <<lens, focusPos, disturbed>> /\ pc' = "loop"
        /\ step = "mf"
    BY <1>2 DEF SkipShift, Return, Goto
  <2>2. Undisturbed' <=> Undisturbed
    BY <1>1, <2>1 DEF Undisturbed
  <2>3. WholeSteps(focusPos)' <=> WholeSteps(focusPos)
    BY <1>1, <2>1 DEF WholeSteps
  <2>4. \A i \in images' : WholeSteps(i[1])' <=> WholeSteps(i[1])
    BY <1>1 DEF WholeSteps
  <2> QED BY <1>1, <2>1, <2>2, <2>3, <2>4
          DEF InsideRange, ImagesInRange, Searching, Margins
<1>3. CASE MoveLens \/ ReadLens
  <2>1. ~disturbed' => ~disturbed
    BY <1>3, Moved, WasRead
  <2>2. Undisturbed' => Undisturbed /\ ~disturbed'
    BY <1>1, <2>1 DEF Undisturbed
  <2>3. ~disturbed' => Margins /\ Margins'
    BY <1>1, <2>1 DEF InsideRange, Searching, Margins
  <2>4. Undisturbed' => \A i \in images' : WholeSteps(i[1])'
    BY <1>1, <2>2 DEF InsideRange, ImagesInRange, Searching, WholeSteps
  <2>5. ASSUME Undisturbed', MoveLens
        PROVE  /\ pc' = "shift" /\ step' = "check"
               /\ lens' = Clamp(focusPos - focusStep)'
               /\ WholeSteps(focusPos)'
    <3>1. step = "mf" /\ focusPos' = focusPos
      BY <2>5 DEF MoveLens, TypeOK
    <3>2. lens' = Clamp(Target) /\ pc' = "shift" /\ step' = "check"
      BY <2>2, <2>5, <3>1, Moved DEF GoOn
    <3>3. Clamp(Target) = Clamp(focusPos - focusStep)
      BY <2>2, <2>5, <3>1, StepDown
    <3>4. WholeSteps(focusPos)
      BY <2>2, <2>5 DEF InsideRange
    <3>5. Clamp(focusPos - focusStep)' = Clamp(focusPos - focusStep)
      BY <1>1, <3>1 DEF Clamp
    <3>6. WholeSteps(focusPos)'
      BY <1>1, <3>1, <3>4 DEF WholeSteps
    <3> QED BY <3>2, <3>3, <3>5, <3>6
  <2>6. ASSUME Undisturbed', ReadLens
        PROVE  /\ pc' = "loop" /\ focusPos' = lens'
               /\ WholeSteps(focusPos)' \/ EndConditions'
    <3>1. step = "check" /\ focusPos' = lens /\ lens' = lens
      BY <2>2, <2>6, WasRead DEF ReadLens, TypeOK
    <3>2. pc' = "loop" /\ gone' = TRUE
      BY <2>2, <2>6, <3>1, WasRead DEF Return, Goto
    <3>3. lens = Clamp(focusPos - focusStep) /\ WholeSteps(focusPos)
      BY <2>2, <2>6, <3>1 DEF InsideRange
    <3>4. focusStep > 0 /\ Margins
      BY <2>2, <2>3, <2>6 DEF Undisturbed
    <3>5. WholeSteps(lens) \/ lens < startPos + focusStep
      BY <3>3, <3>4, StepIsWholeOrLast
    <3>6. CASE WholeSteps(lens)
      BY <1>1, <3>1, <3>2, <3>6 DEF WholeSteps
    <3>7. CASE lens < startPos + focusStep
      BY <1>1, <3>1, <3>2, <3>7 DEF EndConditions, AtNearEnd
    <3> QED BY <3>1, <3>2, <3>5, <3>6, <3>7
  <2>7. ImagesInRange'
    BY <2>4 DEF ImagesInRange
  <2>8. CASE Undisturbed'
    <3>1. CASE MoveLens
      BY <2>3, <2>5, <2>7, <2>8, <3>1 DEF InsideRange
    <3>2. CASE ReadLens
      BY <2>3, <2>6, <2>7, <2>8, <3>2 DEF InsideRange
    <3> QED BY <1>3, <3>1, <3>2
  <2>9. CASE ~Undisturbed'
    BY <1>1, <2>3, <2>7, <2>9 DEF InsideRange
  <2> QED BY <2>8, <2>9
<1> QED BY <1>2, <1>3 DEF LensCall

LEMMA NextInside == TypeOK /\ InsideRange /\ [Next]_vars => InsideRange'
<1> SUFFICES ASSUME TypeOK, InsideRange, [Next]_vars PROVE InsideRange'
  OBVIOUS
<1> USE DEF Goto
<1>1. CASE Request
  BY <1>1 DEF Request, InsideRange, ImagesInRange, Searching
<1>2. CASE OpenLog
  <2>1. pc = "start" /\ pc' = "toRange" /\ step' = "mi" /\ UNCHANGED images
    BY <1>2 DEF OpenLog
  <2>2. Margins'
    BY <1>2, FocusRangeAssumption DEF OpenLog, TypeOK, Margins
  <2> QED BY <2>1, <2>2 DEF InsideRange, ImagesInRange, Searching
<1>3. CASE LogFails \/ BinFails \/ GiveUp \/ UnbinFails
  <2>1. pc' = "failed"
    BY <1>3 DEF LogFails, BinFails, GiveUp, UnbinFails, ReturnFailed
  <2> QED BY <2>1 DEF InsideRange, ImagesInRange, Searching
<1>4. CASE Bin
  <2>1. /\ pc = "bin" /\ pc' = "loop"
        /\ UNCHANGED <<images, lensVars, rangeVars, disturbed>>
    BY <1>4 DEF Bin
  <2> QED BY <2>1, InsideKept
<1>5. CASE Exhausted \/ Quit
  <2>1. /\ Searching /\ pc' = "unbin"
        /\ UNCHANGED <<images, lensVars, rangeVars, disturbed>>
    BY <1>5 DEF Exhausted, Quit, Searching
  <2> QED BY <2>1, InsideKept
<1>6. CASE Expose
  <2>1. /\ pc = "loop" /\ ~EndConditions /\ pc' = "image"
        /\ UNCHANGED <<images, lensVars, rangeVars, disturbed>>
    BY <1>6 DEF Expose
  <2>2. Undisturbed' <=> Undisturbed
    BY <2>1 DEF Undisturbed
  <2>3. \A p : WholeSteps(p)' <=> WholeSteps(p)
    BY <2>1 DEF WholeSteps
  <2>4. WholeSteps(focusPos)' <=> WholeSteps(focusPos)
    BY <2>1 DEF WholeSteps
  <2> QED BY <2>1, <2>2, <2>3, <2>4
          DEF InsideRange, ImagesInRange, Searching, Margins
<1>7. CASE Image
  <2>1. /\ pc = "image" /\ pc' = "measure"
        /\ UNCHANGED <<images, lensVars, rangeVars, disturbed>>
    BY <1>7 DEF Image
  <2> QED BY <2>1, InsideKept
<1>8. CASE Measure
  <2>1. PICK s \in Scores : images' = images \union {<<focusPos, s>>}
    BY <1>8 DEF Measure
  <2>2. /\ pc = "measure" /\ pc' = "shift" /\ step' = "mf"
        /\ UNCHANGED <<lensVars, rangeVars, disturbed>>
    BY <1>8 DEF Measure
  <2>3. Undisturbed' <=> Undisturbed
    BY <2>2 DEF Undisturbed
  <2>4. \A p : WholeSteps(p)' <=> WholeSteps(p)
    BY <2>2 DEF WholeSteps
  <2>5. ASSUME Undisturbed PROVE \A i \in images' : WholeSteps(i[1])
    <3>1. WholeSteps(focusPos) /\ \A i \in images : WholeSteps(i[1])
      BY <2>2, <2>5 DEF InsideRange, ImagesInRange, Searching
    <3>2. \A i \in images' : i \in images \/ i[1] = focusPos
      BY <2>1
    <3> QED BY <3>1, <3>2
  <2>6. Undisturbed => focusPos = lens /\ WholeSteps(focusPos)
    BY <2>2 DEF InsideRange
  <2>7. ~disturbed => Margins
    BY <2>2 DEF InsideRange, Searching
  <2>8. WholeSteps(focusPos)' <=> WholeSteps(focusPos)
    BY <2>2 DEF WholeSteps
  <2> QED BY <2>2, <2>3, <2>4, <2>5, <2>6, <2>7, <2>8
          DEF InsideRange, ImagesInRange, Searching, Margins
<1>9. CASE LensCall
  <2>1. CASE pc \in {"back", "default", "best"}
    <3>1. pc' \in {"back", "default", "best", "failed", "done"}
      BY <1>9, <2>1, LensCallLeads
    <3> QED BY <3>1 DEF InsideRange, ImagesInRange, Searching
  <2>2. pc \in LensCalls
    BY <1>9, LensCallLeads
  <2> QED BY <1>9, <2>1, <2>2, ToRangeInside, ShiftInside DEF LensCalls
<1>10. CASE Unbin
  <2>1. pc' = "back"
    BY <1>10 DEF Unbin
  <2> QED BY <2>1 DEF InsideRange, ImagesInRange, Searching
<1>11. CASE \E c \in Commanders : Commands(c)
  <2>1. /\ UNCHANGED <<pc, step, gone, images>>
        /\ ~disturbed' => ~disturbed /\ UNCHANGED <<lens, focusPos, rangeVars>>
    BY <1>11, CommandsKeep
  <2> QED BY <2>1, InsideKept
<1>12. CASE UNCHANGED vars
  <2>1. UNCHANGED <<pc, step, gone, images, lensVars, rangeVars, disturbed>>
    BY <1>12 DEF vars
  <2> QED BY <2>1, InsideKept
<1> QED BY <1>1, <1>2, <1>3, <1>4, <1>5, <1>6, <1>7, <1>8, <1>9, <1>10, <1>11,
           <1>12 DEF Next, Run

\* A search nobody interferes with takes its images at whole steps from the
\* end of its range and never below its start, for every range between the
\* stops and every positive step (doContrastDetectAutoFocus).
THEOREM ImagesAreInRange == Spec => []ImagesInRange
<1>1. Init => InsideRange
  BY DEF Init, InsideRange, ImagesInRange, Searching
<1>2. InsideRange => ImagesInRange
  BY DEF InsideRange
<1> QED BY <1>1, <1>2, InitTypeOK, NextTypeOK, NextInside, PTL DEF Spec
=============================================================================
