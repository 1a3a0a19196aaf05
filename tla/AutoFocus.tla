----------------------------- MODULE AutoFocus ------------------------------
(***************************************************************************)
(* One camera's contrast-detection auto-focus: doContrastDetectAutoFocus   *)
(* (camera.c) with the lens calls it makes (lens_adapter.c), the lens, and *)
(* the commands that come meanwhile (commands.c, sc_listen.c).  Every lens *)
(* command can fail, and a move can end short of its target ("some kind of *)
(* stickiness"); the camera can refuse an image, a buffer or a binning     *)
(* factor.  A command changes focus_mode, the cancel flag and the range    *)
(* under the run; where the gate of focus_mode and the cancel flag is open *)
(* it also changes focus_position and drives the lens.                     *)
(***************************************************************************)
EXTENDS Integers

CONSTANTS
  MinFocus, MaxFocus,  \* min_focus_pos and max_focus_pos, as fp reports them
  Margin,              \* the 25 counts kept from both stops
  DefaultFocus,        \* default_focus
  FirstFocus,          \* focus_position before the first run
  Starts, Ends, Steps, \* start_focus_pos, end_focus_pos, focus_step commands
  MaxTries,            \* remainingFocusPos, 1600 in the code
  Commanders,          \* the threads that execute commands
  Targets,             \* focus positions commands ask for
  MaxCommands,         \* bound: commands that come during one run
  Scores               \* sharpness values

Bit == {0, 1}
Range == MinFocus .. MaxFocus

ASSUME FocusRangeAssumption ==
  /\ MinFocus \in Int /\ MaxFocus \in Int /\ Margin \in Nat
  /\ MinFocus <= MaxFocus
  /\ DefaultFocus \in Range
  /\ FirstFocus \subseteq Int
ASSUME FocusParamsAssumption ==
  /\ Starts \subseteq Int /\ Ends \subseteq Int /\ Steps \subseteq Int
  /\ MaxTries \in Nat \ {0} /\ MaxCommands \in Nat
  /\ Targets \subseteq Int
ASSUME FocusScoresAssumption == Scores \subseteq Nat /\ Scores # {}

VARIABLES
  pc,            \* where the run is
  step,          \* which lens command of a lens call is next
  at,            \* where each commander is in its command
  lens,          \* where the lens really is
  focusPos,      \* focus_position: as fp reported it, or as commanded
  prevPos,       \* prev_focus_pos: as the last fp left it
  startPos, endPos, focusStep,   \* the commanded range
  focusMode, beginAutoFocus, cancelling, shuttingDown,   \* shared flags
  binning,       \* the binning factor of the camera, 1 or 4
  tries,         \* remainingFocusPos
  gone,          \* hasGoneBackward
  bestPos,       \* bestFocusPos
  bestScore,     \* bestFocusSharpness
  images,        \* history: position and sharpness of this run's images
  disturbed,     \* history: since the run began a lens command of its own
                 \* failed, fell short or misread, or a command changed
                 \* something
  astray,        \* history: the same of the lens alone, since its position
                 \* was read for the last move
  commands       \* history: how many commands came since the run began

lensVars    == <<lens, focusPos, prevPos>>
rangeVars   == <<startPos, endPos, focusStep>>
flagVars    == <<focusMode, beginAutoFocus, cancelling, shuttingDown>>
searchState == <<tries, gone, bestPos, bestScore, images>>
faults      == <<disturbed, astray>>
vars == <<pc, step, at, lensVars, rangeVars, flagVars, binning, searchState,
          faults, commands>>

Labels == {"idle", "start", "toRange", "bin", "loop", "image", "measure",
           "shift", "unbin", "back", "default", "best", "done", "failed"}

Running == Labels \ {"idle", "done", "failed"}

\* The calls of lens_adapter.c, and what each sends to the lens: to a stop,
\* where is it, move by so much, where is it.
LensCalls == {"toRange", "shift", "back", "default", "best"}
LensSteps == {"mi", "fp", "mf", "check"}

\* The steps of a command: mode, range, the gate, focus_position, the wait
\* for taking_image, the lens, fp.
CommandLabels == {"away", "range", "gate", "admitted", "waiting", "driving",
                  "reading"}

Clamp(p) == IF p > MaxFocus THEN MaxFocus
            ELSE IF p < MinFocus THEN MinFocus ELSE p

Init ==
  /\ pc = "idle" /\ step = "mi"
  /\ at = [c \in Commanders |-> "away"]
  /\ lens \in {MinFocus, DefaultFocus}
  /\ focusPos \in FirstFocus /\ prevPos = focusPos
  /\ startPos \in Starts /\ endPos \in Ends /\ focusStep \in Steps
  /\ focusMode = 0 /\ beginAutoFocus = 1 /\ cancelling = 0
  /\ shuttingDown = 0
  /\ binning = 1
  /\ tries = MaxTries /\ gone = FALSE
  /\ bestPos = 0 /\ bestScore = 0 /\ images = {}
  /\ disturbed = FALSE /\ astray = FALSE /\ commands = 0

-----------------------------------------------------------------------------
(***************************************************************************)
(* The lens.                                                               *)
(***************************************************************************)
\* mf n, or a move to a stop: the lens arrives or halts on the way.
MoveEnds(l, target) ==
  IF Clamp(target) > l THEN l .. Clamp(target) ELSE Clamp(target) .. l

\* fp takes the position of the lens.  Of two threads that use the serial line
\* at once one can take what was meant for the other: any position.
Reports(shared) == IF shared THEN Range ELSE {lens}

TakeReport(shared) ==
  \E p \in Reports(shared) : focusPos' = p /\ prevPos' = p

\* An answer that cannot be parsed is no failure.
Unparsed == UNCHANGED focusPos /\ prevPos' = focusPos

-----------------------------------------------------------------------------
(***************************************************************************)
(* The run.                                                                *)
(***************************************************************************)

Goto(label) ==
  /\ pc' = label
  /\ step' = IF label \in {"shift", "best"} THEN "mf" ELSE "mi"

\* doCameraAndAstrometry, called until the shutdown, finds both flags set.
Request ==
  /\ pc \in {"idle", "done", "failed"}
  /\ shuttingDown = 0
  /\ beginAutoFocus = 1 /\ focusMode = 1
  /\ Goto("start")
  /\ bestPos' = focusPos /\ bestScore' = 0
  /\ tries' = MaxTries /\ gone' = FALSE
  /\ images' = {} /\ disturbed' = FALSE /\ astray' = FALSE /\ commands' = 0
  /\ UNCHANGED <<at, lensVars, rangeVars, flagVars, binning>>

\* The range is brought inside the stops once the log file is open.
OpenLog ==
  /\ pc = "start"
  /\ beginAutoFocus' = 0
  /\ endPos' = IF MaxFocus - endPos < Margin THEN MaxFocus - Margin ELSE endPos
  /\ startPos' = IF startPos - MinFocus < Margin THEN MinFocus + Margin
                 ELSE startPos
  /\ Goto("toRange")
  /\ UNCHANGED <<at, lensVars, focusStep, focusMode, cancelling, shuttingDown,
                 binning, searchState, faults, commands>>

\* Every return of the run goes back to a caller that lowers focus_mode.
ReturnFailed == Goto("failed") /\ focusMode' = 0

LogFails ==
  /\ pc = "start"
  /\ beginAutoFocus' = 0
  /\ ReturnFailed
  /\ UNCHANGED <<at, lensVars, rangeVars, cancelling, shuttingDown, binning,
                 searchState, faults, commands>>

\* setBinningFactor(4).  It fails with the old factor, the acquisition
\* stopped or restarted, or with the camera shut down.
Bin ==
  /\ pc = "bin"
  /\ binning' = 4
  /\ Goto("loop")
  /\ UNCHANGED <<at, lensVars, rangeVars, flagVars, searchState, faults,
                 commands>>

BinFails ==
  /\ pc = "bin"
  /\ ReturnFailed
  /\ \/ UNCHANGED <<binning, shuttingDown>>
     \/ binning' \in {binning, 4} /\ shuttingDown' = 1
  /\ UNCHANGED <<at, lensVars, rangeVars, beginAutoFocus, cancelling,
                 searchState, faults, commands>>

AtNearEnd == focusPos < startPos + focusStep \/ focusPos <= MinFocus + Margin

EndConditions == AtNearEnd /\ gone

TriesLeftOrNone == tries >= 0
TriesLeft == tries > 0

SpendTry == tries' = tries - 1

Exhausted ==
  /\ pc = "loop"
  /\ tries = 0
  /\ Goto("unbin")
  /\ UNCHANGED <<at, lensVars, rangeVars, flagVars, binning, searchState,
                 faults, commands>>

Quit ==
  /\ pc = "loop"
  /\ TriesLeft
  /\ EndConditions \/ focusMode = 0
  /\ SpendTry
  /\ focusMode' = 0
  /\ Goto("unbin")
  /\ UNCHANGED <<at, lensVars, rangeVars, beginAutoFocus, cancelling,
                 shuttingDown, binning, gone, bestPos, bestScore, images,
                 faults, commands>>

Expose ==
  /\ pc = "loop"
  /\ TriesLeft
  /\ ~EndConditions /\ focusMode = 1
  /\ SpendTry
  /\ Goto("image")
  /\ UNCHANGED <<at, lensVars, rangeVars, flagVars, binning, gone, bestPos,
                 bestScore, images, faults, commands>>

\* imageCapture() succeeds.
Image ==
  /\ pc = "image"
  /\ Goto("measure")
  /\ UNCHANGED <<at, lensVars, rangeVars, flagVars, binning, searchState,
                 faults, commands>>

\* A failed capture or measurement restores the binning and gives up; a
\* failed restoration shuts the camera down.
LeaveBinned ==
  /\ UNCHANGED <<binning, shuttingDown>>

RestoreBinning ==
  \/ binning' = 1 /\ UNCHANGED shuttingDown
  \/ binning' \in {1, 4} /\ shuttingDown' = 1

GiveUp ==
  /\ pc \in {"image", "measure"}
  /\ ReturnFailed
  /\ RestoreBinning
  /\ UNCHANGED <<at, lensVars, rangeVars, beginAutoFocus, cancelling,
                 searchState, faults, commands>>

\* Later images win ties: the comparison is >=.
KeepLast(s) == TRUE
Improves(s) == s >= bestScore

Measure ==
  /\ pc = "measure"
  /\ \E s \in Scores :
       /\ images' = images \union {<<focusPos, s>>}
       /\ bestScore' = IF Improves(s) THEN s ELSE bestScore
       /\ bestPos' = IF Improves(s) THEN focusPos ELSE bestPos
  /\ Goto("shift")
  /\ UNCHANGED <<at, lensVars, rangeVars, flagVars, binning, tries, gone,
                 faults, commands>>

Lesser(a, b)  == IF a < b THEN a ELSE b
Greater(a, b) == IF a > b THEN a ELSE b

LongestStride == Greater(-focusStep, focusPos - startPos)
Stride == Lesser(-focusStep, focusPos - startPos)

FromWhereItStarted == bestPos - endPos
FromWhereItIs == bestPos - focusPos

\* After the loop: the binning is restored and the best position brought
\* into range ...
Unbin ==
  /\ pc = "unbin"
  /\ binning' = 1
  /\ bestPos' = Clamp(bestPos)
  /\ Goto("back")
  /\ UNCHANGED <<at, lensVars, rangeVars, flagVars, tries, gone, bestScore,
                 images, faults, commands>>

UnbinFails ==
  /\ pc = "unbin"
  /\ ReturnFailed
  /\ binning' \in {1, 4} /\ shuttingDown' = 1
  /\ UNCHANGED <<at, lensVars, rangeVars, beginAutoFocus, cancelling,
                 searchState, faults, commands>>

(***************************************************************************)
(* The lens calls.  beginAutoFocus: to the end of the range, first and, so *)
(* that the lens comes to the best position from above, again at the end.  *)
(* defaultFocusPosition: where the way back has failed.  shiftFocus: along *)
(* the range, and to the best position; its result is ignored.             *)
(***************************************************************************)
callKeeps == <<at, rangeVars, beginAutoFocus, cancelling, shuttingDown,
               binning, tries, bestPos, bestScore, images, commands>>

\* A failed beginAutoFocus lowers focus_mode, and the run goes on; a run that
\* has not come back to its range ends at the default position, as failed.
Return(ok) ==
  \/ pc = "toRange" /\ Goto("bin")
       /\ focusMode' = (IF ok THEN focusMode ELSE 0) /\ UNCHANGED gone
  \/ pc = "shift" /\ Goto("loop")
       /\ gone' = TRUE /\ UNCHANGED focusMode
  \/ pc = "back" /\ Goto(IF ok THEN "best" ELSE "default")
       /\ UNCHANGED <<focusMode, gone>>
  \/ pc = "default" /\ Goto("failed") /\ focusMode' = 0 /\ UNCHANGED gone
  \/ pc = "best" /\ Goto("done") /\ focusMode' = 0 /\ UNCHANGED gone

GoOn(next) == step' = next /\ UNCHANGED <<pc, focusMode, gone>>

\* mf takes the difference to where the software believes the lens is.
Displacement ==
  CASE pc \in {"toRange", "back"} -> endPos - focusPos
    [] pc = "default"             -> DefaultFocus - focusPos
    [] pc = "shift"               -> Stride
    [] OTHER                      -> FromWhereItIs

Target == IF step = "mi" THEN MaxFocus ELSE lens + Displacement

\* What goes wrong with the lens; only the last move remembers it apart.
NoteFault(fault) ==
  /\ disturbed' = (disturbed \/ fault)
  /\ astray' = (astray \/ (fault /\ pc \in {"best", "done"}))

\* A cancelled run does not shift the lens any more.
MoveLens ==
  /\ pc \in LensCalls /\ step \in {"mi", "mf"}
  /\ pc = "shift" => cancelling = 0
  /\ lens' \in MoveEnds(lens, Target)
  /\ \/ /\ NoteFault(lens' # Clamp(Target))
        /\ GoOn(IF step = "mi" THEN "fp" ELSE "check")
     \/ NoteFault(TRUE) /\ Return(FALSE)
  /\ UNCHANGED <<focusPos, prevPos, callKeeps>>

SkipShift ==
  /\ pc = "shift" /\ step = "mf"
  /\ cancelling = 1
  /\ Return(TRUE)
  /\ UNCHANGED <<lensVars, faults, callKeeps>>

LensShared == \E c \in Commanders : at[c] \in {"driving", "reading"}

\* The last reading before the last move decides where that goes.
NoteReading ==
  IF pc = "back" /\ step = "check"
  THEN /\ disturbed' = (disturbed \/ focusPos' # lens)
       /\ astray' = (focusPos' # lens)
  ELSE NoteFault(focusPos' # lens)

ReadLens ==
  /\ pc \in LensCalls /\ step \in {"fp", "check"}
  /\ \/ /\ TakeReport(LensShared) \/ Unparsed
        /\ NoteReading
        /\ IF step = "fp" THEN GoOn("mf") ELSE Return(TRUE)
     \/ /\ UNCHANGED <<focusPos, prevPos>>
        /\ NoteFault(TRUE)
        /\ Return(FALSE)
  /\ UNCHANGED <<lens, callKeeps>>

LensCall == MoveLens \/ SkipShift \/ ReadLens

Run == Request \/ OpenLog \/ LogFails \/ Bin \/ BinFails
         \/ Exhausted \/ Quit \/ Expose \/ Image \/ GiveUp \/ Measure
         \/ Unbin \/ UnbinFails \/ LensCall

-----------------------------------------------------------------------------
(***************************************************************************)
(* Commands, which come at any time.  A client's command carries every     *)
(* field, a packet those it names.  At the gate a packet tests the flags   *)
(* for each field and for the lens again; one that is turned away later is *)
(* one that then leaves the rest alone.                                    *)
(***************************************************************************)
CommandGoto(c, label) == at' = [at EXCEPT ![c] = label]

Disturb == disturbed' = TRUE
Touch == Disturb /\ astray' = (astray \/ pc \in {"best", "done"})

commandKeeps == <<pc, step, shuttingDown, binning, searchState>>

SetMode(mode) ==
  /\ cancelling' = IF mode = 0 /\ focusMode = 1 THEN 1 ELSE 0
  /\ beginAutoFocus' = IF mode = 1 THEN 1 ELSE beginAutoFocus
  /\ focusMode' = mode
  /\ Disturb

CommandMode(c) ==
  /\ at[c] = "away"
  /\ commands < MaxCommands
  /\ commands' = commands + 1
  /\ \/ \E mode \in Bit : SetMode(mode)
     \/ UNCHANGED <<cancelling, beginAutoFocus, focusMode, disturbed>>
  /\ CommandGoto(c, "range")
  /\ UNCHANGED <<commandKeeps, lensVars, rangeVars, astray>>

CommandRange(c) ==
  /\ at[c] = "range"
  /\ \/ /\ startPos' \in Starts \union {startPos}
        /\ endPos' \in Ends \union {endPos}
        /\ focusStep' \in Steps \union {focusStep}
        /\ Disturb
     \/ UNCHANGED <<rangeVars, disturbed>>
  /\ CommandGoto(c, "gate")
  /\ UNCHANGED <<commandKeeps, lensVars, focusMode, beginAutoFocus, cancelling,
                 astray, commands>>

GateOpen == focusMode = 0 /\ cancelling = 0

\* The commander's own steps from here on; the run's flags stay.
Command(c, from, to) ==
  /\ at[c] = from
  /\ CommandGoto(c, to)
  /\ UNCHANGED <<commandKeeps, rangeVars, focusMode, beginAutoFocus, cancelling,
                 commands>>

TurnedAway(c) ==
  /\ Command(c, "gate", "away")
  /\ ~GateOpen
  /\ UNCHANGED <<lensVars, faults>>

PassGate(c) ==
  /\ Command(c, "gate", "admitted")
  /\ GateOpen
  /\ UNCHANGED <<lensVars, faults>>

CommandPosition(c) ==
  /\ Command(c, "admitted", "waiting")
  /\ (focusPos' \in Targets /\ Touch) \/ UNCHANGED <<focusPos, faults>>
  /\ UNCHANGED <<lens, prevPos>>

\* taking_image is up from before the capture until after it.
SeeNoImage(c) ==
  /\ Command(c, "waiting", "driving")
  /\ pc # "image"
  /\ UNCHANGED <<lensVars, faults>>

\* adjustCameraHardware: mi where focus_inf asks for it, or mf by the
\* difference of position and previous position, or nothing.
CommandLens(c) ==
  /\ Command(c, "driving", "reading")
  /\ \/ lens' \in MoveEnds(lens, MaxFocus)
     \/ /\ focusPos # prevPos
        /\ lens' \in MoveEnds(lens, lens + focusPos - prevPos)
  /\ Touch
  /\ UNCHANGED <<focusPos, prevPos>>

LeaveLens(c) ==
  /\ Command(c, "driving", "away")
  /\ focusPos = prevPos
  /\ UNCHANGED <<lensVars, faults>>

\* fp is answered, is answered unreadably, or fails.
CommandRead(c) ==
  /\ Command(c, "reading", "away")
  /\ TakeReport(pc \in LensCalls) \/ Unparsed \/ UNCHANGED <<focusPos, prevPos>>
  /\ Touch
  /\ UNCHANGED lens

Commands(c) ==
  \/ CommandMode(c) \/ CommandRange(c) \/ TurnedAway(c) \/ PassGate(c)
  \/ CommandPosition(c) \/ SeeNoImage(c) \/ CommandLens(c) \/ LeaveLens(c)
  \/ CommandRead(c)

Next == Run \/ \E c \in Commanders : Commands(c)

Spec == Init /\ [][Next]_vars

-----------------------------------------------------------------------------
(***************************************************************************)
(* Properties.                                                             *)
(***************************************************************************)
TypeOK ==
  /\ pc \in Labels /\ step \in LensSteps
  /\ pc \in {"shift", "best"} => step \in {"mf", "check"}
  /\ at \in [Commanders -> CommandLabels]
  /\ lens \in Range /\ focusPos \in Int /\ prevPos \in Int
  /\ startPos \in Int /\ endPos \in Int /\ focusStep \in Int
  /\ focusMode \in Bit /\ beginAutoFocus \in Bit
  /\ cancelling \in Bit /\ shuttingDown \in Bit
  /\ binning \in {1, 4}
  /\ tries \in 0 .. MaxTries /\ gone \in BOOLEAN
  /\ bestPos \in Int /\ bestScore \in Scores \union {0}
  /\ \A i \in images : i[1] \in Int /\ i[2] \in Scores
  /\ disturbed \in BOOLEAN /\ astray \in BOOLEAN
  /\ commands \in 0 .. MaxCommands

\* The run keeps the promise of FocusSearch: whatever fails and whoever
\* interferes, a run that returns 0 has chosen the focus position of an image
\* none of the others was sharper than, brought inside the stops.
searchPhase ==
  CASE pc = "idle"   -> "idle"
    [] pc = "done"   -> "settled"
    [] pc = "failed" -> "abandoned"
    [] OTHER         -> "searching"
searchChoice == IF pc = "done" THEN {bestPos} ELSE {}

Search == INSTANCE FocusSearch WITH
  phase <- searchPhase, seen <- images, chosen <- searchChoice

ImplementsFocusSearch == Search!SearchSpec

\* A run that returns 0 has left the lens at the position it chose, provided
\* that from the last fp before its last move on the lens obeyed it and no
\* command drove the lens or wrote focus_position: nothing that went wrong
\* earlier, in the search or on the way back, carries over into that move (a
\* lens that stuck, an fp that failed, a command that drove the lens, a range
\* commanded meanwhile, a cancelled run).  The proviso is needed: Quit
\* has opened the gate by then.
FinishesAtBest ==
  pc = "done" /\ ~astray => lens = bestPos /\ focusPos = bestPos

\* Observing images need binning 1 ("any return statements between here and
\* the end of the focusing loop must be guarded"): no way out of the run
\* leaves the camera at the binning of the search, unless it is shut down.
BinningRestored ==
  pc \notin Running => binning = 1 \/ shuttingDown = 1

\* A run nobody interferes with, on a range given in the right order, takes
\* its images inside the range, and at whole steps from its end: the loop
\* stops before the lens could be imaged below the start.
Undisturbed == ~disturbed /\ startPos <= endPos /\ focusStep > 0

Searching == pc \in {"loop", "image", "measure", "shift", "unbin"}

WholeSteps(p) ==
  /\ p \in startPos .. endPos
  /\ \E k \in 0 .. endPos - p : p = endPos - k * focusStep

ImagesInRange ==
  Searching /\ Undisturbed => \A i \in images : WholeSteps(i[1])
=============================================================================
