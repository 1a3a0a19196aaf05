---------------------------- MODULE LensControl ----------------------------
(***************************************************************************)
(* The lens and the exposure: initLensAdapter (lens_adapter.c), whose      *)
(* failure main only prints, and then what one command does: the writes of *)
(* the gated parameters by processClient (commands.c) or                   *)
(* process_command_packet (sc_listen.c), adjustCameraHardware and          *)
(* runCommand (lens_adapter.c), with the lens commands that fail, stop     *)
(* short or answer unreadably.  The commands come one after another and    *)
(* the gate is open; who else may interfere is the matter of Commanding.   *)
(* The gain is set the way the exposure is: only its flag and its result   *)
(* are kept.                                                               *)
(***************************************************************************)
EXTENDS Integers

CONSTANTS
  MinFocus, MaxFocus,  \* the stops of the lens
  DefaultOffset,       \* DEFAULT_FOCUS_OFFSET, from infinity
  Positions,           \* focus positions commands ask for
  StepCounts,          \* aperture_steps commands ask for
  Exposures,           \* exposure times, in tenths of a millisecond
  MinExposure, MaxExposure, \* what the camera supports
  ClientCommands,      \* the commands clients send; empty without clients
  HasListeners         \* do flight computers send packets?

Bit == {0, 1}
KeepPosition == -1     \* focus_pos of a client that leaves the focus alone
Readings == {"known", "lost"}
LensRange == MinFocus .. MaxFocus

\* The fields of struct commands that reach adjustCameraHardware.
ClientCommand ==
  [focus : Positions \union {KeepPosition}, inf : Bit, open : Bit,
   steps : StepCounts, exposure : Exposures]

ASSUME LensAssumption ==
  /\ MinFocus \in Int /\ MaxFocus \in Int /\ MinFocus <= 0 /\ 0 <= MaxFocus
  /\ DefaultOffset \in Int
ASSUME CommandAssumption ==
  /\ Positions \subseteq Int /\ StepCounts \subseteq Int
  /\ Exposures \subseteq Nat /\ Exposures # {}
ASSUME ExposureAssumption ==
  /\ MinExposure \in Nat /\ MaxExposure \in Nat /\ MinExposure <= MaxExposure
ASSUME SendersAssumption ==
  ClientCommands \subseteq ClientCommand /\ HasListeners \in BOOLEAN

VARIABLES
  pc,
  lens,          \* where the lens really is
  focusPos,      \* focus_position: commanded, then as fp reports it
  prevPos,       \* prev_focus_pos: as the last fp left it
  focusInf,      \* focus_inf
  maxAperture,   \* max_aperture
  apertureSteps, \* aperture_steps
  exposureTime,  \* exposure_time
  changeExposure, changeGain,   \* change_exposure_bool, change_gainfact_bool
  onCamera,      \* the exposure time the camera works with
  ret,           \* what adjustCameraHardware returns
  allCmds,       \* lens and exposure fields of the clients' buffer
  goal,          \* history: where this command should bring the lens
  fault,         \* history: a lens command of this command fell short, or
                 \* could not be read
  reading,       \* history: whether fp has read the position, and no lens
                 \* command has moved the lens or failed to read it since
  atStart,       \* history: reading when this command began
  failed,        \* history: some part of this command failed
  asked, heard,  \* history: the last exposure asked for, and whether the
                 \* camera accepted the last one it was given
  apertureMoves  \* history: mn commands since a command was last received

focusVars    == <<lens, focusPos, prevPos, focusInf>>
apertureVars == <<maxAperture, apertureSteps, apertureMoves>>
exposureVars == <<exposureTime, changeExposure, changeGain, onCamera, asked,
                  heard>>
history == <<goal, fault, reading, atStart>>
vars == <<pc, focusVars, apertureVars, exposureVars, ret, allCmds, history,
          failed>>

StartStages == {"open", "learn", "toInf", "toDefault", "readDefault", "motor"}
CommandStages == {"focus", "printFocus", "aperture", "printAperture",
                  "exposure", "gain", "report"}
Stages == StartStages \union CommandStages \union {"idle"}

ClampBelowOnly(lo, hi, x) == IF x < lo THEN lo ELSE x
ClampTo(lo, hi, x) == IF x < lo THEN lo ELSE IF x > hi THEN hi ELSE x
LensClamp(p) == ClampTo(MinFocus, MaxFocus, p)

\* The buffer before any command: all_cmds = {0}.
NoCommand ==
  [focus |-> 0, inf |-> 0, open |-> 0, steps |-> 0, exposure |-> 0]

\* The exposure is set (initCamera); the lens may be anywhere, and the
\* positions of all_camera_params are zeroes.  The start finds the stop by
\* itself: it needs no position known before.
Init ==
  /\ pc = "open"
  /\ lens \in LensRange /\ focusPos = 0 /\ prevPos = 0 /\ focusInf = 0
  /\ maxAperture = 0 /\ apertureSteps = 0
  /\ exposureTime \in Exposures \intersect (MinExposure .. MaxExposure)
  /\ onCamera = exposureTime
  /\ changeExposure = 0 /\ changeGain = 0
  /\ ret = 1
  /\ allCmds = NoCommand
  /\ goal = LensClamp(MaxFocus + DefaultOffset) /\ fault = FALSE
  /\ reading = "lost" /\ atStart = "known"
  /\ failed = FALSE
  /\ asked = exposureTime /\ heard = TRUE
  /\ apertureMoves = 0

-----------------------------------------------------------------------------
(***************************************************************************)
(* The lens.  It arrives, or halts on the way; fp reads its position, gets *)
(* an answer that cannot be parsed, which is no failure, or fails.         *)
(***************************************************************************)
OnTheWay(target) ==
  {l \in LensRange : (lens <= l /\ l <= target) \/ (target <= l /\ l <= lens)}

Travel(target) == lens' \in OnTheWay(LensClamp(target))
NoteArrival(target) == fault' = (fault \/ lens' # LensClamp(target))
LosePosition == reading' = "lost"

\* fp: the position read is also the next previous one.
TrustCommand == focusPos' = lens /\ UNCHANGED prevPos
TakePosition == focusPos' = lens /\ prevPos' = lens

\* Of an answer that cannot be parsed only the commanded position remains.
ReadPosition ==
  \/ TakePosition /\ reading' = "known" /\ UNCHANGED fault
  \/ /\ prevPos' = focusPos /\ UNCHANGED focusPos
     /\ LosePosition /\ fault' = TRUE

MissPosition ==
  UNCHANGED <<focusPos, prevPos>> /\ LosePosition /\ fault' = TRUE

-----------------------------------------------------------------------------
(***************************************************************************)
(* initLensAdapter.  Each of its steps may be its last: what it has set    *)
(* until then stays, and the program goes on to take commands.             *)
(***************************************************************************)
StartUp(stage) ==
  /\ pc = stage
  /\ UNCHANGED <<focusInf, apertureSteps, apertureMoves, exposureVars, ret,
                 allCmds, goal, atStart, failed>>

Abandon == pc' = "idle" /\ fault' = TRUE

\* The serial line is opened and configured, or there is no lens at all.
OpenLens ==
  /\ StartUp("open")
  /\ (pc' = "learn" /\ UNCHANGED fault) \/ Abandon
  /\ UNCHANGED <<lens, focusPos, prevPos, reading, maxAperture>>

\* la, twice, because on a cold boot the first gets the lower stop wrong; it
\* drives the lens about.
LearnRange ==
  /\ StartUp("learn")
  /\ lens' \in LensRange
  /\ (pc' = "toInf" /\ UNCHANGED fault) \/ Abandon
  /\ UNCHANGED <<focusPos, prevPos, reading, maxAperture>>

StartMove(stage, target, next) ==
  /\ StartUp(stage)
  /\ Travel(target)
  /\ (pc' = next /\ NoteArrival(target)) \/ Abandon
  /\ UNCHANGED <<focusPos, prevPos, reading, maxAperture>>

\* An offset that would take the lens past a stop ends there.
MoveToInfinity == StartMove("toInf", MaxFocus, "toDefault")
MoveToDefault == StartMove("toDefault", lens + DefaultOffset, "readDefault")

ReadDefault ==
  /\ StartUp("readDefault")
  /\ \/ ReadPosition /\ maxAperture' = 1 /\ pc' = "motor"
     \/ MissPosition /\ Abandon /\ UNCHANGED maxAperture
  /\ UNCHANGED lens

\* in, mo and pa: whichever fails, nothing of the state depends on it.
OpenMotor ==
  /\ StartUp("motor")
  /\ pc' = "idle"
  /\ UNCHANGED <<lens, focusPos, prevPos, reading, maxAperture, fault>>

InitLensAdapter ==
  OpenLens \/ LearnRange \/ MoveToInfinity \/ MoveToDefault \/ ReadDefault
    \/ OpenMotor

-----------------------------------------------------------------------------
(***************************************************************************)
(* Commands.                                                               *)
(***************************************************************************)
CeilMs(tenths) == (tenths + 9) \div 10

\* Exposures that differ within one millisecond count as the same.
NoteAnyExposure(e) ==
  exposureTime' = e /\ changeExposure' = changeExposure
NoteExposure(e) ==
  IF CeilMs(e) # CeilMs(exposureTime)
  THEN exposureTime' = e /\ changeExposure' = 1
  ELSE UNCHANGED <<exposureTime, changeExposure>>

StartAdjustment ==
  /\ pc' = "focus"
  /\ ret' = 1 /\ failed' = FALSE
  /\ fault' = FALSE /\ atStart' = reading
  /\ UNCHANGED <<lens, prevPos, reading, onCamera, heard>>

\* The lens is told a position, or told to stay where it is.
LeaveFocus ==
  /\ UNCHANGED focusPos
  /\ goal' = IF focusInf' = 1 THEN MaxFocus ELSE lens

NameFocus(p) ==
  /\ focusPos' = p
  /\ goal' = IF focusInf' = 1 THEN MaxFocus ELSE LensClamp(p)

\* A client's command carries every field.
Obey(c) ==
  /\ focusInf' = c.inf
  /\ IF c.focus = KeepPosition THEN LeaveFocus ELSE NameFocus(c.focus)
  /\ maxAperture' = c.open /\ apertureSteps' = c.steps
  /\ asked' = c.exposure
  /\ NoteExposure(c.exposure)
  /\ changeGain' \in {changeGain, 1}
  /\ StartAdjustment

ReceiveCommand ==
  /\ pc = "idle"
  /\ allCmds' \in ClientCommands
  /\ Obey(allCmds')
  /\ apertureMoves' = 0

\* A client that closes its connection: recvfrom returns 0, which is not -1,
\* and the buffer is executed as it stands.
PeerClosed ==
  /\ ClientCommands # {}
  /\ pc = "idle"
  /\ Obey(allCmds)
  /\ UNCHANGED <<allCmds, apertureMoves>>

\* A packet updates the fields it names.
ReceivePacket ==
  /\ HasListeners
  /\ pc = "idle"
  /\ focusInf' \in Bit
  /\ LeaveFocus \/ \E p \in Positions : NameFocus(p)
  /\ maxAperture' \in Bit
  /\ apertureSteps' \in StepCounts \union {apertureSteps}
  /\ changeGain' \in {changeGain, 1}
  /\ \/ UNCHANGED <<exposureTime, changeExposure, asked>>
     \/ \E e \in Exposures : asked' = e /\ NoteExposure(e)
  /\ apertureMoves' = 0
  /\ StartAdjustment
  /\ UNCHANGED allCmds

-----------------------------------------------------------------------------
(***************************************************************************)
(* adjustCameraHardware.  Fail is the result of a runCommand that returned *)
(* -1: the function notes it and goes on.                                  *)
(***************************************************************************)
Fail == ret' = -1 /\ failed' = TRUE
Pass == UNCHANGED <<ret, failed>>

\* The lens moves whether or not the answer is good.
MoveLens(target) ==
  Travel(target) /\ NoteArrival(target) /\ LosePosition /\ (Pass \/ Fail)

FocusShift == focusPos - prevPos

AdjustFocus ==
  /\ pc = "focus"
  /\ IF focusInf = 0 /\ FocusShift = 0
     THEN /\ pc' = "aperture"
          /\ UNCHANGED <<lens, fault, reading, ret, failed>>
     ELSE /\ pc' = "printFocus"
          /\ MoveLens(IF focusInf = 1 THEN MaxFocus ELSE lens + FocusShift)
  /\ UNCHANGED <<focusPos, prevPos, focusInf, apertureVars, exposureVars,
                 allCmds, goal, atStart>>

PrintFocus ==
  /\ pc = "printFocus"
  /\ (ReadPosition /\ Pass) \/ (MissPosition /\ Fail)
  /\ pc' = "aperture"
  /\ UNCHANGED <<lens, focusInf, apertureVars, exposureVars, allCmds, goal,
                 atStart>>

Others == UNCHANGED <<focusVars, exposureVars, allCmds, history>>

\* mo, mn, or nothing; the steps are cleared after mn, done or not, and stay
\* where mo takes precedence.
OpenAperture ==
  /\ pc = "aperture" /\ maxAperture = 1
  /\ Pass \/ Fail
  /\ pc' = "exposure"
  /\ UNCHANGED apertureVars
  /\ Others

MoveAperture ==
  /\ pc = "aperture" /\ maxAperture = 0 /\ apertureSteps # 0
  /\ Pass \/ Fail
  /\ apertureMoves' = IF apertureMoves < 2 THEN apertureMoves + 1 ELSE 2
  /\ pc' = "printAperture"
  /\ UNCHANGED <<maxAperture, apertureSteps>>
  /\ Others

LeaveAperture ==
  /\ pc = "aperture" /\ maxAperture = 0 /\ apertureSteps = 0
  /\ pc' = "exposure"
  /\ Pass
  /\ UNCHANGED apertureVars
  /\ Others

PrintAperture ==
  /\ pc = "printAperture"
  /\ Pass \/ Fail
  /\ apertureSteps' = 0
  /\ pc' = "exposure"
  /\ UNCHANGED <<maxAperture, apertureMoves>>
  /\ Others

\* setExposureTime and setMonoAnalogGain return 0 or -1, and their result
\* replaces the one gathered so far.
SuccessAsOne == 1
SetterSuccess == 0

SetExposure ==
  /\ pc = "exposure"
  /\ IF changeExposure = 0
     THEN UNCHANGED <<onCamera, heard, ret, failed>>
     ELSE \/ /\ onCamera' = ClampTo(MinExposure, MaxExposure, exposureTime)
             /\ heard' = TRUE
             /\ ret' = SetterSuccess /\ UNCHANGED failed
          \/ UNCHANGED onCamera /\ heard' = FALSE /\ Fail
  /\ changeExposure' = 0
  /\ pc' = "gain"
  /\ UNCHANGED <<focusVars, apertureVars, exposureTime, changeGain, asked,
                 allCmds, history>>

SetGain ==
  /\ pc = "gain"
  /\ IF changeGain = 0 THEN Pass
     ELSE \/ ret' = SetterSuccess /\ UNCHANGED failed
          \/ Fail
  /\ changeGain' = 0
  /\ pc' = "report"
  /\ UNCHANGED <<focusVars, apertureVars, exposureTime, changeExposure,
                 onCamera, asked, heard, allCmds, history>>

\* "Error executing at least one user command" is printed for ret < 1.
Reported == ret < 1

Report ==
  /\ pc = "report"
  /\ pc' = "idle"
  /\ UNCHANGED <<focusVars, apertureVars, exposureVars, ret, allCmds, history,
                 failed>>

AdjustCameraHardware ==
  \/ AdjustFocus \/ PrintFocus
  \/ OpenAperture \/ MoveAperture \/ LeaveAperture \/ PrintAperture
  \/ SetExposure \/ SetGain \/ Report

Next ==
  \/ InitLensAdapter
  \/ ReceiveCommand \/ PeerClosed \/ ReceivePacket
  \/ AdjustCameraHardware

Spec == Init /\ [][Next]_vars

-----------------------------------------------------------------------------
(***************************************************************************)
(* Properties.                                                             *)
(***************************************************************************)
TypeOK ==
  /\ pc \in Stages
  /\ lens \in LensRange /\ focusPos \in Int /\ prevPos \in Int
  /\ focusInf \in Bit /\ maxAperture \in Bit /\ apertureSteps \in Int
  /\ exposureTime \in Nat /\ onCamera \in MinExposure .. MaxExposure
  /\ changeExposure \in Bit /\ changeGain \in Bit
  /\ ret \in {-1, 0, 1}
  /\ allCmds \in ClientCommands \union {NoCommand}
  /\ goal \in LensRange /\ fault \in BOOLEAN /\ failed \in BOOLEAN
  /\ reading \in Readings /\ atStart \in Readings
  /\ asked \in Nat /\ heard \in BOOLEAN
  /\ apertureMoves \in 0 .. 2

\* A command whose own lens commands obey brings the lens where it was told,
\* or leaves it where it is, and the software knows the position, if the
\* position was known before it; a command to infinity does so from anywhere,
\* and a start brings the lens to its default offset.  All shifts are
\* relative and nothing but infinity homes the lens, so this says that one
\* good fp ends the effect of every fault before it, of the start, of moves
\* that fell short and of readings.  The proviso is needed: a fault whose
\* position has not been read since does reach into the next command, where
\* lens_adapter.c takes the commanded position for "current focus".
LensObeys ==
  pc = "idle" /\ ~fault /\ (atStart = "known" \/ focusInf = 1) =>
    lens = goal /\ prevPos = lens /\ focusPos = lens

\* The camera exposes as long as the last command asked, to the millisecond,
\* unless the camera refused the change or has a limit: sub-millisecond
\* changes are skipped, but never add up.
ExposureFollows ==
  pc = "idle" /\ heard =>
    LET wanted == ClampTo(MinExposure, MaxExposure, asked) IN
    onCamera - wanted < 10 /\ wanted - onCamera < 10

\* Whatever part of a command fails, the command is reported as failed: the
\* later results overwrite the earlier ones, but never by a success.
FailuresReported == pc = "report" /\ failed => Reported

\* lens_adapter.c: the aperture "should not move again unless user sends
\* another command".
ApertureMovesOncePerCommand == apertureMoves <= 1
=============================================================================
