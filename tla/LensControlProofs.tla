-------------------------- MODULE LensControlProofs --------------------------
(***************************************************************************)
(* Theorems about LensControl, for every lens, every set of positions,     *)
(* step counts and exposures, and every limit of the camera.               *)
(***************************************************************************)
EXTENDS LensControl, TLAPS

\* Expanded wherever an action is taken apart.
USE DEF Bit, focusVars, apertureVars, exposureVars, history

\* Clamping: into the range, nothing to do inside it, and no further apart.
LEMMA ClampInside ==
  ASSUME NEW lo \in Int, NEW hi \in Int, lo <= hi, NEW x \in Int
  PROVE  /\ ClampTo(lo, hi, x) \in lo .. hi
         /\ x \in lo .. hi => ClampTo(lo, hi, x) = x
BY DEF ClampTo

LEMMA ClampKeepsDistance ==
  ASSUME NEW lo \in Int, NEW hi \in Int, lo <= hi,
         NEW x \in Int, NEW y \in Int, x - y < 10, y - x < 10
  PROVE  ClampTo(lo, hi, x) - ClampTo(lo, hi, y) < 10
BY DEF ClampTo

LEMMA LensClampInRange ==
  ASSUME NEW p \in Int
  PROVE  /\ LensClamp(p) \in LensRange
         /\ p \in LensRange => LensClamp(p) = p
BY LensAssumption DEF LensClamp, ClampTo, LensRange

\* Exposures with the same number of milliseconds are less than one apart.
LEMMA SameMillisecond ==
  ASSUME NEW x \in Nat, NEW y \in Nat, CeilMs(x) = CeilMs(y)
  PROVE  x - y < 10 /\ y - x < 10
BY DEF CeilMs

-----------------------------------------------------------------------------
(***************************************************************************)
(* Types.                                                                  *)
(***************************************************************************)
\* What a command writes, whoever sends it, is of the right type.
LEMMA CommandTypes ==
  ASSUME NEW c \in ClientCommands \union {NoCommand}
  PROVE  /\ c.focus \in Int /\ c.inf \in Bit /\ c.open \in Bit
         /\ c.steps \in Int /\ c.exposure \in Nat
<1>1. CASE c = NoCommand
  BY <1>1 DEF NoCommand
<1>2. CASE c \in ClientCommand
  <2>1. /\ c.focus \in Positions \union {KeepPosition} /\ c.inf \in Bit
        /\ c.open \in Bit /\ c.steps \in StepCounts /\ c.exposure \in Exposures
    BY <1>2 DEF ClientCommand
  <2>2. Positions \subseteq Int /\ KeepPosition \in Int
    BY CommandAssumption DEF KeepPosition
  <2>3. c.focus \in Int
    BY <2>1, <2>2, Zenon
  <2> QED BY <2>1, <2>3, CommandAssumption
<1> QED BY <1>1, <1>2, SendersAssumption

LEMMA InitTypeOK == Init => TypeOK
<1> SUFFICES ASSUME Init PROVE TypeOK
  OBVIOUS
<1>1. goal \in LensRange
  BY LensAssumption, LensClampInRange DEF Init
<1>2. exposureTime \in Nat /\ onCamera \in MinExposure .. MaxExposure
  BY CommandAssumption, ExposureAssumption DEF Init
<1>3. allCmds \in ClientCommands \union {NoCommand}
  BY DEF Init
<1>4. fault \in BOOLEAN /\ failed \in BOOLEAN /\ heard \in BOOLEAN
  BY Zenon DEF Init
<1> QED BY <1>1, <1>2, <1>3, <1>4 DEF Init, TypeOK, Stages, StartStages, Readings

LEMMA NextTypeOK == TypeOK /\ [Next]_vars => TypeOK'
<1> SUFFICES ASSUME TypeOK, [Next]_vars PROVE TypeOK'
  OBVIOUS
<1> USE DEF TypeOK, Stages, StartStages, CommandStages, Readings,
            LosePosition
<1>1. ASSUME InitLensAdapter PROVE TypeOK'
  <2> USE DEF StartUp, Abandon, Travel, NoteArrival, OnTheWay
  <2>1. CASE OpenLens
    <3>1. fault' \in BOOLEAN
      BY <2>1, Zenon DEF OpenLens
    <3> QED BY <2>1, <3>1 DEF OpenLens
  <2>2. CASE LearnRange
    <3>1. fault' \in BOOLEAN
      BY <2>2, Zenon DEF LearnRange
    <3> QED BY <2>2, <3>1 DEF LearnRange
  <2>3. CASE MoveToInfinity
    <3>1. fault' \in BOOLEAN
      BY <2>3, Zenon DEF MoveToInfinity, StartMove
    <3> QED BY <2>3, <3>1 DEF MoveToInfinity, StartMove
  <2>4. CASE MoveToDefault
    <3>1. fault' \in BOOLEAN
      BY <2>4, Zenon DEF MoveToDefault, StartMove
    <3> QED BY <2>4, <3>1 DEF MoveToDefault, StartMove
  <2>5. CASE ReadDefault
    <3>1. focusPos' \in {focusPos, lens} /\ prevPos' \in {prevPos, lens, focusPos}
      BY <2>5 DEF ReadDefault, ReadPosition, TakePosition, MissPosition
    <3>2. focusPos' \in Int /\ prevPos' \in Int
      BY <3>1, LensAssumption DEF LensRange
    <3>3. fault' \in BOOLEAN
      BY <2>5, Zenon DEF ReadDefault, ReadPosition, MissPosition
    <3>4. reading' \in Readings
      BY <2>5 DEF ReadDefault, ReadPosition, MissPosition
    <3> QED BY <2>5, <3>2, <3>3, <3>4 DEF ReadDefault
  <2>6. CASE OpenMotor
    BY <2>6 DEF OpenMotor
  <2> QED BY <1>1, <2>1, <2>2, <2>3, <2>4, <2>5, <2>6 DEF InitLensAdapter
<1>2. ASSUME ReceiveCommand \/ PeerClosed \/ ReceivePacket PROVE TypeOK'
  <2>1. ASSUME StartAdjustment, focusPos' \in Int,
               LeaveFocus \/ NameFocus(focusPos')
        PROVE  /\ pc' \in Stages /\ ret' \in {-1, 0, 1}
               /\ goal' \in LensRange
               /\ fault' \in BOOLEAN /\ failed' \in BOOLEAN
               /\ reading' \in Readings /\ atStart' \in Readings
    <3>1. goal' \in LensRange
      <4>1. MaxFocus \in LensRange /\ LensClamp(focusPos') \in LensRange
        BY <2>1, LensAssumption, LensClampInRange DEF LensRange
      <4> QED BY <2>1, <4>1 DEF LeaveFocus, NameFocus
    <3>2. fault' \in BOOLEAN /\ failed' \in BOOLEAN
      BY <2>1, Zenon DEF StartAdjustment
    <3> QED BY <2>1, <3>1, <3>2 DEF StartAdjustment
  <2>2. ASSUME NEW c \in ClientCommands \union {NoCommand}, Obey(c),
               allCmds' \in ClientCommands \union {NoCommand},
               apertureMoves' \in 0 .. 2
        PROVE  TypeOK'
    <3>1. /\ focusInf' \in Bit /\ focusPos' \in Int /\ maxAperture' \in Bit
          /\ apertureSteps' \in Int /\ asked' \in Nat
          /\ exposureTime' \in Nat /\ changeExposure' \in Bit
          /\ changeGain' \in Bit
      BY <2>2, CommandTypes DEF Obey, NoteExposure, LeaveFocus, NameFocus
    <3>2. StartAdjustment /\ (LeaveFocus \/ NameFocus(focusPos'))
      BY <2>2 DEF Obey, NameFocus
    <3>3. UNCHANGED <<lens, prevPos, onCamera, heard>>
      BY <3>2 DEF StartAdjustment
    <3> QED BY <2>1, <2>2, <3>1, <3>2, <3>3
  <2>3. CASE ReceiveCommand
    BY <2>3, <2>2 DEF ReceiveCommand
  <2>4. CASE PeerClosed
    BY <2>4, <2>2 DEF PeerClosed
  <2>5. CASE ReceivePacket
    <3>1. /\ focusInf' \in Bit /\ focusPos' \in Int /\ maxAperture' \in Bit
          /\ apertureSteps' \in Int /\ asked' \in Nat
          /\ exposureTime' \in Nat /\ changeExposure' \in Bit
          /\ changeGain' \in Bit
      BY <2>5, CommandAssumption
         DEF ReceivePacket, NoteExposure, LeaveFocus, NameFocus
    <3>2. StartAdjustment /\ (LeaveFocus \/ NameFocus(focusPos'))
      BY <2>5 DEF ReceivePacket, NameFocus
    <3>3. UNCHANGED <<lens, prevPos, onCamera, heard, allCmds>>
      BY <2>5, <3>2 DEF StartAdjustment, ReceivePacket
    <3>4. apertureMoves' = 0
      BY <2>5 DEF ReceivePacket
    <3> QED BY <2>1, <3>1, <3>2, <3>3, <3>4
  <2> QED BY <1>2, <2>3, <2>4, <2>5
<1>3. ASSUME AdjustCameraHardware PROVE TypeOK'
  <2> USE DEF Pass, Fail, Others
  <2>1. CASE AdjustFocus
    <3>1. fault' \in BOOLEAN /\ failed' \in BOOLEAN
      BY <2>1, Zenon DEF AdjustFocus, MoveLens, NoteArrival
    <3> QED BY <2>1, <3>1 DEF AdjustFocus, MoveLens, Travel, OnTheWay
  <2>2. CASE PrintFocus
    <3>1. focusPos' \in {focusPos, lens} /\ prevPos' \in {prevPos, lens, focusPos}
      BY <2>2 DEF PrintFocus, ReadPosition, TakePosition, MissPosition
    <3>2. focusPos' \in Int /\ prevPos' \in Int
      BY <3>1, LensAssumption DEF LensRange
    <3>3. fault' \in BOOLEAN /\ failed' \in BOOLEAN
      BY <2>2, Zenon DEF PrintFocus, ReadPosition, MissPosition
    <3>4. reading' \in Readings
      BY <2>2 DEF PrintFocus, ReadPosition, MissPosition
    <3> QED BY <2>2, <3>2, <3>3, <3>4 DEF PrintFocus
  <2>3. CASE OpenAperture
    <3>1. failed' \in BOOLEAN
      BY <2>3, Zenon DEF OpenAperture
    <3> QED BY <2>3, <3>1 DEF OpenAperture
  <2>4. CASE MoveAperture
    <3>1. failed' \in BOOLEAN
      BY <2>4, Zenon DEF MoveAperture
    <3> QED BY <2>4, <3>1 DEF MoveAperture
  <2>5. CASE LeaveAperture
    BY <2>5 DEF LeaveAperture
  <2>6. CASE PrintAperture
    <3>1. failed' \in BOOLEAN
      BY <2>6, Zenon DEF PrintAperture
    <3> QED BY <2>6, <3>1 DEF PrintAperture
  <2>7. CASE SetExposure
    <3>1. ClampTo(MinExposure, MaxExposure, exposureTime)
            \in MinExposure .. MaxExposure
      BY ClampInside, ExposureAssumption
    <3>2. onCamera' \in MinExposure .. MaxExposure
      BY <2>7, <3>1 DEF SetExposure
    <3>3. heard' \in BOOLEAN /\ failed' \in BOOLEAN
      BY <2>7, Zenon DEF SetExposure
    <3> QED BY <2>7, <3>2, <3>3 DEF SetExposure, SetterSuccess
  <2>8. CASE SetGain
    <3>1. failed' \in BOOLEAN
      BY <2>8, Zenon DEF SetGain, SetterSuccess
    <3> QED BY <2>8, <3>1 DEF SetGain, SetterSuccess
  <2>9. CASE Report
    BY <2>9 DEF Report
  <2> QED BY <1>3, <2>1, <2>2, <2>3, <2>4, <2>5, <2>6, <2>7, <2>8, <2>9
          DEF AdjustCameraHardware
<1>4. CASE UNCHANGED vars
  BY <1>4 DEF vars
<1> QED BY <1>1, <1>2, <1>3, <1>4 DEF Next

\* Every variable of the lens and of the exposure stays in its set; in
\* particular the lens between its stops and the exposure of the camera
\* inside the camera's limits, whatever is commanded (runCommand,
\* setExposureTime).
THEOREM TypeCorrect == Spec => []TypeOK
<1> QED BY InitTypeOK, NextTypeOK, PTL DEF Spec

-----------------------------------------------------------------------------
(***************************************************************************)
(* The lens.                                                               *)
(***************************************************************************)
Knows == lens = goal /\ prevPos = lens /\ focusPos = lens

\* What this command needs to be told right: a known position, or none.
Sure == atStart = "known" \/ focusInf = 1

AfterFocus == CommandStages \ {"focus", "printFocus"}

\* A position that was read, and not lost since, is the lens's; the commanded
\* one differs from it only between a command and its move.
KnownIsTrue ==
  /\ pc \in StartStages \ {"motor"} => reading = "lost"
  /\ reading = "known" =>
       prevPos = lens /\ (pc # "focus" => focusPos = lens)

\* What holds at each stage of a faultless start and of a command that is told
\* right.  LensObeys alone is not inductive: it says nothing between two
\* commands.
OnCourse ==
  /\ KnownIsTrue
  /\ pc \in StartStages => goal = LensClamp(MaxFocus + DefaultOffset)
  /\ pc = "toDefault" /\ ~fault => lens = MaxFocus
  /\ pc = "readDefault" /\ ~fault => lens = goal
  /\ pc = "motor" /\ ~fault => Knows
  /\ pc = "focus" =>
       /\ atStart = reading
       /\ focusInf = 1 => goal = MaxFocus
       /\ focusInf # 1 /\ reading = "known" => goal = LensClamp(focusPos)
  /\ pc = "printFocus" /\ ~fault /\ Sure => lens = goal
  /\ pc \in AfterFocus \union {"idle"} /\ ~fault /\ Sure => Knows

LEMMA InitOnCourse == Init => OnCourse
BY DEF Init, OnCourse, KnownIsTrue, AfterFocus, CommandStages

\* Where the position is known, leaving the lens and naming a position are
\* told in the same way.
LEMMA CommandOnCourse ==
  ASSUME TypeOK, OnCourse, pc = "idle", StartAdjustment,
         LeaveFocus \/ \E p : NameFocus(p)
  PROVE  OnCourse'
<1>1. /\ pc' = "focus" /\ atStart' = reading
      /\ UNCHANGED <<lens, prevPos, reading>>
  BY DEF StartAdjustment
<1>2. reading = "known" => prevPos = lens /\ focusPos = lens
  BY DEF OnCourse, KnownIsTrue
<1>3. focusInf' = 1 => goal' = MaxFocus
  BY DEF LeaveFocus, NameFocus
<1>4. ASSUME reading = "known", focusInf' # 1
      PROVE  goal' = LensClamp(focusPos')
  <2>1. CASE LeaveFocus
    <3>1. focusPos' = lens /\ goal' = lens
      BY <1>2, <1>4, <2>1 DEF LeaveFocus
    <3> QED BY <3>1, LensClampInRange, LensAssumption DEF TypeOK, LensRange
  <2>2. CASE \E p : NameFocus(p)
    BY <1>4, <2>2 DEF NameFocus
  <2> QED BY <2>1, <2>2
<1> QED BY <1>1, <1>2, <1>3, <1>4
        DEF OnCourse, KnownIsTrue, AfterFocus, CommandStages, StartStages,
            LensClamp

LEMMA NextOnCourse == TypeOK /\ OnCourse /\ [Next]_vars => OnCourse'
<1> SUFFICES ASSUME TypeOK, OnCourse, [Next]_vars PROVE OnCourse'
  OBVIOUS
<1> USE DEF AfterFocus, CommandStages, StartStages, KnownIsTrue
<1>1. ASSUME InitLensAdapter PROVE OnCourse'
  <2> USE DEF StartUp, Abandon
  <2>1. CASE OpenLens
    BY <2>1 DEF OpenLens, OnCourse
  <2>2. CASE LearnRange
    BY <2>2 DEF LearnRange, OnCourse
  <2>3. CASE MoveToInfinity
    <3>1. LensClamp(MaxFocus) = MaxFocus
      BY LensClampInRange, LensAssumption DEF LensRange
    <3> QED BY <2>3, <3>1 DEF MoveToInfinity, StartMove, NoteArrival, OnCourse
  <2>4. CASE MoveToDefault
    BY <2>4 DEF MoveToDefault, StartMove, NoteArrival, OnCourse
  <2>5. CASE ReadDefault
    BY <2>5 DEF ReadDefault, ReadPosition, TakePosition, MissPosition,
                LosePosition, Knows, OnCourse
  <2>6. CASE OpenMotor
    BY <2>6 DEF OpenMotor, Knows, OnCourse
  <2> QED BY <1>1, <2>1, <2>2, <2>3, <2>4, <2>5, <2>6 DEF InitLensAdapter
<1>2. ASSUME ReceiveCommand \/ PeerClosed \/ ReceivePacket PROVE OnCourse'
  <2>1. /\ pc = "idle" /\ StartAdjustment
        /\ LeaveFocus \/ \E p : NameFocus(p)
    BY <1>2 DEF ReceiveCommand, PeerClosed, ReceivePacket, Obey
  <2> QED BY <2>1, CommandOnCourse
<1>3. ASSUME AdjustCameraHardware PROVE OnCourse'
  <2>1. CASE AdjustFocus
    <3>1. CASE focusInf = 0 /\ FocusShift = 0
      <4>1. ASSUME Sure PROVE Knows
        <5>1. prevPos = lens /\ goal = LensClamp(focusPos)
          BY <2>1, <3>1, <4>1 DEF AdjustFocus, OnCourse, Sure
        <5>2. focusPos = prevPos
          BY <3>1 DEF FocusShift, TypeOK
        <5> QED BY <5>1, <5>2, LensClampInRange, LensAssumption
                DEF Knows, TypeOK, LensRange
      <4>2. reading = "known" => prevPos = lens /\ focusPos = lens
        <5>1. focusPos = prevPos
          BY <3>1 DEF FocusShift, TypeOK
        <5> QED BY <5>1 DEF OnCourse
      <4>3. /\ pc' = "aperture"
            /\ UNCHANGED <<lens, focusPos, prevPos, focusInf, goal, fault,
                           reading, atStart>>
        BY <2>1, <3>1 DEF AdjustFocus
      <4> QED BY <4>1, <4>2, <4>3 DEF OnCourse, Knows, Sure
    <3>2. CASE ~(focusInf = 0 /\ FocusShift = 0)
      <4> DEFINE target == IF focusInf = 1 THEN MaxFocus ELSE lens + FocusShift
      <4>1. ASSUME Sure PROVE LensClamp(target) = goal
        <5>1. CASE focusInf = 1
          <6>1. LensClamp(MaxFocus) = MaxFocus
            BY LensClampInRange, LensAssumption DEF LensRange
          <6> QED BY <2>1, <5>1, <6>1 DEF AdjustFocus, OnCourse
        <5>2. CASE focusInf # 1
          <6>1. prevPos = lens /\ goal = LensClamp(focusPos)
            BY <2>1, <4>1, <5>2 DEF AdjustFocus, OnCourse, Sure
          <6>2. lens + FocusShift = focusPos
            BY <6>1, LensAssumption DEF FocusShift, TypeOK, LensRange
          <6> QED BY <5>2, <6>1, <6>2
        <5> QED BY <5>1, <5>2
      <4>2. /\ pc' = "printFocus" /\ reading' # "known"
            /\ UNCHANGED <<goal, focusInf, atStart>>
        BY <2>1, <3>2 DEF AdjustFocus, MoveLens, LosePosition
      <4>3. fault' = (fault \/ lens' # LensClamp(target))
        BY <2>1, <3>2 DEF AdjustFocus, MoveLens, NoteArrival
      <4>4. Sure' <=> Sure
        BY <4>2 DEF Sure
      <4> HIDE DEF target
      <4>5. ASSUME ~fault', Sure' PROVE lens' = goal'
        <5>1. lens' = LensClamp(target)
          BY ONLY <4>3, <4>5, Zenon
        <5> QED BY <4>1, <4>2, <4>4, <4>5, <5>1
      <4> QED BY <4>2, <4>5 DEF OnCourse
    <3> QED BY <3>1, <3>2
  <2>2. CASE PrintFocus
    BY <2>2 DEF PrintFocus, ReadPosition, TakePosition, MissPosition,
                LosePosition, Knows, Sure, OnCourse
  <2>3. CASE OpenAperture \/ MoveAperture \/ LeaveAperture \/ PrintAperture
    BY <2>3 DEF OpenAperture, MoveAperture, LeaveAperture, PrintAperture,
                Others, Knows, Sure, OnCourse
  <2>4. CASE SetExposure \/ SetGain \/ Report
    BY <2>4 DEF SetExposure, SetGain, Report, Knows, Sure, OnCourse
  <2> QED BY <1>3, <2>1, <2>2, <2>3, <2>4 DEF AdjustCameraHardware
<1>4. CASE UNCHANGED vars
  BY <1>4 DEF vars, Knows, Sure, OnCourse
<1> QED BY <1>1, <1>2, <1>3, <1>4 DEF Next

\* For every lens: a start, and a command to infinity or from a position that
\* was known, end with the lens where it should be and the software knowing
\* it, unless a lens command of their own fell short or could not be read.
\* So one good fp, or a move to infinity, ends the effect of all the faults
\* before it; a fault whose position was not read again is not excluded from
\* the next command (initLensAdapter, adjustCameraHardware, runCommand).
THEOREM LensIsObedient == Spec => []LensObeys
<1>1. OnCourse => LensObeys
  BY DEF OnCourse, Knows, Sure, LensObeys
<1> QED BY <1>1, InitTypeOK, NextTypeOK, InitOnCourse, NextOnCourse, PTL
        DEF Spec

-----------------------------------------------------------------------------
(***************************************************************************)
(* The exposure.                                                           *)
(***************************************************************************)
\* What the camera works with is the exposure_time it accepted last, and
\* exposure_time is within a millisecond of what was asked last, although
\* many commands may have been skipped since: ExposureFollows alone does not
\* tell how far the skipped ones have gone.
ExposureInv ==
  /\ CeilMs(exposureTime) = CeilMs(asked)
  /\ changeExposure = 0 /\ heard =>
       onCamera = ClampTo(MinExposure, MaxExposure, exposureTime)
  /\ pc \in StartStages \union {"idle", "gain", "report"} => changeExposure = 0

LEMMA InitExposureInv == Init => ExposureInv
<1> SUFFICES ASSUME Init PROVE ExposureInv
  OBVIOUS
<1>1. ClampTo(MinExposure, MaxExposure, exposureTime) = exposureTime
  BY ClampInside, ExposureAssumption, CommandAssumption DEF Init
<1> QED BY <1>1 DEF Init, ExposureInv

LEMMA NextExposureInv == TypeOK /\ ExposureInv /\ [Next]_vars => ExposureInv'
<1> SUFFICES ASSUME TypeOK, ExposureInv, [Next]_vars PROVE ExposureInv'
  OBVIOUS
<1>1. ASSUME InitLensAdapter PROVE ExposureInv'
  <2>1. /\ pc \in StartStages
        /\ UNCHANGED <<exposureTime, changeExposure, onCamera, asked, heard>>
    BY <1>1 DEF InitLensAdapter, OpenLens, LearnRange, MoveToInfinity,
                MoveToDefault, StartMove, ReadDefault, OpenMotor, StartUp,
                StartStages
  <2> QED BY <2>1 DEF ExposureInv
<1>2. ASSUME NEW e, NoteExposure(e), asked' = e, StartAdjustment
      PROVE  ExposureInv'
  <2>1. pc' = "focus" /\ UNCHANGED <<onCamera, heard>>
    BY <1>2 DEF StartAdjustment
  <2>2. CASE CeilMs(e) # CeilMs(exposureTime)
    BY <1>2, <2>1, <2>2 DEF NoteExposure, ExposureInv, StartStages
  <2>3. CASE CeilMs(e) = CeilMs(exposureTime)
    BY <1>2, <2>1, <2>3 DEF NoteExposure, ExposureInv, StartStages
  <2> QED BY <2>2, <2>3
<1>3. ASSUME ReceiveCommand \/ PeerClosed PROVE ExposureInv'
  BY <1>2, <1>3 DEF ReceiveCommand, PeerClosed, Obey
<1>4. ASSUME ReceivePacket PROVE ExposureInv'
  <2>1. CASE UNCHANGED <<exposureTime, changeExposure, asked>>
    BY <1>4, <2>1 DEF ReceivePacket, StartAdjustment, ExposureInv, StartStages
  <2>2. CASE \E e \in Exposures : asked' = e /\ NoteExposure(e)
    BY <1>2, <1>4, <2>2 DEF ReceivePacket
  <2> QED BY <1>4, <2>1, <2>2 DEF ReceivePacket
<1>5. ASSUME AdjustCameraHardware PROVE ExposureInv'
  <2>1. CASE SetExposure
    BY <2>1 DEF SetExposure, ExposureInv
  <2>2. CASE SetGain \/ Report
    <3>1. /\ pc \in {"gain", "report"}
          /\ UNCHANGED <<exposureTime, changeExposure, onCamera, asked, heard>>
      BY <2>2 DEF SetGain, Report
    <3> QED BY <3>1 DEF ExposureInv
  <2>3. CASE AdjustFocus \/ PrintFocus \/ OpenAperture \/ MoveAperture
               \/ LeaveAperture \/ PrintAperture
    <3>1. /\ pc' \in {"printFocus", "aperture", "printAperture", "exposure"}
          /\ UNCHANGED <<exposureTime, changeExposure, onCamera, asked, heard>>
      BY <2>3 DEF AdjustFocus, PrintFocus, OpenAperture, MoveAperture,
                  LeaveAperture, PrintAperture, Others
    <3> QED BY <3>1 DEF ExposureInv, StartStages
  <2> QED BY <1>5, <2>1, <2>2, <2>3 DEF AdjustCameraHardware
<1>6. CASE UNCHANGED vars
  BY <1>6 DEF vars, ExposureInv
<1> QED BY <1>1, <1>3, <1>4, <1>5, <1>6 DEF Next

\* Exposure changes within a millisecond are skipped, yet never add up: the
\* camera is always within a millisecond of the last exposure asked for, or of
\* its limit, unless it refused the last change (processClient,
\* process_command_packet, setExposureTime).
THEOREM ExposureIsFollowed == Spec => []ExposureFollows
<1>1. TypeOK /\ ExposureInv => ExposureFollows
  <2> SUFFICES ASSUME TypeOK, ExposureInv, pc = "idle", heard
               PROVE  LET wanted == ClampTo(MinExposure, MaxExposure, asked) IN
                      onCamera - wanted < 10 /\ wanted - onCamera < 10
    BY DEF ExposureFollows
  <2>1. onCamera = ClampTo(MinExposure, MaxExposure, exposureTime)
    BY DEF ExposureInv
  <2>2. exposureTime \in Nat /\ asked \in Nat
    BY DEF TypeOK
  <2>3. exposureTime - asked < 10 /\ asked - exposureTime < 10
    BY <2>2, SameMillisecond DEF ExposureInv
  <2>4. /\ exposureTime \in Int /\ asked \in Int
        /\ MinExposure \in Int /\ MaxExposure \in Int
        /\ MinExposure <= MaxExposure
    BY <2>2, ExposureAssumption
  <2>5. ClampTo(MinExposure, MaxExposure, exposureTime)
          - ClampTo(MinExposure, MaxExposure, asked) < 10
    BY <2>3, <2>4, ClampKeepsDistance
  <2>6. ClampTo(MinExposure, MaxExposure, asked)
          - ClampTo(MinExposure, MaxExposure, exposureTime) < 10
    BY <2>3, <2>4, ClampKeepsDistance
  <2> QED BY <2>1, <2>5, <2>6
<1> QED BY <1>1, InitTypeOK, NextTypeOK, InitExposureInv, NextExposureInv,
           PTL DEF Spec

-----------------------------------------------------------------------------
(***************************************************************************)
(* The report.                                                             *)
(***************************************************************************)
\* A failure stays visible through the results that overwrite it: the
\* setters' 0 for success is below 1 too.
Visible == failed => Reported

LEMMA NextVisible == TypeOK /\ Visible /\ [Next]_vars => Visible'
<1> SUFFICES ASSUME TypeOK, Visible, [Next]_vars PROVE Visible'
  OBVIOUS
<1> USE DEF Visible, Reported
<1>1. ASSUME UNCHANGED <<ret, failed>> PROVE Visible'
  BY <1>1
<1>2. ASSUME Fail PROVE Visible'
  BY <1>2 DEF Fail
<1>3. ASSUME StartAdjustment PROVE Visible'
  BY <1>3 DEF StartAdjustment
<1>4. ASSUME ret' = SetterSuccess PROVE Visible'
  BY <1>4 DEF SetterSuccess
<1>5. CASE InitLensAdapter
  BY <1>1, <1>5 DEF InitLensAdapter, OpenLens, LearnRange, MoveToInfinity,
        MoveToDefault, StartMove, ReadDefault, OpenMotor, StartUp
<1>6. CASE ReceiveCommand \/ PeerClosed \/ ReceivePacket
  BY <1>3, <1>6 DEF ReceiveCommand, PeerClosed, ReceivePacket, Obey
<1>7. CASE AdjustCameraHardware
  <2>1. UNCHANGED <<ret, failed>> \/ Fail \/ ret' = SetterSuccess
    BY <1>7 DEF AdjustCameraHardware, AdjustFocus, MoveLens, PrintFocus,
          OpenAperture, MoveAperture, LeaveAperture, PrintAperture,
          SetExposure, SetGain, Report, Pass
  <2> QED BY <1>1, <1>2, <1>4, <2>1
<1>8. CASE UNCHANGED vars
  BY <1>1, <1>8 DEF vars
<1> QED BY <1>5, <1>6, <1>7, <1>8 DEF Next

\* Whatever part of a command fails, the caller prints an error
\* (adjustCameraHardware and its callers).
THEOREM FailuresAreReported == Spec => []FailuresReported
<1>1. Init => Visible
  BY Zenon DEF Init, Visible
<1>2. Visible => FailuresReported
  BY DEF Visible, FailuresReported
<1> QED BY <1>1, <1>2, InitTypeOK, NextTypeOK, NextVisible, PTL DEF Spec
-----------------------------------------------------------------------------
(***************************************************************************)
(* The aperture.                                                           *)
(***************************************************************************)
\* The stages between a command and its aperture, and those after it.
ToAperture   == StartStages \union {"focus", "printFocus", "aperture"}
PastAperture == {"exposure", "gain", "report", "idle"}

\* Aperture steps outlive the command that asked for them only where opening
\* the aperture took precedence: a move, done or failed, is not done again.
StepsUsed == pc \in PastAperture /\ maxAperture = 0 => apertureSteps = 0

StepsInv == /\ StepsUsed
            /\ pc \in StartStages => apertureSteps = 0

MovesInv == /\ ApertureMovesOncePerCommand
            /\ pc \in ToAperture => apertureMoves = 0

\* What a step does to the stage and to the aperture.
LEMMA ApertureSteps ==
  ASSUME [Next]_vars
  PROVE  \/ pc \in StartStages /\ UNCHANGED <<apertureSteps, apertureMoves>>
              /\ pc' \in StartStages \union {"idle"}
         \/ pc \in PastAperture /\ pc' = "focus"
              /\ (apertureMoves' = 0 \/ PeerClosed)
         \/ pc \in {"focus", "printFocus"} /\ pc' \in {"printFocus", "aperture"}
              /\ UNCHANGED apertureVars
         \/ OpenAperture \/ MoveAperture \/ LeaveAperture \/ PrintAperture
         \/ pc \in PastAperture /\ pc' \in PastAperture /\ UNCHANGED apertureVars
         \/ UNCHANGED <<pc, apertureVars>>
<1>1. CASE InitLensAdapter
  <2>1. /\ pc \in StartStages /\ UNCHANGED <<apertureSteps, apertureMoves>>
        /\ pc' \in StartStages \union {"idle"}
    BY <1>1 DEF InitLensAdapter, OpenLens, LearnRange, MoveToInfinity, MoveToDefault,
                StartMove, ReadDefault, OpenMotor, StartUp, Abandon, StartStages
  <2> QED BY <2>1
<1>2. CASE ReceiveCommand \/ PeerClosed \/ ReceivePacket
  <2>1. /\ pc = "idle" /\ pc' = "focus"
        /\ apertureMoves' = 0 \/ PeerClosed
    BY <1>2 DEF ReceiveCommand, PeerClosed, ReceivePacket, Obey, StartAdjustment
  <2> QED BY <2>1 DEF PastAperture
<1>3. CASE AdjustFocus \/ PrintFocus
  <2>1. /\ pc \in {"focus", "printFocus"} /\ pc' \in {"printFocus", "aperture"}
        /\ UNCHANGED apertureVars
    BY <1>3 DEF AdjustFocus, PrintFocus
  <2> QED BY <2>1
<1>4. CASE SetExposure \/ SetGain \/ Report
  <2>1. pc \in PastAperture /\ pc' \in PastAperture /\ UNCHANGED apertureVars
    BY <1>4 DEF SetExposure, SetGain, Report, PastAperture
  <2> QED BY <2>1
<1>5. CASE UNCHANGED vars
  BY <1>5 DEF vars, apertureVars
<1> QED BY <1>1, <1>2, <1>3, <1>4, <1>5 DEF Next, AdjustCameraHardware

\* A failed aperture move is not repeated by a later command: the steps are
\* cleared whether or not the motor moved (adjustCameraHardware).
THEOREM StepsAreUsed == Spec => []StepsUsed
<1>1. Init => StepsInv
  BY DEF Init, StepsInv, StepsUsed
<1>2. StepsInv /\ [Next]_vars => StepsInv'
  <2> SUFFICES ASSUME StepsInv, [Next]_vars PROVE StepsInv'
    OBVIOUS
  <2>1. CASE pc \in StartStages /\ UNCHANGED <<apertureSteps, apertureMoves>>
    BY <2>1 DEF StepsInv, StepsUsed
  <2>2. CASE pc' \in {"focus", "printFocus", "aperture"}
    BY <2>2 DEF StepsInv, StepsUsed, StartStages, PastAperture
  <2>3. CASE OpenAperture \/ MoveAperture \/ LeaveAperture \/ PrintAperture
    <3>1. /\ pc' \in {"printAperture", "exposure"}
          /\ pc' = "printAperture" \/ maxAperture' # 0 \/ apertureSteps' = 0
      BY <2>3 DEF OpenAperture, MoveAperture, LeaveAperture, PrintAperture, apertureVars
    <3> QED BY <3>1 DEF StepsInv, StepsUsed, StartStages, PastAperture
  <2>4. CASE pc \in PastAperture /\ pc' \in PastAperture /\ UNCHANGED apertureVars
    BY <2>4 DEF StepsInv, StepsUsed, StartStages, PastAperture, apertureVars
  <2>5. CASE UNCHANGED <<pc, apertureVars>>
    BY <2>5 DEF StepsInv, StepsUsed, apertureVars
  <2> QED BY <2>1, <2>2, <2>3, <2>4, <2>5, ApertureSteps
<1>3. StepsInv => StepsUsed
  BY DEF StepsInv
<1> QED BY <1>1, <1>2, <1>3, PTL DEF Spec

\* As long as no client closes its connection, each command or packet moves
\* the aperture at most once, as the comment in adjustCameraHardware says.  So
\* what breaks it is the client's buffer, executed again when recvfrom returns
\* 0, and nothing else (processClient, process_command_packet).
THEOREM ApertureMovesOnce ==
  Spec /\ [][~PeerClosed]_vars => []ApertureMovesOncePerCommand
<1>1. Init => MovesInv
  BY DEF Init, MovesInv, ApertureMovesOncePerCommand
<1>2. MovesInv /\ [Next]_vars /\ [~PeerClosed]_vars => MovesInv'
  <2> SUFFICES ASSUME MovesInv, [Next]_vars, [~PeerClosed]_vars PROVE MovesInv'
    OBVIOUS
  <2>1. CASE pc \in StartStages /\ UNCHANGED <<apertureSteps, apertureMoves>>
    BY <2>1 DEF MovesInv, ApertureMovesOncePerCommand, ToAperture
  <2>2. CASE apertureMoves' = 0
    BY <2>2 DEF MovesInv, ApertureMovesOncePerCommand
  <2>3. CASE pc \in {"focus", "printFocus"} /\ UNCHANGED apertureVars
    BY <2>3 DEF MovesInv, ApertureMovesOncePerCommand, ToAperture, apertureVars
  <2>4. CASE OpenAperture \/ MoveAperture \/ LeaveAperture \/ PrintAperture
    <3>1. /\ pc \in {"aperture", "printAperture"} /\ pc' \in {"printAperture", "exposure"}
          /\ \/ apertureMoves' = apertureMoves
             \/ /\ pc = "aperture"
                /\ apertureMoves' = IF apertureMoves < 2 THEN apertureMoves + 1 ELSE 2
      BY <2>4 DEF OpenAperture, MoveAperture, LeaveAperture, PrintAperture, apertureVars
    <3> QED BY <3>1 DEF MovesInv, ApertureMovesOncePerCommand, ToAperture, StartStages
  <2>5. CASE pc' \in PastAperture /\ UNCHANGED apertureVars
    BY <2>5 DEF MovesInv, ApertureMovesOncePerCommand, ToAperture, StartStages,
                PastAperture, apertureVars
  <2>6. CASE UNCHANGED <<pc, apertureVars>>
    BY <2>6 DEF MovesInv, ApertureMovesOncePerCommand, apertureVars
  <2>7. PeerClosed => UNCHANGED <<pc, apertureVars>>
    BY DEF vars
  <2> QED BY <2>1, <2>2, <2>3, <2>4, <2>5, <2>6, <2>7, ApertureSteps
<1>3. MovesInv => ApertureMovesOncePerCommand
  BY DEF MovesInv
<1> QED BY <1>1, <1>2, <1>3, PTL DEF Spec

=============================================================================
