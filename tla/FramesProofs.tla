---------------------------- MODULE FramesProofs ----------------------------
(***************************************************************************)
(* Frames keeps its images apart, for every number of buffers and images.  *)
(* The invariant follows the frames in flight: they are ordered by their   *)
(* triggers, and each of them is late by no more images than waits have    *)
(* missed since the acquisition started.                                   *)
(***************************************************************************)
EXTENDS Frames, FiniteSetTheorems, TLAPS

InFlight == exposing \union queue

\* No two frames of a trigger, and what has arrived is older than what has
\* not: the queue stays in the order of the triggers.
InOrder ==
  /\ \A f, g \in InFlight : f.at = g.at => f = g
  /\ \A f \in queue, g \in exposing : f.at < g.at

\* A restart empties the acquisition before the factor changes.
OfThisFactor == \A f \in InFlight : f.at <= metadataTv /\ f.bin = binning

\* The trigger of the image in hand has not been waited for yet.
Awaited == pc \in {"focusMeasure", "transfer"}

Backlog ==
  \A f \in InFlight : IF Awaited THEN metadataTv <= f.at + missed
                                 ELSE metadataTv < f.at + missed

FocusReady ==
  pc \in {"focusCapture", "focusMeasure"} =>
    camera = "streaming" /\ binning = FocusBinning /\ missed = 0 /\ held = 0

BinReady == pc = "bin" => camera = "streaming" /\ binning = 1

ClosedIsEmpty == camera = "closed" => InFlight = {}

IInv == /\ TypeOK
        /\ InOrder /\ OfThisFactor /\ Backlog
        /\ FocusReady /\ BinReady /\ ClosedIsEmpty /\ ReadyForImages
        /\ SharpnessOfItsImage /\ UnpackedAtItsSize

-----------------------------------------------------------------------------
\* Taking the oldest frame of the queue leaves the frames after it, which
\* are later images (Take).
LEMMA TakeFollows ==
  ASSUME TypeOK, InOrder, NEW f \in queue, NEW released \in BOOLEAN,
         Take(f, released), UNCHANGED exposing
  PROVE  /\ queue' \subseteq queue
         /\ held' \in Nat
         /\ missed' = missed
         /\ InOrder'
         /\ \A g \in InFlight' : g \in InFlight /\ f.at < g.at
<1>1. /\ queue' = queue \ {f} /\ exposing' = exposing
      /\ \A g \in queue : f.at <= g.at
  BY DEF Take, Oldest
<1>2. held' \in Nat
  BY DEF Take, TypeOK
<1>3. \A g \in InFlight' : g \in InFlight /\ f.at < g.at
  <2> SUFFICES ASSUME NEW g \in InFlight'
               PROVE  g \in InFlight /\ f.at < g.at
    OBVIOUS
  <2>1. g \in InFlight /\ (g \in exposing \/ (g \in queue /\ g # f))
    BY <1>1 DEF InFlight
  <2>2. f \in InFlight /\ f.at \in Nat /\ g.at \in Nat
    BY <2>1 DEF InFlight, TypeOK, Frame
  <2>3. CASE g \in exposing
    BY <2>1, <2>3 DEF InOrder
  <2>4. CASE g \in queue /\ g # f
    BY <1>1, <2>1, <2>2, <2>4 DEF InOrder
  <2> QED BY <2>1, <2>3, <2>4
<1>4. InOrder'
  BY <1>1 DEF InOrder, InFlight
<1> QED BY <1>1, <1>2, <1>3, <1>4 DEF Take

\* A trigger adds a frame younger than all the others (Trigger).
LEMMA TriggerFollows ==
  ASSUME IInv, NEW accepted \in BOOLEAN, Trigger(accepted), ~Awaited
  PROVE  /\ metadataTv' \in Nat
         /\ exposing' \subseteq Frame /\ queue' = queue
         /\ InOrder' /\ OfThisFactor' /\ ClosedIsEmpty'
         /\ \A f \in InFlight' : metadataTv' <= f.at + missed
<1> DEFINE new == [at |-> metadataTv + 1, bin |-> binning]
<1>1. /\ metadataTv' = metadataTv + 1 /\ metadataTv \in Nat
      /\ camera' = camera /\ binning' = binning
      /\ queue' = queue /\ missed' = missed /\ missed \in Nat
      /\ exposing' = IF accepted THEN exposing \union {new} ELSE exposing
      /\ accepted => camera = "streaming"
  BY DEF IInv, TypeOK, Trigger
<1>2. new \in Frame /\ new.at = metadataTv + 1 /\ new.bin = binning
  BY <1>1 DEF IInv, TypeOK, Frame, Factors
<1>3. exposing' \subseteq Frame
  BY <1>1, <1>2 DEF IInv, TypeOK
<1>4. \A f \in InFlight : /\ f.at \in Nat
                          /\ f.at <= metadataTv /\ f.bin = binning
                          /\ metadataTv < f.at + missed
  BY DEF IInv, TypeOK, Frame, OfThisFactor, Backlog, InFlight
<1>5. \A f \in InFlight' : f \in InFlight \/ f = new
  BY <1>1 DEF InFlight
<1>6. OfThisFactor'
  BY <1>1, <1>2, <1>4, <1>5 DEF OfThisFactor
<1>7. \A f \in InFlight' : metadataTv' <= f.at + missed
  BY <1>1, <1>2, <1>4, <1>5
<1>8. InOrder'
  <2>1. \A f, g \in InFlight' : f.at = g.at => f = g
    BY <1>1, <1>2, <1>4, <1>5 DEF IInv, InOrder
  <2>2. \A f \in queue', g \in exposing' : f.at < g.at
    BY <1>1, <1>2, <1>4 DEF IInv, InOrder, InFlight
  <2> QED BY <2>1, <2>2 DEF InOrder
<1>9. ClosedIsEmpty'
  BY <1>1 DEF IInv, ClosedIsEmpty, InFlight
<1> QED BY <1>1, <1>3, <1>6, <1>7, <1>8, <1>9

\* A restart or a closed camera has no frame in flight (Restart, CloseAndClean
\* and the last closeCamera).
LEMMA EmptyFollows ==
  ASSUME DropFrames
  PROVE  /\ exposing' = {} /\ queue' = {} /\ held' = 0
         /\ InOrder' /\ OfThisFactor' /\ Backlog' /\ ClosedIsEmpty'
BY DEF DropFrames, InOrder, OfThisFactor, Backlog, ClosedIsEmpty, InFlight

-----------------------------------------------------------------------------
\* The initial state satisfies the invariant (initCamera).
LEMMA InvInit == Init => IInv
<1> SUFFICES ASSUME Init PROVE IInv
  OBVIOUS
<1>1. TypeOK
  BY BinningAssumption DEF Init, TypeOK, Labels, Frame, Nothing, Factors
<1>2. InOrder /\ OfThisFactor /\ Backlog /\ ClosedIsEmpty
  BY DEF Init, InOrder, OfThisFactor, Backlog, ClosedIsEmpty, InFlight
<1>3. FocusReady /\ BinReady /\ ReadyForImages
  BY DEF Init, FocusReady, BinReady, ReadyForImages
<1>4. SharpnessOfItsImage /\ UnpackedAtItsSize
  BY DEF Init, SharpnessOfItsImage, UnpackedAtItsSize, Nothing
<1> QED BY <1>1, <1>2, <1>3, <1>4 DEF IInv

\* The camera's own steps keep it.
LEMMA CameraSteps == ASSUME IInv, Deliver \/ Lose PROVE IInv'
<1>1. /\ UNCHANGED <<pc, camera, binning, held, missed, metadataTv,
                     shuttingDown, unpacked>>
      /\ InFlight' \subseteq InFlight
  BY DEF Deliver, Lose, InFlight, Oldest
<1>2. TypeOK'
  BY <1>1 DEF IInv, TypeOK, Deliver, Lose, Oldest
<1>3. InOrder'
  <2>1. CASE Deliver
    <3>1. PICK f \in exposing : /\ \A g \in exposing : f.at <= g.at
                                /\ exposing' = exposing \ {f}
                                /\ queue' = queue \union {f}
      BY <2>1 DEF Deliver, Oldest
    <3>2. \A g \in exposing' : f.at < g.at
      <4> SUFFICES ASSUME NEW g \in exposing' PROVE f.at < g.at
        OBVIOUS
      <4>1. g \in exposing /\ g # f /\ f.at <= g.at
        BY <3>1
      <4>2. f.at # g.at
        BY <4>1 DEF IInv, InOrder, InFlight
      <4>3. f.at \in Nat /\ g.at \in Nat
        BY <4>1 DEF IInv, TypeOK, Frame
      <4> QED BY <4>1, <4>2, <4>3
    <3> QED BY <1>1, <3>1, <3>2 DEF IInv, InOrder
  <2>2. CASE Lose
    BY <1>1, <2>2 DEF IInv, InOrder, Lose
  <2> QED BY <2>1, <2>2
<1>4. OfThisFactor' /\ Backlog' /\ ClosedIsEmpty'
  BY <1>1 DEF IInv, OfThisFactor, Backlog, Awaited, ClosedIsEmpty
<1>5. FocusReady' /\ BinReady' /\ ReadyForImages'
  BY <1>1 DEF IInv, FocusReady, BinReady, ReadyForImages
<1>6. SharpnessOfItsImage' /\ UnpackedAtItsSize'
  BY <1>1 DEF IInv, SharpnessOfItsImage, UnpackedAtItsSize
<1> QED BY <1>2, <1>3, <1>4, <1>5, <1>6 DEF IInv

\* setBinningFactor keeps it, at the start of a run and at its end.
LEMMA BinningSteps == ASSUME IInv, FocusBin \/ FocusUnbin PROVE IInv'
<1>1. /\ metadataTv' = metadataTv /\ unpacked' = unpacked
      /\ pc \in {"bin", "unbin"} /\ pc' \in {"focusCapture", "capture"}
  BY DEF FocusBin, FocusUnbin
<1>2. SharpnessOfItsImage' /\ UnpackedAtItsSize'
  BY <1>1 DEF IInv, SharpnessOfItsImage, UnpackedAtItsSize
<1>3. CASE UNCHANGED <<stream, shuttingDown>> /\ pc = "bin" /\ pc' = "capture"
  <2>1. TypeOK'
    BY <1>1, <1>3 DEF IInv, TypeOK, stream, Labels
  <2>2. InOrder' /\ OfThisFactor' /\ Backlog' /\ ClosedIsEmpty'
    BY <1>1, <1>3 DEF IInv, stream, InOrder, OfThisFactor, Backlog, Awaited,
                      ClosedIsEmpty, InFlight
  <2>3. FocusReady' /\ BinReady' /\ ReadyForImages'
    BY <1>3 DEF IInv, stream, FocusReady, BinReady, ReadyForImages
  <2> QED BY <1>2, <2>1, <2>2, <2>3 DEF IInv
<1>4. ASSUME NEW factor \in Factors, Restart(factor),
             pc' = "focusCapture" => factor = FocusBinning,
             pc' = "capture" => factor = 1
      PROVE  IInv'
  <2>1. TypeOK'
    BY <1>1, <1>4 DEF IInv, TypeOK, Restart, DropFrames, Labels
  <2>2. InOrder' /\ OfThisFactor' /\ Backlog' /\ ClosedIsEmpty'
    BY <1>4, EmptyFollows DEF Restart
  <2>3. FocusReady' /\ BinReady' /\ ReadyForImages'
    BY <1>1, <1>4 DEF Restart, DropFrames, FocusReady, BinReady, ReadyForImages
  <2> QED BY <1>2, <2>1, <2>2, <2>3 DEF IInv
<1>5. CASE CloseAndClean /\ pc' = "capture"
  <2>1. TypeOK'
    BY <1>1, <1>5 DEF IInv, TypeOK, CloseAndClean, DropFrames, Labels
  <2>2. InOrder' /\ OfThisFactor' /\ Backlog' /\ ClosedIsEmpty'
    BY <1>5, EmptyFollows DEF CloseAndClean
  <2>3. FocusReady' /\ BinReady' /\ ReadyForImages'
    BY <1>5 DEF CloseAndClean, FocusReady, BinReady, ReadyForImages
  <2> QED BY <1>2, <2>1, <2>2, <2>3 DEF IInv
<1>6. CASE FocusBin
  <2>1. binning = 1
    BY <1>6 DEF FocusBin, IInv, BinReady
  <2>2. 1 \in Factors /\ FocusBinning \in Factors
    BY DEF Factors
  <2> QED BY <1>3, <1>4, <1>5, <1>6, <2>1, <2>2 DEF FocusBin
<1>7. CASE FocusUnbin
  <2>1. 1 \in Factors /\ pc' = "capture"
    BY <1>7 DEF Factors, FocusUnbin
  <2> QED BY <1>4, <1>5, <1>7, <2>1 DEF FocusUnbin, FailureIsFatal
<1> QED BY <1>6, <1>7

\* imageCapture keeps it, in a run and for an observing image.
LEMMA CaptureSteps == ASSUME IInv, FocusCapture \/ Capture PROVE IInv'
<1>1. PICK accepted \in BOOLEAN :
        /\ Trigger(accepted)
        /\ \/ /\ pc = "focusCapture"
              /\ pc' = IF accepted THEN "focusMeasure" ELSE "unbin"
           \/ pc = "capture" /\ pc' = "transfer"
  BY DEF FocusCapture, Capture, GivesUp
<1>2. /\ UNCHANGED <<camera, binning, queue, held, missed, shuttingDown,
                     unpacked>>
      /\ ~Awaited
  BY <1>1 DEF Trigger, Awaited
<1>3. /\ metadataTv' \in Nat
      /\ exposing' \subseteq Frame /\ queue' = queue
      /\ InOrder' /\ OfThisFactor' /\ ClosedIsEmpty'
      /\ \A f \in InFlight' : metadataTv' <= f.at + missed
  BY <1>1, <1>2, TriggerFollows
<1>4. TypeOK'
  BY <1>1, <1>2, <1>3 DEF IInv, TypeOK, Labels
<1>5. Backlog'
  <2>1. CASE pc' \in {"focusMeasure", "transfer"}
    BY <1>2, <1>3, <2>1 DEF Backlog, Awaited
  <2>2. CASE pc = "focusCapture" /\ ~accepted
    <3>1. InFlight' = InFlight /\ missed = 0
      BY <1>1, <1>2, <2>2 DEF Trigger, InFlight, IInv, FocusReady
    <3>2. \A f \in InFlight : /\ f.at \in Nat /\ metadataTv \in Nat
                              /\ f.at <= metadataTv
                              /\ metadataTv < f.at + missed
      BY <1>2 DEF IInv, TypeOK, Frame, OfThisFactor, Backlog, InFlight
    <3>3. InFlight = {}
      BY <3>1, <3>2
    <3> QED BY <3>1, <3>3 DEF Backlog
  <2> QED BY <1>1, <2>1, <2>2
<1>6. FocusReady' /\ BinReady' /\ ReadyForImages'
  BY <1>1, <1>2 DEF IInv, FocusReady, BinReady, ReadyForImages
<1>7. SharpnessOfItsImage' /\ UnpackedAtItsSize'
  BY <1>2 DEF IInv, SharpnessOfItsImage, UnpackedAtItsSize
<1> QED BY <1>3, <1>4, <1>5, <1>6, <1>7 DEF IInv

\* measureSharpness and imageTransfer keep it: a frame taken leaves later
\* ones behind, a wait without a frame makes every one later by an image.
LEMMA WaitSteps == ASSUME IInv, FocusMeasure \/ Transfer PROVE IInv'
<1>1. /\ UNCHANGED <<camera, binning, exposing, metadataTv, shuttingDown>>
      /\ \/ pc = "focusMeasure" /\ pc' \in {"focusCapture", "unbin"}
         \/ pc = "transfer" /\ pc' = "cycle"
      /\ Awaited /\ ~Awaited'
  BY DEF FocusMeasure, Transfer, Awaited, GivesUp
<1>2. \A f \in InFlight : /\ f \in Frame /\ f.at \in Nat
                          /\ metadataTv \in Nat /\ missed \in Nat
                          /\ f.at <= metadataTv /\ f.bin = binning
                          /\ metadataTv <= f.at + missed
  BY <1>1 DEF IInv, TypeOK, Frame, OfThisFactor, Backlog, InFlight
<1>3. CASE NoFrame /\ pc' # "focusCapture"
  <2>1. /\ UNCHANGED <<queue, held, unpacked>> /\ missed' = missed + 1
        /\ InFlight' = InFlight
    BY <1>1, <1>3 DEF NoFrame, InFlight
  <2>2. TypeOK'
    BY <1>1, <2>1 DEF IInv, TypeOK, Labels
  <2>3. InOrder' /\ OfThisFactor' /\ ClosedIsEmpty'
    BY <1>1, <2>1 DEF IInv, InOrder, OfThisFactor, ClosedIsEmpty
  <2>4. Backlog'
    BY <1>1, <1>2, <2>1 DEF Backlog
  <2>5. FocusReady' /\ BinReady' /\ ReadyForImages'
    BY <1>1, <1>3 DEF IInv, FocusReady, BinReady, ReadyForImages
  <2>6. SharpnessOfItsImage' /\ UnpackedAtItsSize'
    BY <2>1 DEF IInv, SharpnessOfItsImage, UnpackedAtItsSize
  <2> QED BY <2>2, <2>3, <2>4, <2>5, <2>6 DEF IInv
<1>4. ASSUME NEW f \in queue, NEW released \in BOOLEAN, Take(f, released),
             \/ UNCHANGED unpacked
             \/ pc = "focusMeasure" /\ Unpack(f, "focus")
             \/ pc = "transfer" /\ Unpack(f, "observe"),
             pc' = "focusCapture" => released
      PROVE  IInv'
  <2>1. /\ queue' \subseteq queue /\ held' \in Nat /\ missed' = missed
        /\ InOrder'
        /\ \A g \in InFlight' : g \in InFlight /\ f.at < g.at
    BY <1>1, <1>4, TakeFollows DEF IInv
  <2>2. f \in InFlight
    BY <1>4 DEF InFlight
  <2>3. Backlog'
    <3> SUFFICES ASSUME NEW g \in InFlight' PROVE metadataTv < g.at + missed
      BY <1>1, <2>1 DEF Backlog
    <3>1. g \in InFlight /\ f.at < g.at
      BY <2>1
    <3> QED BY <1>2, <2>2, <3>1
  <2>4. OfThisFactor' /\ ClosedIsEmpty'
    BY <1>1, <1>2, <2>1 DEF IInv, OfThisFactor, ClosedIsEmpty, InFlight
  <2>5. FocusReady' /\ BinReady' /\ ReadyForImages'
    <3>1. pc' = "focusCapture" => held' = held
      BY <1>4 DEF Take
    <3> QED BY <1>1, <2>1, <3>1 DEF IInv, FocusReady, BinReady, ReadyForImages
  <2>6. /\ unpacked' \in [use : {"none", "observe", "focus"}, at : Nat,
                           bin : Factors, stamp : Nat]
        /\ SharpnessOfItsImage' /\ UnpackedAtItsSize'
    <3>1. CASE UNCHANGED unpacked
      BY <3>1 DEF IInv, TypeOK, SharpnessOfItsImage, UnpackedAtItsSize
    <3>2. CASE pc = "focusMeasure" /\ Unpack(f, "focus")
      <4>1. f.at = metadataTv /\ f.bin = FocusBinning
        BY <1>2, <2>2, <3>2 DEF IInv, FocusReady
      <4> QED BY <1>2, <2>2, <3>2, <4>1 DEF Unpack, Factors,
                SharpnessOfItsImage, UnpackedAtItsSize
    <3>3. CASE pc = "transfer" /\ Unpack(f, "observe")
      <4>1. f.bin = 1
        BY <1>2, <2>2, <3>3 DEF IInv, TypeOK, ReadyForImages, ClosedIsEmpty
      <4> QED BY <1>2, <2>2, <3>3, <4>1 DEF Unpack, Factors,
                SharpnessOfItsImage, UnpackedAtItsSize
    <3> QED BY <1>4, <3>1, <3>2, <3>3
  <2>7. TypeOK'
    BY <1>1, <2>1, <2>6 DEF IInv, TypeOK, Labels
  <2> QED BY <2>1, <2>3, <2>4, <2>5, <2>6, <2>7 DEF IInv
<1> QED BY <1>1, <1>3, <1>4 DEF FocusMeasure, Transfer, GivesUp

\* The steps that leave the frames alone keep it, and so does the last
\* closeCamera.
LEMMA OtherSteps ==
  ASSUME IInv, FocusLoopEnds \/ Cycle \/ CloseCamera \/ Clean \/ UNCHANGED vars
  PROVE  IInv'
<1>1. UNCHANGED <<metadataTv, unpacked, binning, missed>>
  BY DEF FocusLoopEnds, Cycle, CloseCamera, Clean, vars, stream
<1>2. SharpnessOfItsImage' /\ UnpackedAtItsSize'
  BY <1>1 DEF IInv, SharpnessOfItsImage, UnpackedAtItsSize
<1>3. CASE CloseCamera
  <2>1. TypeOK'
    BY <1>1, <1>3 DEF IInv, TypeOK, CloseCamera, DropFrames, Labels
  <2>2. InOrder' /\ OfThisFactor' /\ Backlog' /\ ClosedIsEmpty'
    BY <1>3, EmptyFollows DEF CloseCamera
  <2>3. FocusReady' /\ BinReady' /\ ReadyForImages'
    BY <1>3 DEF CloseCamera, FocusReady, BinReady, ReadyForImages
  <2> QED BY <1>2, <2>1, <2>2, <2>3 DEF IInv
<1>4. CASE FocusLoopEnds \/ Cycle \/ Clean \/ UNCHANGED vars
  <2>1. /\ UNCHANGED stream
        /\ Awaited' = Awaited
        /\ \/ pc' = pc \/ pc' \in {"unbin", "ended"}
           \/ pc = "cycle" /\ shuttingDown = 0 /\ pc' \in {"bin", "capture"}
        /\ shuttingDown' \in {shuttingDown, 1}
    BY <1>4 DEF FocusLoopEnds, Cycle, Clean, vars, Awaited, IInv, TypeOK
  <2>2. TypeOK'
    BY <1>1, <2>1 DEF IInv, TypeOK, stream, Labels
  <2>3. InOrder' /\ OfThisFactor' /\ Backlog' /\ ClosedIsEmpty'
    BY <1>1, <2>1 DEF IInv, stream, InOrder, OfThisFactor, Backlog,
                      ClosedIsEmpty, InFlight
  <2>4. FocusReady' /\ BinReady' /\ ReadyForImages'
    BY <2>1 DEF IInv, TypeOK, stream, FocusReady, BinReady, ReadyForImages
  <2> QED BY <1>2, <2>2, <2>3, <2>4 DEF IInv
<1> QED BY <1>3, <1>4

\* Every step keeps the invariant.
LEMMA InvNext == IInv /\ [Next]_vars => IInv'
BY CameraSteps, BinningSteps, CaptureSteps, WaitSteps, OtherSteps
   DEF Next, FocusRun

\* The invariant holds in every state of Frames.
THEOREM FramesInvariant == Spec => []IInv
BY InvInit, InvNext, PTL DEF Spec

\* The variables have their types, whatever the camera refuses or loses.
THEOREM FramesTypeCorrect == Spec => []TypeOK
BY FramesInvariant, PTL DEF IInv

\* The sharpness of a focus position is never that of another position's
\* image (measureSharpness).
THEOREM SharpnessIsCurrent == Spec => []SharpnessOfItsImage
BY FramesInvariant, PTL DEF IInv

\* No frame is unpacked at the size of another binning factor
\* (imageTransfer, measureSharpness).
THEOREM SizesAgree == Spec => []UnpackedAtItsSize
BY FramesInvariant, PTL DEF IInv

\* Outside a focus run the camera streams at binning 1 or the program is
\* shutting down (setBinningFactor, restoreBinningFactor).
THEOREM CameraReady == Spec => []ReadyForImages
BY FramesInvariant, PTL DEF IInv

\* An observing image is late by at most the waits missed since the
\* acquisition started (imageTransfer).
THEOREM LagIsBounded == Spec => LagBounded
<1>1. IInv /\ [Next]_vars =>
        [Unpacks("observe") => unpacked'.stamp <= unpacked'.at + missed]_vars
  <2> SUFFICES ASSUME IInv, Next, Unpacks("observe")
               PROVE  unpacked'.stamp <= unpacked'.at + missed
    OBVIOUS
  <2>1. FocusMeasure \/ Transfer
    BY DEF Unpacks, Next, Deliver, Lose, FocusRun, FocusBin, FocusCapture,
           FocusLoopEnds, FocusUnbin, Cycle, Capture, Trigger, CloseCamera,
           Clean
  <2>2. PICK f \in queue : Unpack(f, "observe") /\ Awaited
    <3>1. CASE FocusMeasure
      <4>1. UNCHANGED unpacked \/ \E f \in queue : Unpack(f, "focus")
        BY <3>1 DEF FocusMeasure, NoFrame
      <4>2. unpacked' = unpacked \/ unpacked'.use = "focus"
        BY <4>1 DEF Unpack
      <4> QED BY <4>2 DEF Unpacks
    <3>2. CASE Transfer
      BY <3>2 DEF Transfer, Unpacks, NoFrame, Awaited
    <3> QED BY <2>1, <3>1, <3>2
  <2>3. metadataTv <= f.at + missed
    BY <2>2 DEF IInv, Backlog, InFlight
  <2> QED BY <2>2, <2>3 DEF Unpack
<1> QED BY <1>1, FramesInvariant, PTL DEF Spec, LagBounded
-----------------------------------------------------------------------------
(***************************************************************************)
(* Each frame is unpacked once, and in the order of the triggers.          *)
(***************************************************************************)
\* What is in flight is younger than what was unpacked last.
AfterUnpacked ==
  /\ unpacked.at <= metadataTv
  /\ \A f \in InFlight : unpacked.at < f.at

\* A frame is unpacked at most once, and after every frame of an earlier
\* trigger, however images are lost and the acquisition restarted: no sky is
\* solved twice, no solution goes back in time.
UnpacksLater == unpacked' # unpacked => unpacked.at < unpacked'.at

LEMMA AfterUnpackedInit == Init => AfterUnpacked
BY DEF Init, AfterUnpacked, InFlight, Nothing

\* Every step keeps the order, and unpacks a later frame or none.
LEMMA AfterUnpackedNext ==
  ASSUME IInv, AfterUnpacked, [Next]_vars
  PROVE  AfterUnpacked' /\ UnpacksLater
<1>1. /\ unpacked.at \in Nat /\ metadataTv \in Nat
      /\ \A f \in InFlight : f.at \in Nat /\ f.at <= metadataTv
  BY DEF IInv, TypeOK, Frame, OfThisFactor, InFlight
<1>2. CASE Deliver \/ Lose
  <2>1. UNCHANGED <<metadataTv, unpacked>> /\ InFlight' \subseteq InFlight
    BY <1>2 DEF Deliver, Lose, InFlight, Oldest
  <2> QED BY <2>1 DEF AfterUnpacked, UnpacksLater
<1>3. CASE FocusBin \/ FocusUnbin \/ CloseCamera
  <2>1. UNCHANGED <<metadataTv, unpacked>> /\ InFlight' \subseteq InFlight
    BY <1>3 DEF FocusBin, FocusUnbin, CloseCamera, Restart, CloseAndClean,
                FailureIsFatal, DropFrames, stream, InFlight
  <2> QED BY <2>1 DEF AfterUnpacked, UnpacksLater
<1>4. CASE FocusCapture \/ Capture
  <2>1. /\ metadataTv' = metadataTv + 1 /\ unpacked' = unpacked
        /\ \A f \in InFlight' : f \in InFlight \/ f.at = metadataTv + 1
    BY <1>4 DEF FocusCapture, Capture, Trigger, InFlight
  <2> QED BY <1>1, <2>1 DEF AfterUnpacked, UnpacksLater
<1>5. CASE FocusMeasure \/ Transfer
  <2>1. UNCHANGED <<exposing, metadataTv>>
    BY <1>5 DEF FocusMeasure, Transfer
  <2>2. CASE UNCHANGED <<queue, unpacked>>
    BY <2>1, <2>2 DEF AfterUnpacked, UnpacksLater, InFlight
  <2>3. ASSUME NEW f \in queue, NEW released \in BOOLEAN, Take(f, released),
               \/ UNCHANGED unpacked
               \/ \E use \in {"focus", "observe"} : Unpack(f, use)
        PROVE  AfterUnpacked' /\ UnpacksLater
    <3>1. \A g \in InFlight' : g \in InFlight /\ f.at < g.at
      BY <2>1, <2>3, TakeFollows DEF IInv
    <3>2. f \in InFlight
      BY <2>3 DEF InFlight
    <3>3. unpacked' = unpacked \/ unpacked'.at = f.at
      BY <2>3 DEF Unpack
    <3> QED BY <1>1, <2>1, <3>1, <3>2, <3>3 DEF AfterUnpacked, UnpacksLater
  <2> QED BY <1>5, <2>2, <2>3 DEF FocusMeasure, Transfer, NoFrame
<1>6. CASE FocusLoopEnds \/ Cycle \/ Clean \/ UNCHANGED vars
  <2>1. UNCHANGED <<metadataTv, unpacked, exposing, queue>>
    BY <1>6 DEF FocusLoopEnds, Cycle, Clean, vars, stream
  <2> QED BY <2>1 DEF AfterUnpacked, UnpacksLater, InFlight
<1> QED BY <1>2, <1>3, <1>4, <1>5, <1>6 DEF Next, FocusRun

\* Images are unpacked in the order of their triggers, each at most once
\* (imageTransfer, measureSharpness).
THEOREM ImagesInOrder == Spec => [][UnpacksLater]_vars
<1>1. AfterUnpacked /\ IInv /\ [Next]_vars => AfterUnpacked' /\ [UnpacksLater]_vars
  BY AfterUnpackedNext
<1> QED BY <1>1, AfterUnpackedInit, FramesInvariant, PTL DEF Spec

-----------------------------------------------------------------------------
(***************************************************************************)
(* The buffers.                                                            *)
(***************************************************************************)
\* Every buffer that is not free holds a frame in the queue or one that was
\* not given back, and each of them has cost an image: there are no more of
\* them than buffers, nor, with the frames still exposing, than images.
BuffersAccounted ==
  /\ Cardinality(queue) + held <= Buffers
  /\ Cardinality(queue) + Cardinality(exposing) + held <= metadataTv

FiniteFrames == IsFiniteSet(exposing) /\ IsFiniteSet(queue)
BuffersInv == FiniteFrames /\ BuffersAccounted

LEMMA BuffersInit == Init => BuffersInv
BY FS_EmptySet, BuffersAssumption DEF Init, BuffersInv, FiniteFrames, BuffersAccounted

\* One frame fewer in a set of frames, and one more.
LEMMA CountOfFrames ==
  ASSUME NEW S, IsFiniteSet(S), NEW f
  PROVE  /\ Cardinality(S) \in Nat
         /\ IsFiniteSet(S \ {f}) /\ IsFiniteSet(S \union {f})
         /\ f \in S => Cardinality(S \ {f}) = Cardinality(S) - 1
         /\ Cardinality(S \ {f}) \in Nat /\ Cardinality(S \ {f}) <= Cardinality(S)
         /\ Cardinality(S \union {f}) <= Cardinality(S) + 1
<1>1. /\ Cardinality(S) \in Nat /\ IsFiniteSet(S \ {f}) /\ IsFiniteSet(S \union {f})
      /\ Cardinality(S \ {f}) \in Nat
  BY FS_CardinalityType, FS_RemoveElement, FS_AddElement
<1>2. Cardinality(S \ {f}) = IF f \in S THEN Cardinality(S) - 1 ELSE Cardinality(S)
  BY FS_RemoveElement
<1>3. Cardinality(S \union {f}) = IF f \in S THEN Cardinality(S) ELSE Cardinality(S) + 1
  BY FS_AddElement
<1> QED BY ONLY <1>1, <1>2, <1>3

LEMMA BuffersNext == ASSUME IInv, BuffersInv, [Next]_vars PROVE BuffersInv'
<1> DEFINE q == Cardinality(queue)
           e == Cardinality(exposing)
<1>1. /\ IsFiniteSet(exposing) /\ IsFiniteSet(queue)
      /\ q + held <= Buffers /\ q + e + held <= metadataTv
      /\ held \in Nat /\ metadataTv \in Nat /\ Buffers \in Nat
  BY BuffersAssumption DEF IInv, TypeOK, BuffersInv, FiniteFrames, BuffersAccounted
<1>2. q \in Nat /\ e \in Nat
  BY <1>1, CountOfFrames
<1>3. CASE Deliver
  <2>1. PICK f \in exposing : /\ exposing' = exposing \ {f} /\ queue' = queue \union {f}
                              /\ q + held < Buffers /\ UNCHANGED <<held, metadataTv>>
    BY <1>3 DEF Deliver, FreeBuffer
  <2>2. /\ IsFiniteSet(exposing') /\ IsFiniteSet(queue')
        /\ Cardinality(exposing') = e - 1 /\ Cardinality(queue') <= q + 1
        /\ Cardinality(queue') \in Nat
    <3>1. IsFiniteSet(exposing') /\ Cardinality(exposing') = e - 1
      BY <1>1, <2>1, CountOfFrames
    <3>2. IsFiniteSet(queue') /\ Cardinality(queue') <= q + 1
      BY <1>1, <2>1, CountOfFrames
    <3>3. Cardinality(queue') \in Nat
      BY <3>2, FS_CardinalityType
    <3> QED BY <3>1, <3>2, <3>3
  <2> HIDE DEF q, e
  <2> QED BY <1>1, <1>2, <2>1, <2>2 DEF BuffersInv, FiniteFrames, BuffersAccounted
<1>4. CASE Lose
  <2>1. PICK f \in exposing : exposing' = exposing \ {f} /\ UNCHANGED <<queue, held, metadataTv>>
    BY <1>4 DEF Lose
  <2>2. IsFiniteSet(exposing') /\ Cardinality(exposing') = e - 1
    BY <1>1, <2>1, CountOfFrames
  <2>3. Cardinality(queue') = q
    BY <2>1
  <2> HIDE DEF q, e
  <2> QED BY <1>1, <1>2, <2>1, <2>2, <2>3 DEF BuffersInv, FiniteFrames, BuffersAccounted
<1>5. CASE DropFrames /\ metadataTv' = metadataTv
  <2>1. exposing' = {} /\ queue' = {} /\ held' = 0
    BY <1>5 DEF DropFrames
  <2>2. IsFiniteSet({}) /\ Cardinality({}) = 0
    BY FS_EmptySet
  <2> QED BY <1>1, <1>5, <2>1, <2>2 DEF BuffersInv, FiniteFrames, BuffersAccounted
<1>6. CASE UNCHANGED <<exposing, queue, held, metadataTv>>
  BY <1>6 DEF BuffersInv, FiniteFrames, BuffersAccounted
<1>7. CASE FocusBin \/ FocusUnbin \/ CloseCamera
  BY <1>5, <1>6, <1>7 DEF FocusBin, FocusUnbin, CloseCamera, Restart, CloseAndClean,
                          FailureIsFatal, stream
<1>8. CASE FocusCapture \/ Capture
  <2> DEFINE f == [at |-> metadataTv', bin |-> binning]
  <2>1. /\ exposing' = exposing \/ exposing' = exposing \union {f}
        /\ metadataTv' = metadataTv + 1 /\ UNCHANGED <<queue, held>>
    BY <1>8 DEF FocusCapture, Capture, Trigger
  <2> HIDE DEF f
  <2>2. /\ IsFiniteSet(exposing') /\ Cardinality(exposing') <= e + 1
        /\ Cardinality(exposing') \in Nat
    <3>1. IsFiniteSet(exposing \union {f}) /\ Cardinality(exposing \union {f}) <= e + 1
      BY <1>1, CountOfFrames
    <3>2. IsFiniteSet(exposing') /\ Cardinality(exposing') <= e + 1
      BY <1>1, <1>2, <2>1, <3>1
    <3> QED BY <3>2, FS_CardinalityType
  <2>3. Cardinality(queue') = q
    BY <2>1
  <2> HIDE DEF q, e
  <2> QED BY <1>1, <1>2, <2>1, <2>2, <2>3 DEF BuffersInv, FiniteFrames, BuffersAccounted
<1>9. CASE FocusMeasure \/ Transfer
  <2>1. UNCHANGED <<exposing, metadataTv>>
    BY <1>9 DEF FocusMeasure, Transfer
  <2>2. CASE UNCHANGED <<queue, held>>
    BY <1>6, <2>1, <2>2
  <2>3. ASSUME NEW f \in queue, NEW released \in BOOLEAN, Take(f, released)
        PROVE  BuffersInv'
    <3>1. queue' = queue \ {f} /\ (held' = held \/ held' = held + 1)
      BY <2>3 DEF Take
    <3>2. IsFiniteSet(queue') /\ Cardinality(queue') = q - 1
      BY <1>1, <3>1, CountOfFrames
    <3>3. IsFiniteSet(exposing') /\ Cardinality(exposing') = e /\ metadataTv' = metadataTv
      BY <1>1, <2>1
    <3> HIDE DEF q, e
    <3>4. q - 1 + held' <= Buffers /\ q - 1 + e + held' <= metadataTv
      BY ONLY <1>1, <1>2, <3>1
    <3> QED BY ONLY <3>2, <3>3, <3>4 DEF BuffersInv, FiniteFrames, BuffersAccounted
  <2> QED BY <1>9, <2>2, <2>3 DEF FocusMeasure, Transfer, NoFrame
<1>10. CASE FocusLoopEnds \/ Cycle \/ Clean \/ UNCHANGED vars
  BY <1>6, <1>10 DEF FocusLoopEnds, Cycle, Clean, vars, stream
<1> QED BY <1>3, <1>4, <1>7, <1>8, <1>9, <1>10 DEF Next, FocusRun

\* However many frames are never released, they and those waiting fill no
\* more than the buffers there are, and each is an image of its own: the
\* acquisition is only stuck after as many images as it has buffers
\* (imageTransfer, measureSharpness).
THEOREM BuffersAreAccounted == Spec => []BuffersAccounted
<1>1. BuffersInv => BuffersAccounted
  BY DEF BuffersInv
<1>2. IInv /\ BuffersInv /\ [Next]_vars => BuffersInv'
  BY BuffersNext
<1> QED BY <1>1, <1>2, BuffersInit, FramesInvariant, PTL DEF Spec

=============================================================================
