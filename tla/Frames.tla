------------------------------- MODULE Frames -------------------------------
(***************************************************************************)
(* The frames between the camera and the Astrometry thread: imageCapture   *)
(* triggers one and notes the time, imageTransfer (an observing image) or  *)
(* measureSharpness (a focus image) waits for one, and setBinningFactor    *)
(* stops and restarts the acquisition that holds them.  Nothing in the     *)
(* code ties a frame to its trigger: the wait takes the oldest frame there *)
(* is.  The camera (external) delivers late, loses frames, or refuses any  *)
(* call; it drops a frame that finds no free buffer.                       *)
(***************************************************************************)
EXTENDS Integers, FiniteSets

CONSTANTS
  Buffers,      \* frame buffers peak_Acquisition_Start allocates
  FocusBinning, \* CAMERA_FOCUS_BINFACTOR, 4 in the code
  MaxImages     \* bound: images triggered

ASSUME BuffersAssumption == Buffers \in Nat \ {0}
ASSUME BinningAssumption == FocusBinning \in Nat /\ FocusBinning > 1
ASSUME ImagesAssumption  == MaxImages \in Nat

VARIABLES
  pc,           \* where the Astrometry thread is
  camera,       \* "streaming", or "closed" by closeCamera
  binning,      \* the camera's binning factor
  metadataTv,   \* the time of the last trigger: its number
  exposing,     \* frames triggered and not yet delivered
  queue,        \* frames delivered and not yet taken
  held,         \* frames taken whose buffer was not given back
  shuttingDown, \* shutting_down
  unpacked,     \* what unpacked_image holds: the frame, its use, its stamp
  missed        \* history: waits without a frame since the last start

stream == <<camera, binning, exposing, queue, held, missed>>
vars   == <<pc, stream, metadataTv, shuttingDown, unpacked>>

Frame == [at : Nat, bin : {1, FocusBinning}]

Labels == {"cycle", "bin", "focusCapture", "focusMeasure", "unbin",
           "capture", "transfer", "ended", "exited"}

Nothing == [use |-> "none", at |-> 0, bin |-> 1, stamp |-> 0]

\* initCamera has reset the camera and started the acquisition.
Init ==
  /\ pc = "cycle"
  /\ camera = "streaming" /\ binning = 1
  /\ metadataTv = 0
  /\ exposing = {} /\ queue = {} /\ held = 0
  /\ shuttingDown = 0
  /\ unpacked = Nothing
  /\ missed = 0

-----------------------------------------------------------------------------
(***************************************************************************)
(* The camera.                                                             *)
(***************************************************************************)
Oldest(f, frames) == f \in frames /\ \A g \in frames : f.at <= g.at

FreeBuffer == Cardinality(queue) + held < Buffers

\* A frame ends its exposure and arrives, or is lost on the way ...
Deliver ==
  /\ \E f \in exposing :
       /\ Oldest(f, exposing)
       /\ exposing' = exposing \ {f}
       /\ FreeBuffer
       /\ queue' = queue \union {f}
  /\ UNCHANGED <<pc, camera, binning, held, missed, metadataTv, shuttingDown,
                 unpacked>>

\* ... for want of a buffer or otherwise.
Lose ==
  /\ \E f \in exposing : exposing' = exposing \ {f}
  /\ UNCHANGED <<pc, camera, binning, queue, held, missed, metadataTv,
                 shuttingDown, unpacked>>

\* Stopping the acquisition drops all its frames and buffers.
KeepFrames == UNCHANGED <<exposing, queue, held>>
DropFrames == exposing' = {} /\ queue' = {} /\ held' = 0

Restart(factor) ==
  /\ camera' = "streaming" /\ binning' = factor
  /\ DropFrames /\ missed' = 0
  /\ UNCHANGED shuttingDown

-----------------------------------------------------------------------------
(***************************************************************************)
(* Taking an image: gettimeofday, then the trigger, which may be refused.  *)
(***************************************************************************)
Trigger(accepted) ==
  /\ metadataTv < MaxImages
  /\ metadataTv' = metadataTv + 1
  /\ accepted => camera = "streaming"
  /\ exposing' = IF accepted
                 THEN exposing \union {[at |-> metadataTv', bin |-> binning]}
                 ELSE exposing
  /\ UNCHANGED <<camera, binning, queue, held, missed, shuttingDown, unpacked>>

\* peak_Acquisition_WaitForFrame times out, is aborted or fails.
NoFrame ==
  /\ missed' = missed + 1
  /\ UNCHANGED <<queue, held, unpacked>>

\* It gives a frame, which is released unless a call on it fails.
TakeReleasedTwice(f, released) ==
  /\ Oldest(f, queue)
  /\ queue' = queue \ {f}
  /\ held' = IF released THEN held - 1 ELSE held
  /\ UNCHANGED missed

Take(f, released) ==
  /\ Oldest(f, queue)
  /\ queue' = queue \ {f}
  /\ held' = IF released THEN held ELSE held + 1
  /\ UNCHANGED missed

\* stamp is the last trigger: the time recorded for an observing image, the
\* focus position a sharpness is noted for.
Unpack(f, use) ==
  unpacked' = [use |-> use, at |-> f.at, bin |-> f.bin, stamp |-> metadataTv]

-----------------------------------------------------------------------------
(***************************************************************************)
(* The auto-focus run, as the camera sees it.                              *)
(***************************************************************************)

\* closeCamera() and clean().
CloseWithoutClean ==
  /\ camera' = "closed"
  /\ DropFrames /\ missed' = 0
  /\ UNCHANGED <<binning, shuttingDown>>

CloseAndClean ==
  /\ camera' = "closed"
  /\ DropFrames /\ missed' = 0
  /\ shuttingDown' = 1
  /\ UNCHANGED binning

\* setBinningFactor(4) fails at the stop, which leaves the frames alone, at
\* the factor, or at the new start, which closes the camera.
FocusBin ==
  /\ pc = "bin"
  /\ \/ Restart(FocusBinning) /\ pc' = "focusCapture"
     \/ /\ UNCHANGED <<stream, shuttingDown>> \/ Restart(binning)
             \/ CloseAndClean
        /\ pc' = "capture"
  /\ UNCHANGED <<metadataTv, unpacked>>

\* An image that cannot be triggered or measured ends the run.
GoesOn == "focusCapture"
GivesUp == "unbin"

FocusCapture ==
  /\ pc = "focusCapture"
  /\ \E accepted \in BOOLEAN :
       /\ Trigger(accepted)
       /\ pc' = IF accepted THEN "focusMeasure" ELSE GivesUp

\* Every failure after the wait still tries to release the frame.
FocusMeasure ==
  /\ pc = "focusMeasure"
  /\ \/ NoFrame /\ pc' = GivesUp
     \/ \E f \in queue, released \in BOOLEAN :
          /\ Take(f, released)
          /\ \/ UNCHANGED unpacked /\ pc' = GivesUp
             \/ /\ Unpack(f, "focus")
                /\ pc' = IF released THEN "focusCapture" ELSE GivesUp
  /\ UNCHANGED <<camera, binning, exposing, metadataTv, shuttingDown>>

\* The loop has come to its end, or was cancelled.
FocusLoopEnds ==
  /\ pc = "focusCapture"
  /\ pc' = "unbin"
  /\ UNCHANGED <<stream, metadataTv, shuttingDown, unpacked>>

\* restoreBinningFactor(); a failure, at the stop as well, is fatal.
FailureIgnored == UNCHANGED <<stream, shuttingDown>>
FailureIsFatal == CloseAndClean

FocusUnbin ==
  /\ pc = "unbin"
  /\ Restart(1) \/ FailureIsFatal
  /\ pc' = "capture"
  /\ UNCHANGED <<metadataTv, unpacked>>

FocusRun == FocusBin \/ FocusCapture \/ FocusMeasure \/ FocusLoopEnds
              \/ FocusUnbin

-----------------------------------------------------------------------------
(***************************************************************************)
(* The observing cycle.                                                    *)
(***************************************************************************)
Cycle ==
  /\ pc = "cycle"
  /\ IF shuttingDown = 1 THEN pc' = "ended"
     ELSE pc' \in {"bin", "capture"}
  /\ UNCHANGED <<stream, metadataTv, shuttingDown, unpacked>>

\* The failure of imageCapture is reported, and the transfer tried anyway.
Capture ==
  /\ pc = "capture"
  /\ \E accepted \in BOOLEAN : Trigger(accepted)
  /\ pc' = "transfer"

\* A frame whose buffer cannot be got is not released.
Transfer ==
  /\ pc = "transfer"
  /\ \/ NoFrame
     \/ \E f \in queue :
          \/ Take(f, FALSE) /\ UNCHANGED unpacked
          \/ \E released \in BOOLEAN :
               Take(f, released) /\ Unpack(f, "observe")
  /\ pc' = "cycle"
  /\ UNCHANGED <<camera, binning, exposing, metadataTv, shuttingDown>>

\* main has joined the thread.
CloseCamera ==
  /\ pc = "ended"
  /\ camera' = "closed"
  /\ DropFrames
  /\ pc' = "exited"
  /\ UNCHANGED <<binning, missed, metadataTv, shuttingDown, unpacked>>

\* The signal handler.
Clean ==
  /\ shuttingDown' = 1
  /\ UNCHANGED <<pc, stream, metadataTv, unpacked>>

Next == Deliver \/ Lose \/ FocusRun \/ Cycle \/ Capture \/ Transfer
          \/ CloseCamera \/ Clean

Spec == Init /\ [][Next]_vars

-----------------------------------------------------------------------------
(***************************************************************************)
(* Properties.                                                             *)
(***************************************************************************)
Factors == {1, FocusBinning}

TypeOK ==
  /\ pc \in Labels
  /\ camera \in {"streaming", "closed"} /\ binning \in Factors
  /\ metadataTv \in Nat
  /\ exposing \subseteq Frame /\ queue \subseteq Frame
  /\ held \in Nat
  /\ shuttingDown \in {0, 1}
  /\ unpacked \in [use : {"none", "observe", "focus"}, at : Nat,
                   bin : Factors, stamp : Nat]
  /\ missed \in Nat

\* A frame is unpacked as many images too late as waits have ended without
\* one since the acquisition started, and no more: refused triggers, frames
\* lost, buffers that cannot be read or released do not shift the images any
\* further against the times they are stamped with.
Unpacks(use) == unpacked' # unpacked /\ unpacked'.use = use

LagBounded ==
  [][Unpacks("observe") => unpacked'.stamp <= unpacked'.at + missed]_vars

\* The sharpness of an auto-focus image is that of the image triggered at the
\* current focus position, never of an earlier one: the run starts from an
\* empty acquisition, and whatever could leave a frame behind ends it.
SharpnessOfItsImage ==
  unpacked.use = "focus" => unpacked.at = unpacked.stamp

\* The images are unpacked at the size they have ("focusing ROI in
\* measureSharpness depends on correct binning factor"): imageTransfer reads
\* all the pixels of the sensor, so it never meets a frame of a focus run.
UnpackedAtItsSize ==
  /\ unpacked.use = "observe" => unpacked.bin = 1
  /\ unpacked.use = "focus" => unpacked.bin = FocusBinning

\* Between two focus runs the camera streams at full resolution, unless it
\* was lost, and then the program is on its way to the end.  The images of a
\* focus run are taken at its binning with all the buffers: the observing
\* images before it leave no unreleased frame behind, and a frame it cannot
\* release itself ends it, so buffers only ever leak until the next run.
ReadyForImages ==
  /\ pc \in {"cycle", "capture", "transfer"} =>
       \/ camera = "streaming" /\ binning = 1
       \/ camera = "closed" /\ shuttingDown = 1
  /\ pc \in {"focusCapture", "focusMeasure"} =>
       camera = "streaming" /\ binning = FocusBinning /\ held = 0
=============================================================================
