----------------------------- MODULE Commanding -----------------------------
(***************************************************************************)
(* The threads of the star camera that share the command, focus and        *)
(* exposure flags, all of them plain C globals that no mutex protects:     *)
(*                                                                         *)
(*   - one processClient thread per TCP client        (commands.c)         *)
(*   - one listen_thread per flight computer          (sc_listen.c)        *)
(*   - the trigger_threads, one action here           (sc_listen.c)        *)
(*   - the Astrometry thread: updateAstrometry, which runs                 *)
(*     doCameraAndAstrometry and, inside it, doContrastDetectAutoFocus     *)
(*                                              (commands.c and camera.c)  *)
(*                                                                         *)
(* A commander (a client or a listener) executes one command at a time in  *)
(* its command section, from the write of command_lock = 1 to the write of *)
(* command_lock = 0.  Each action reads or writes a flag once, so every    *)
(* order in which the threads can meet is a behaviour.  Lens positions,    *)
(* packet payloads and the image itself are abstracted away.               *)
(***************************************************************************)
EXTENDS Integers

CONSTANTS
  Clients,      \* slots for TCP clients, each served by a processClient thread
  Listeners,    \* flight computers, each served by a listen_thread
  Packets,      \* the UDP command packets that in-charge computers send
  MaxFocusTries \* remainingFocusPos, 1600 in the code

Bit == {0, 1}

\* The fields of struct star_cam_capture that reach a flag of this module.
Packet == [updateFocusMode : Bit, focusMode : Bit,
           updateTriggerMode : Bit, triggerMode : Bit]

ASSUME CommandersAssumption == Clients \cap Listeners = {}
ASSUME PacketsAssumption    == Packets \subseteq Packet
ASSUME TriesAssumption      == MaxFocusTries \in Nat \ {0}

Commanders == Clients \union Listeners

VARIABLES
  commandLock,     \* command_lock: a commander says it is executing a command
  takingImage,     \* taking_image: an exposure is under way
  focusMode,       \* all_camera_params.focus_mode
  beginAutoFocus,  \* all_camera_params.begin_auto_focus
  cancelling,      \* cancelling_auto_focus
  triggerMode,     \* all_trigger_params.trigger_mode
  trigger,         \* all_trigger_params.trigger
  sendData,        \* send_data: a first image is there for the clients
  shuttingDown,    \* shutting_down
  allCmds,         \* focus_mode field of the buffer all_cmds the clients share
  packet,          \* each listener's copy of the packet it executes
  pc,              \* where each commander is
  astro,           \* where the Astrometry thread is
  focusTries,      \* remainingFocusPos of the auto-focus run
  unusedTrigger    \* history: a trigger came since the last triggered image

sharedFlags == <<takingImage, focusMode, beginAutoFocus, cancelling,
                 triggerMode, trigger, sendData, shuttingDown>>
commandData == <<allCmds, packet>>
astroVars   == <<astro, focusTries, unusedTrigger>>
vars == <<commandLock, sharedFlags, commandData, pc, astroVars>>

(***************************************************************************)
(* Where a thread can be.  Section is the command section, FocusRun the    *)
(* auto-focus run, LensMoves the part of it that drives the lens.          *)
(***************************************************************************)
Section == {"cancel", "focus", "gate", "image", "adjust", "modes", "unlock"}

ClientLabels   == {"offline", "recv", "lock", "take", "telemetry"}
                    \union (Section \ {"modes"})
ListenerLabels == {"recv", "closed"} \union Section

LensMoves == {"afToStart", "afShift", "afBack", "afBest"}

FocusRun == {"afStart", "afBin", "afLoop", "afImage", "afMeasure", "afUnbin"}
              \union LensMoves

AstroLabels == {"cycle", "begin", "afReturn", "expose", "arm", "await",
                "clear", "capture", "transfer", "sleep", "closed"}
                 \union FocusRun

Goto(t, label)  == pc' = [pc EXCEPT ![t] = label]
AstroGoto(label) == astro' = label

(***************************************************************************)
(* The flags start as the initialisers of commands.c, camera.c and         *)
(* lens_adapter.c leave them.  A listener whose socket could not be bound  *)
(* has returned at once.                                                   *)
(***************************************************************************)
Init ==
  /\ commandLock = 0
  /\ takingImage = 0
  /\ focusMode = 0
  /\ beginAutoFocus = 1
  /\ cancelling = 0
  /\ triggerMode = 0
  /\ trigger = 0
  /\ sendData = 0
  /\ shuttingDown = 0
  /\ allCmds = 0
  /\ packet \in [Listeners -> Packets]
  /\ pc \in [Commanders -> {"offline", "recv", "closed"}]
  /\ \A c \in Clients   : pc[c] = "offline"
  /\ \A l \in Listeners : pc[l] # "offline"
  /\ astro = "cycle"
  /\ focusTries = MaxFocusTries
  /\ unusedTrigger = FALSE

-----------------------------------------------------------------------------
(***************************************************************************)
(* The command section, shared by clients and listeners: FocusOf(t) is the *)
(* focus mode the command of t asks for, read again at every use since the *)
(* clients' command sits in a shared buffer.                               *)
(***************************************************************************)
FocusOf(t) == IF t \in Clients THEN allCmds ELSE packet[t].focusMode

\* Does the command of t touch the focus mode at all?
SetsFocusMode(t) == t \in Clients \/ packet[t].updateFocusMode = 1

\* Lens commands are refused while auto-focusing or cancelling it.
GateOpenWithoutFocusTest == cancelling = 0
GateOpen == focusMode = 0 /\ cancelling = 0

\* Leaving focus mode while it is on flags the cancellation of the run.
FlagCancel(t) ==
  /\ pc[t] = "cancel"
  /\ cancelling' = IF ~SetsFocusMode(t) THEN cancelling
                   ELSE IF FocusOf(t) = 0 /\ focusMode = 1 THEN 1 ELSE 0
  /\ Goto(t, "focus")
  /\ UNCHANGED <<commandLock, takingImage, focusMode, beginAutoFocus,
                 triggerMode, trigger, sendData, shuttingDown, commandData,
                 astroVars>>

\* begin_auto_focus is raised, never lowered; focus_mode follows the command.
SetFocusMode(t) ==
  /\ pc[t] = "focus"
  /\ IF SetsFocusMode(t)
     THEN /\ beginAutoFocus' = IF FocusOf(t) = 1 THEN 1 ELSE beginAutoFocus
          /\ focusMode' = FocusOf(t)
     ELSE UNCHANGED <<beginAutoFocus, focusMode>>
  /\ Goto(t, "gate")
  /\ UNCHANGED <<commandLock, takingImage, cancelling, triggerMode, trigger,
                 sendData, shuttingDown, commandData, astroVars>>

\* What follows the lens part of a command: listeners set the trigger mode.
AfterLens(t) == IF t \in Clients THEN "unlock" ELSE "modes"

PassGate(t) ==
  /\ pc[t] = "gate"
  /\ Goto(t, IF GateOpen THEN "image" ELSE AfterLens(t))
  /\ UNCHANGED <<commandLock, sharedFlags, commandData, astroVars>>

\* while (taking_image) usleep(...): one poll that finds the flag down.
SeeNoImage(t) ==
  /\ pc[t] = "image"
  /\ takingImage = 0
  /\ Goto(t, "adjust")
  /\ UNCHANGED <<commandLock, sharedFlags, commandData, astroVars>>

\* adjustCameraHardware() runs while pc[t] = "adjust" and returns here.
AdjustCameraHardware(t) ==
  /\ pc[t] = "adjust"
  /\ Goto(t, AfterLens(t))
  /\ UNCHANGED <<commandLock, sharedFlags, commandData, astroVars>>

Execute(t) == FlagCancel(t) \/ SetFocusMode(t) \/ PassGate(t)
                \/ SeeNoImage(t) \/ AdjustCameraHardware(t)

-----------------------------------------------------------------------------
(***************************************************************************)
(* process_command_packet and the loop of listen_thread.                   *)
(***************************************************************************)

\* A listener takes the lock whatever its value.  Packets from a computer
\* that is not in charge change nothing and are left out.
ReceivePacket(l) ==
  /\ pc[l] = "recv"
  /\ packet' \in {[packet EXCEPT ![l] = p] : p \in Packets}
  /\ commandLock' = 1
  /\ Goto(l, "cancel")
  /\ UNCHANGED <<sharedFlags, allCmds, astroVars>>

\* The trigger mode is set only after the lens part, hence after the wait.
SetTriggerMode(l) ==
  /\ pc[l] = "modes"
  /\ triggerMode' = IF packet[l].updateTriggerMode = 1
                    THEN packet[l].triggerMode ELSE triggerMode
  /\ Goto(l, "unlock")
  /\ UNCHANGED <<commandLock, takingImage, focusMode, beginAutoFocus,
                 cancelling, trigger, sendData, shuttingDown, commandData,
                 astroVars>>

\* The loop of listen_thread looks at shutting_down between two packets.
ListenerLeavesWithoutUnlock(l) ==
  /\ pc[l] = "unlock"
  /\ Goto(l, IF shuttingDown = 1 THEN "closed" ELSE "recv")
  /\ UNCHANGED <<commandLock, sharedFlags, commandData, astroVars>>

ListenerUnlock(l) ==
  /\ pc[l] = "unlock"
  /\ commandLock' = 0
  /\ Goto(l, IF shuttingDown = 1 THEN "closed" ELSE "recv")
  /\ UNCHANGED <<sharedFlags, commandData, astroVars>>

\* The half-second receive timeout brings the loop back to its condition.
ListenerStops(l) ==
  /\ pc[l] = "recv"
  /\ shuttingDown = 1
  /\ Goto(l, "closed")
  /\ UNCHANGED <<commandLock, sharedFlags, commandData, astroVars>>

ListenerStep(l) == Execute(l) \/ SetTriggerMode(l) \/ ListenerUnlock(l)
                     \/ ListenerStops(l)

-----------------------------------------------------------------------------
(***************************************************************************)
(* processClient.                                                          *)
(***************************************************************************)
Connect(c) ==
  /\ pc[c] = "offline"
  /\ Goto(c, "recv")
  /\ UNCHANGED <<commandLock, sharedFlags, commandData, astroVars>>

\* recvfrom fills the buffer all clients share before the lock is looked at.
\* A peer that has closed (recvfrom returns 0) goes the same way and leaves
\* the buffer as it is.
ReceiveCommand(c) ==
  /\ pc[c] = "recv"
  /\ allCmds' \in Bit
  /\ Goto(c, "lock")
  /\ UNCHANGED <<commandLock, sharedFlags, packet, astroVars>>

\* recvfrom returns -1: telemetry is sent all the same.
ReceiveNothing(c) ==
  /\ pc[c] = "recv"
  /\ Goto(c, "telemetry")
  /\ UNCHANGED <<commandLock, sharedFlags, commandData, astroVars>>

\* while (command_lock) usleep(...): one poll that finds the lock free.
SeeLockFree(c) ==
  /\ pc[c] = "lock"
  /\ commandLock = 0
  /\ Goto(c, "take")
  /\ UNCHANGED <<commandLock, sharedFlags, commandData, astroVars>>

\* command_lock = 1, a step of its own after the poll.
TakeLock(c) ==
  /\ pc[c] = "take"
  /\ commandLock' = 1
  /\ Goto(c, "cancel")
  /\ UNCHANGED <<sharedFlags, commandData, astroVars>>

ClientUnlock(c) ==
  /\ pc[c] = "unlock"
  /\ commandLock' = 0
  /\ Goto(c, "telemetry")
  /\ UNCHANGED <<sharedFlags, commandData, astroVars>>

\* while (!send_data), then two send() calls; either may find the peer gone.
SendTelemetry(c) ==
  /\ pc[c] = "telemetry"
  /\ sendData = 1
  /\ \E next \in {"recv", "offline"} : Goto(c, next)
  /\ UNCHANGED <<commandLock, sharedFlags, commandData, astroVars>>

ClientStep(c) == Execute(c) \/ SeeLockFree(c) \/ TakeLock(c)
                   \/ ClientUnlock(c) \/ SendTelemetry(c)

-----------------------------------------------------------------------------
(***************************************************************************)
(* The auto-focus run, doContrastDetectAutoFocus.  How far the lens is     *)
(* from the end of the range is abstracted to a choice; the bound on the   *)
(* tries is not.                                                           *)
(***************************************************************************)
astroKeeps == <<commandLock, commandData, pc>>
modeFlags  == <<triggerMode, trigger, sendData>>

\* A failure that leaves the camera without acquisition shuts it down
\* (closeCamera and clean).
MayShutDown == shuttingDown' \in {shuttingDown, 1}

\* The log file opens, or the run is given up before it starts.
FocusStart ==
  /\ astro = "afStart"
  /\ beginAutoFocus' = 0
  /\ focusTries' = MaxFocusTries
  /\ \/ AstroGoto("afToStart") /\ UNCHANGED focusMode
     \/ AstroGoto("afReturn") /\ focusMode' = 0
  /\ UNCHANGED <<astroKeeps, takingImage, cancelling, modeFlags,
                 shuttingDown, unusedTrigger>>

\* beginAutoFocus(): a failure lowers focus_mode and the run goes on.
FocusToStart ==
  /\ astro = "afToStart"
  /\ focusMode' \in {focusMode, 0}
  /\ AstroGoto("afBin")
  /\ UNCHANGED <<astroKeeps, takingImage, beginAutoFocus, cancelling,
                 modeFlags, shuttingDown, focusTries, unusedTrigger>>

\* setBinningFactor(4).
FocusBin ==
  /\ astro = "afBin"
  /\ \/ AstroGoto("afLoop") /\ UNCHANGED shuttingDown
     \/ AstroGoto("afReturn") /\ MayShutDown
  /\ UNCHANGED <<astroKeeps, takingImage, focusMode, beginAutoFocus,
                 cancelling, modeFlags, focusTries, unusedTrigger>>

TriesLeftOrNone == focusTries >= 0
TriesLeft == focusTries > 0

NoTrySpent == UNCHANGED focusTries
SpendTry == focusTries' = focusTries - 1

\* The loop ends when the tries are used up ...
FocusExhausted ==
  /\ astro = "afLoop"
  /\ ~TriesLeft
  /\ AstroGoto("afUnbin")
  /\ UNCHANGED <<astroKeeps, sharedFlags, focusTries, unusedTrigger>>

\* ... when the lens is near the end of the range, after one move at least ...
FocusNearEnd ==
  /\ astro = "afLoop"
  /\ TriesLeft
  /\ focusTries < MaxFocusTries
  /\ SpendTry
  /\ focusMode' = 0
  /\ AstroGoto("afUnbin")
  /\ UNCHANGED <<astroKeeps, takingImage, beginAutoFocus, cancelling,
                 modeFlags, shuttingDown, unusedTrigger>>

\* ... or when a command has lowered focus_mode.
FocusCancelled ==
  /\ astro = "afLoop"
  /\ TriesLeft
  /\ focusMode = 0
  /\ SpendTry
  /\ AstroGoto("afUnbin")
  /\ UNCHANGED <<astroKeeps, sharedFlags, unusedTrigger>>

FocusExpose ==
  /\ astro = "afLoop"
  /\ TriesLeft
  /\ focusMode = 1
  /\ SpendTry
  /\ takingImage' = 1
  /\ AstroGoto("afImage")
  /\ UNCHANGED <<astroKeeps, focusMode, beginAutoFocus, cancelling,
                 modeFlags, shuttingDown, unusedTrigger>>

FocusImage ==
  /\ astro = "afImage"
  /\ takingImage' = 0
  /\ AstroGoto("afMeasure")
  /\ UNCHANGED <<astroKeeps, focusMode, beginAutoFocus, cancelling,
                 modeFlags, shuttingDown, focusTries, unusedTrigger>>

FocusMeasure ==
  /\ astro = "afMeasure"
  /\ AstroGoto(IF cancelling = 0 THEN "afShift" ELSE "afLoop")
  /\ UNCHANGED <<astroKeeps, sharedFlags, focusTries, unusedTrigger>>

\* imageCapture() or measureSharpness() fails: the run is abandoned, and
\* taking_image stays as it is.
FocusAbandon ==
  /\ astro \in {"afImage", "afMeasure"}
  /\ focusMode' = 0
  /\ MayShutDown
  /\ AstroGoto("afReturn")
  /\ UNCHANGED <<astroKeeps, takingImage, beginAutoFocus, cancelling,
                 modeFlags, focusTries, unusedTrigger>>

FocusShift ==
  /\ astro = "afShift"
  /\ AstroGoto("afLoop")
  /\ UNCHANGED <<astroKeeps, sharedFlags, focusTries, unusedTrigger>>

\* restoreBinningFactor(): a failure here is fatal.
FocusUnbin ==
  /\ astro = "afUnbin"
  /\ \/ AstroGoto("afBack") /\ UNCHANGED shuttingDown
     \/ AstroGoto("afReturn") /\ shuttingDown' = 1
  /\ UNCHANGED <<astroKeeps, takingImage, focusMode, beginAutoFocus,
                 cancelling, modeFlags, focusTries, unusedTrigger>>

\* Back to the end of the range; if that fails, to the default position,
\* which ends the run.
FocusBack ==
  /\ astro = "afBack"
  /\ \/ AstroGoto("afBest") /\ UNCHANGED focusMode
     \/ AstroGoto("afReturn") /\ focusMode' = 0
  /\ UNCHANGED <<astroKeeps, takingImage, beginAutoFocus, cancelling,
                 modeFlags, shuttingDown, focusTries, unusedTrigger>>

\* The move to the best position, and the end of the run.
FocusBest ==
  /\ astro = "afBest"
  /\ focusMode' = 0
  /\ AstroGoto("afReturn")
  /\ UNCHANGED <<astroKeeps, takingImage, beginAutoFocus, cancelling,
                 modeFlags, shuttingDown, focusTries, unusedTrigger>>

\* doCameraAndAstrometry ignores the result and goes on to the image.
SkipsExposureAfterFocus == "sleep"
AfterFocus == "expose"

FocusReturn ==
  /\ astro = "afReturn"
  /\ focusMode' = 0
  /\ AstroGoto(AfterFocus)
  /\ UNCHANGED <<astroKeeps, takingImage, beginAutoFocus, cancelling,
                 modeFlags, shuttingDown, focusTries, unusedTrigger>>

FocusStep ==
  \/ FocusStart \/ FocusToStart \/ FocusBin
  \/ FocusExhausted \/ FocusNearEnd \/ FocusCancelled
  \/ FocusExpose \/ FocusImage \/ FocusMeasure \/ FocusAbandon \/ FocusShift
  \/ FocusUnbin \/ FocusBack \/ FocusBest \/ FocusReturn

-----------------------------------------------------------------------------
(***************************************************************************)
(* updateAstrometry and the rest of doCameraAndAstrometry.                 *)
(***************************************************************************)
Cycle ==
  /\ astro = "cycle"
  /\ AstroGoto(IF shuttingDown = 1 THEN "closed" ELSE "begin")
  /\ UNCHANGED <<astroKeeps, sharedFlags, focusTries, unusedTrigger>>

FocusRequested == beginAutoFocus = 1 /\ focusMode = 1

Begin ==
  /\ astro = "begin"
  /\ AstroGoto(IF FocusRequested THEN "afStart" ELSE "expose")
  /\ UNCHANGED <<astroKeeps, sharedFlags, focusTries, unusedTrigger>>

\* The observing file cannot be opened, or a first allocation fails.
BeginFails ==
  /\ astro = "begin"
  /\ AstroGoto("sleep")
  /\ UNCHANGED <<astroKeeps, sharedFlags, focusTries, unusedTrigger>>

Expose ==
  /\ astro = "expose"
  /\ takingImage' = 1
  /\ AstroGoto("arm")
  /\ UNCHANGED <<astroKeeps, focusMode, beginAutoFocus, cancelling,
                 modeFlags, shuttingDown, focusTries, unusedTrigger>>

Arm ==
  /\ astro = "arm"
  /\ AstroGoto(IF triggerMode = 1 THEN "await" ELSE "capture")
  /\ UNCHANGED <<astroKeeps, sharedFlags, focusTries, unusedTrigger>>

\* while (trigger == 0 && shutting_down != 1): the poll that ends the wait.
ReleasedByTriggerOnly == trigger # 0
ReleasedFromWait == trigger # 0 \/ shuttingDown = 1

AwaitTrigger ==
  /\ astro = "await"
  /\ ReleasedFromWait
  /\ unusedTrigger' = FALSE
  /\ AstroGoto("clear")
  /\ UNCHANGED <<astroKeeps, sharedFlags, focusTries>>

\* trigger = 0, a step of its own: a trigger that came meanwhile is lost.
KeepTrigger ==
  /\ astro = "clear"
  /\ AstroGoto("capture")
  /\ UNCHANGED <<astroKeeps, sharedFlags, focusTries, unusedTrigger>>

ClearTrigger ==
  /\ astro = "clear"
  /\ trigger' = 0
  /\ AstroGoto("capture")
  /\ UNCHANGED <<astroKeeps, takingImage, focusMode, beginAutoFocus,
                 cancelling, triggerMode, sendData, shuttingDown, focusTries,
                 unusedTrigger>>

\* imageCapture() returns, well or not, and taking_image goes down.
CaptureKeepsFlag ==
  /\ astro = "capture"
  /\ AstroGoto("transfer")
  /\ UNCHANGED <<astroKeeps, sharedFlags, focusTries, unusedTrigger>>

Capture ==
  /\ astro = "capture"
  /\ takingImage' = 0
  /\ AstroGoto("transfer")
  /\ UNCHANGED <<astroKeeps, focusMode, beginAutoFocus, cancelling,
                 modeFlags, shuttingDown, focusTries, unusedTrigger>>

\* imageTransfer() fails and the cycle ends, or the image is handed over.
Transfer ==
  /\ astro = "transfer"
  /\ sendData' \in {sendData, 1}
  /\ AstroGoto("sleep")
  /\ UNCHANGED <<astroKeeps, takingImage, focusMode, beginAutoFocus,
                 cancelling, triggerMode, trigger, shuttingDown, focusTries,
                 unusedTrigger>>

Sleep ==
  /\ astro = "sleep"
  /\ AstroGoto("cycle")
  /\ UNCHANGED <<astroKeeps, sharedFlags, focusTries, unusedTrigger>>

ObserveStep == Cycle \/ Begin \/ BeginFails \/ Expose \/ Arm \/ AwaitTrigger
                 \/ ClearTrigger \/ Capture \/ Transfer \/ Sleep

AstroStep == FocusStep \/ ObserveStep

-----------------------------------------------------------------------------
(***************************************************************************)
(* The outside: trigger packets of in-charge computers, and the signals    *)
(* whose handler is clean().  The trigger threads stop at shutdown; a late *)
(* packet would change nothing then, so no guard says so.                  *)
(***************************************************************************)
TriggerPacket ==
  /\ trigger' \in Bit
  /\ unusedTrigger' = (unusedTrigger \/ trigger' = 1)
  /\ UNCHANGED <<commandLock, takingImage, focusMode, beginAutoFocus,
                 cancelling, triggerMode, sendData, shuttingDown, commandData,
                 pc, astro, focusTries>>

Clean ==
  /\ shuttingDown' = 1
  /\ UNCHANGED <<commandLock, takingImage, focusMode, beginAutoFocus,
                 cancelling, modeFlags, commandData, pc, astroVars>>

Next ==
  \/ \E l \in Listeners : ListenerStep(l) \/ ReceivePacket(l)
  \/ \E c \in Clients : ClientStep(c) \/ Connect(c) \/ ReceiveCommand(c)
                          \/ ReceiveNothing(c)
  \/ AstroStep
  \/ TriggerPacket
  \/ Clean

Spec == Init /\ [][Next]_vars

(***************************************************************************)
(* Fairness: every thread of the process keeps running (weak fairness on   *)
(* its own steps); packets, connections, triggers and signals may or may   *)
(* not come.  A commander waiting for taking_image polls it every 10 or    *)
(* 100 ms, and the flag stays down for longer than that between two        *)
(* images: strong fairness on the poll.                                    *)
(***************************************************************************)
Fairness ==
  /\ WF_vars(AstroStep)
  /\ \A l \in Listeners : WF_vars(ListenerStep(l)) /\ SF_vars(SeeNoImage(l))
  /\ \A c \in Clients   : WF_vars(ClientStep(c)) /\ SF_vars(SeeNoImage(c))

FairSpec == Spec /\ Fairness

-----------------------------------------------------------------------------
(***************************************************************************)
(* Properties.                                                             *)
(***************************************************************************)
TypeOK ==
  /\ commandLock \in Bit
  /\ takingImage \in Bit
  /\ focusMode \in Bit
  /\ beginAutoFocus \in Bit
  /\ cancelling \in Bit
  /\ triggerMode \in Bit
  /\ trigger \in Bit
  /\ sendData \in Bit
  /\ shuttingDown \in Bit
  /\ allCmds \in Bit
  /\ packet \in [Listeners -> Packets]
  /\ pc \in [Commanders -> ClientLabels \union ListenerLabels]
  /\ \A c \in Clients   : pc[c] \in ClientLabels
  /\ \A l \in Listeners : pc[l] \in ListenerLabels
  /\ astro \in AstroLabels
  /\ focusTries \in 0 .. MaxFocusTries
  /\ unusedTrigger \in BOOLEAN

InSection(t) == pc[t] \in Section

\* The lock is raised only while some commander is in its command section:
\* however listeners and clients overwrite command_lock under each other, no
\* order of their steps leaves it at 1 with nobody left to lower it, which
\* would lock every TCP client out for good.
LockNeverAbandoned ==
  commandLock = 1 => \E t \in Commanders : InSection(t)

\* taking_image is down whenever the Astrometry thread is not on its way to
\* or in an image.  An abandoned auto-focus run leaves it up, and commanders
\* that wait for it hold command_lock, so every such path must still reach
\* the write that lowers it, in the same cycle, shutdown or not.
FlagDownBetweenImages ==
  astro \in {"cycle", "begin", "transfer", "sleep", "closed"}
    => takingImage = 0

\* A triggered image uses up a trigger: between two of them a new trigger
\* packet has come.  Only the shutdown may end the wait without one.
OneImagePerTrigger ==
  [][astro = "await" /\ astro' = "clear"
       => unusedTrigger \/ shuttingDown = 1]_vars

\* A commander that is the only one, and so needs no lock, drives the lens
\* during an auto-focus run only if the run has been told to stop.
LoneCommanderRespectsFocus ==
  \A t \in Commanders :
    /\ Commanders = {t}
    /\ pc[t] = "adjust"
    /\ astro \in FocusRun
    => focusMode = 0

\* A command section ends, so no command blocks the commands behind it,
\* unless the camera waits for a trigger for ever: taking_image is up during
\* that wait.
CommandsComplete ==
  \A t \in Commanders :
    InSection(t) ~> (~InSection(t) \/ [](astro = "await"))

\* The shutdown ends the Astrometry thread, wherever it is: waiting for a
\* trigger, in an auto-focus run, or with the camera lost.
ShutdownStopsCamera == (shuttingDown = 1) ~> (astro = "closed")

\* An auto-focus run ends even if commands switch focus_mode on and off
\* under it and the lens never gets near the end of its range.
AutoFocusEnds == (astro \in FocusRun) ~> (astro = "expose")

(***************************************************************************)
(* What comments of the source say of the program and the code does not do.*)
(***************************************************************************)

\* commands.c: "if another client sends commands at the same time, wait
\* until they are done".
OneCommandAtATime ==
  \A t, u \in Commanders : InSection(t) /\ InSection(u) => t = u

\* commands.c: "if we are taking an image right now, need to wait to execute
\* any lens commands".  taking_image is lowered as soon as the exposure is
\* triggered; the sensor delivers it only to the wait for the frame that
\* follows, in imageTransfer() or measureSharpness().
Exposing == astro \in {"transfer", "afMeasure"}

NoAdjustmentDuringImage ==
  \A t \in Commanders : pc[t] = "adjust" => ~Exposing
=============================================================================
