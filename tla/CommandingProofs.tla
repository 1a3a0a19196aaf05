-------------------------- MODULE CommandingProofs --------------------------
(***************************************************************************)
(* Proofs about Commanding, for any number of clients and flight           *)
(* computers, any set of packets and any bound on the focus tries.         *)
(***************************************************************************)
EXTENDS Commanding, TLAPS

-----------------------------------------------------------------------------
(***************************************************************************)
(* Type correctness.                                                       *)
(***************************************************************************)

\* Every flag keeps its range and every thread stays on the labels of its
\* kind: a client never reaches the trigger part of a packet handler, a
\* listener never the lock poll.
THEOREM TypeCorrect == Spec => []TypeOK
<1> USE CommandersAssumption, PacketsAssumption, TriesAssumption
    DEF TypeOK, Bit, Packet, Commanders, ClientLabels, ListenerLabels, Section
<1>1. Init => TypeOK
  <2> SUFFICES ASSUME Init PROVE TypeOK
    OBVIOUS
  <2>1. pc \in [Commanders -> ClientLabels \union ListenerLabels]
    BY DEF Init
  <2>2. (\A c \in Clients : pc[c] \in ClientLabels)
          /\ (\A l \in Listeners : pc[l] \in ListenerLabels)
    BY DEF Init
  <2>3. focusTries \in 0 .. MaxFocusTries
    BY SMT DEF Init
  <2>4. unusedTrigger \in BOOLEAN
    BY Zenon DEF Init
  <2>5. astro \in AstroLabels
    BY DEF Init, AstroLabels
  <2>6. packet \in [Listeners -> Packets]
    BY DEF Init
  <2> QED
    BY <2>1, <2>2, <2>3, <2>4, <2>5, <2>6 DEF Init
<1>2. TypeOK /\ [Next]_vars => TypeOK'
  <2> SUFFICES ASSUME TypeOK, [Next]_vars PROVE TypeOK'
    OBVIOUS
  <2> USE DEF Goto, AstroGoto, sharedFlags, commandData, astroVars,
              astroKeeps, modeFlags, MayShutDown
  <2>1. ASSUME NEW t \in Commanders, Execute(t) PROVE TypeOK'
    <3>1. CASE FlagCancel(t)
      BY <3>1 DEF FlagCancel
    <3>2. CASE SetFocusMode(t)
      BY <3>2 DEF SetFocusMode, FocusOf
    <3>3. CASE PassGate(t)
      BY <3>3 DEF PassGate, AfterLens
    <3>4. CASE SeeNoImage(t)
      BY <3>4 DEF SeeNoImage
    <3>5. CASE AdjustCameraHardware(t)
      BY <3>5 DEF AdjustCameraHardware, AfterLens
    <3> QED BY <2>1, <3>1, <3>2, <3>3, <3>4, <3>5 DEF Execute
  <2>2. ASSUME NEW l \in Listeners, ListenerStep(l) \/ ReceivePacket(l)
        PROVE  TypeOK'
    <3>1. CASE Execute(l)
      BY <2>1, <3>1
    <3>2. CASE SetTriggerMode(l)
      BY <3>2 DEF SetTriggerMode
    <3>3. CASE ListenerUnlock(l)
      BY <3>3 DEF ListenerUnlock
    <3>4. CASE ListenerStops(l)
      BY <3>4 DEF ListenerStops
    <3>5. CASE ReceivePacket(l)
      BY <3>5 DEF ReceivePacket
    <3> QED BY <2>2, <3>1, <3>2, <3>3, <3>4, <3>5 DEF ListenerStep
  <2>3. ASSUME NEW c \in Clients,
               ClientStep(c) \/ Connect(c) \/ ReceiveCommand(c)
                 \/ ReceiveNothing(c)
        PROVE  TypeOK'
    <3>1. CASE Execute(c)
      BY <2>1, <3>1
    <3>2. CASE SeeLockFree(c)
      BY <3>2 DEF SeeLockFree
    <3>3. CASE TakeLock(c)
      BY <3>3 DEF TakeLock
    <3>4. CASE ClientUnlock(c)
      BY <3>4 DEF ClientUnlock
    <3>5. CASE SendTelemetry(c)
      BY <3>5 DEF SendTelemetry
    <3>6. CASE Connect(c) \/ ReceiveCommand(c) \/ ReceiveNothing(c)
      BY <3>6 DEF Connect, ReceiveCommand, ReceiveNothing
    <3> QED BY <2>3, <3>1, <3>2, <3>3, <3>4, <3>5, <3>6 DEF ClientStep
  <2>4. ASSUME FocusStep PROVE TypeOK'
    <3> USE DEF AstroLabels, FocusRun, LensMoves
    <3>1. CASE FocusStart
      BY <3>1 DEF FocusStart
    <3>2. CASE FocusToStart
      BY <3>2 DEF FocusToStart
    <3>3. CASE FocusBin
      BY <3>3 DEF FocusBin
    <3>4. CASE FocusExhausted
      BY <3>4 DEF FocusExhausted
    <3>5. CASE FocusNearEnd
      BY <3>5 DEF FocusNearEnd, TriesLeft, SpendTry
    <3>6. CASE FocusCancelled
      BY <3>6 DEF FocusCancelled, TriesLeft, SpendTry
    <3>7. CASE FocusExpose
      BY <3>7 DEF FocusExpose, TriesLeft, SpendTry
    <3>8. CASE FocusImage
      BY <3>8 DEF FocusImage
    <3>9. CASE FocusMeasure
      BY <3>9 DEF FocusMeasure
    <3>10. CASE FocusAbandon
      BY <3>10 DEF FocusAbandon
    <3>11. CASE FocusShift
      BY <3>11 DEF FocusShift
    <3>12. CASE FocusUnbin
      BY <3>12 DEF FocusUnbin
    <3>13. CASE FocusBack
      BY <3>13 DEF FocusBack
    <3>14. CASE FocusBest
      BY <3>14 DEF FocusBest
    <3>15. CASE FocusReturn
      BY <3>15 DEF FocusReturn, AfterFocus
    <3> QED
      BY <2>4, <3>1, <3>2, <3>3, <3>4, <3>5, <3>6, <3>7, <3>8, <3>9, <3>10,
         <3>11, <3>12, <3>13, <3>14, <3>15 DEF FocusStep
  <2>5. ASSUME ObserveStep PROVE TypeOK'
    <3> USE DEF AstroLabels
    <3>1. CASE Cycle
      BY <3>1 DEF Cycle
    <3>2. CASE Begin
      BY <3>2 DEF Begin, FocusRun
    <3>3. CASE BeginFails
      BY <3>3 DEF BeginFails
    <3>4. CASE Expose
      BY <3>4 DEF Expose
    <3>5. CASE Arm
      BY <3>5 DEF Arm
    <3>6. CASE AwaitTrigger
      <4>1. unusedTrigger' \in BOOLEAN
        BY <3>6, Zenon DEF AwaitTrigger
      <4>2. /\ trigger' = trigger /\ astro' = "clear" /\ focusTries' = focusTries
            /\ UNCHANGED <<commandLock, commandData, pc, sharedFlags>>
        BY <3>6, Zenon DEF AwaitTrigger
      <4> QED BY <4>1, <4>2
    <3>7. CASE ClearTrigger
      BY <3>7 DEF ClearTrigger
    <3>8. CASE Capture
      BY <3>8 DEF Capture
    <3>9. CASE Transfer
      BY <3>9 DEF Transfer
    <3>10. CASE Sleep
      BY <3>10 DEF Sleep
    <3> QED
      BY <2>5, <3>1, <3>2, <3>3, <3>4, <3>5, <3>6, <3>7, <3>8, <3>9, <3>10
      DEF ObserveStep
  <2>6. CASE TriggerPacket
    BY <2>6 DEF TriggerPacket
  <2>7. CASE Clean
    BY <2>7 DEF Clean
  <2>8. CASE UNCHANGED vars
    BY <2>8 DEF vars
  <2> QED
    BY <2>2, <2>3, <2>4, <2>5, <2>6, <2>7, <2>8 DEF Next, AstroStep
<1> QED
  BY <1>1, <1>2, PTL DEF Spec

-----------------------------------------------------------------------------
(***************************************************************************)
(* The lock.  Only a commander's own step moves it in or out of its        *)
(* section, the step in raises command_lock and the step out lowers it, so *)
(* a raised lock always has a witness: the one it had before, or the       *)
(* commander that has just raised it.                                      *)
(***************************************************************************)

\* A commander's step inside its section keeps it there or lowers the lock.
LEMMA ExecuteStaysInSection ==
  ASSUME TypeOK, NEW t \in Commanders, Execute(t)
  PROVE  /\ commandLock' = commandLock
         /\ pc' = [pc EXCEPT ![t] = pc'[t]]
         /\ pc'[t] \in Section
<1> USE DEF TypeOK, Goto, Section, AfterLens
<1>1. CASE FlagCancel(t)
  BY <1>1 DEF FlagCancel
<1>2. CASE SetFocusMode(t)
  BY <1>2 DEF SetFocusMode
<1>3. CASE PassGate(t)
  BY <1>3 DEF PassGate, sharedFlags
<1>4. CASE SeeNoImage(t)
  BY <1>4 DEF SeeNoImage
<1>5. CASE AdjustCameraHardware(t)
  BY <1>5 DEF AdjustCameraHardware
<1> QED
  BY <1>1, <1>2, <1>3, <1>4, <1>5 DEF Execute

\* The Astrometry thread and the outside touch neither the lock nor a
\* commander.
LEMMA OthersKeepSections ==
  ASSUME AstroStep \/ TriggerPacket \/ Clean \/ UNCHANGED vars
  PROVE  UNCHANGED <<commandLock, pc>>
<1> USE DEF astroKeeps, commandData
<1>1. CASE FocusStep
  BY <1>1 DEF FocusStep, FocusStart, FocusToStart, FocusBin, FocusExhausted,
     FocusNearEnd, FocusCancelled, FocusExpose, FocusImage, FocusMeasure,
     FocusAbandon, FocusShift, FocusUnbin, FocusBack, FocusBest, FocusReturn
<1>2. CASE ObserveStep
  BY <1>2 DEF ObserveStep, Cycle, Begin, BeginFails, Expose, Arm,
     AwaitTrigger, ClearTrigger, Capture, Transfer, Sleep
<1>3. CASE TriggerPacket \/ Clean \/ UNCHANGED vars
  BY <1>3 DEF TriggerPacket, Clean, vars
<1> QED
  BY <1>1, <1>2, <1>3 DEF AstroStep

\* However many listeners and clients overwrite command_lock under each
\* other, it is never left raised with nobody in a command section.
THEOREM LockIsNeverAbandoned == Spec => []LockNeverAbandoned
<1> USE DEF LockNeverAbandoned, InSection
<1>1. Init => LockNeverAbandoned
  BY DEF Init
<1>2. TypeOK /\ LockNeverAbandoned /\ [Next]_vars => LockNeverAbandoned'
  <2> SUFFICES ASSUME TypeOK, LockNeverAbandoned, [Next]_vars,
                      commandLock' = 1
               PROVE  \E t \in Commanders : pc'[t] \in Section
    OBVIOUS
  <2> USE DEF Commanders
  <2>1. ASSUME NEW t \in Commanders, Execute(t)
        PROVE  \E u \in Commanders : pc'[u] \in Section
    BY <2>1, ExecuteStaysInSection
  <2>2. ASSUME NEW t \in Commanders,
               pc'[t] \in Section
        PROVE  \E u \in Commanders : pc'[u] \in Section
    BY <2>2
  \* a step of t outside every section that leaves the lock alone
  <2>3. ASSUME NEW t \in Commanders, NEW label,
               pc[t] \notin Section,
               pc' = [pc EXCEPT ![t] = label],
               commandLock' = commandLock
        PROVE  \E u \in Commanders : pc'[u] \in Section
    <3>1. PICK u \in Commanders : pc[u] \in Section
      BY <2>3
    <3> QED BY <2>3, <3>1 DEF TypeOK
  <2>4. ASSUME NEW l \in Listeners, ListenerStep(l) \/ ReceivePacket(l)
        PROVE  \E u \in Commanders : pc'[u] \in Section
    <3>1. CASE Execute(l)
      BY <2>1, <3>1
    <3>2. CASE SetTriggerMode(l)
      BY <2>2, <3>2 DEF SetTriggerMode, Goto, TypeOK, Section
    <3>3. CASE ListenerUnlock(l)
      BY <3>3 DEF ListenerUnlock
    <3>4. CASE ListenerStops(l)
      BY <2>3, <3>4 DEF ListenerStops, Goto, Section
    <3>5. CASE ReceivePacket(l)
      BY <2>2, <3>5 DEF ReceivePacket, Goto, TypeOK, Section
    <3> QED BY <2>4, <3>1, <3>2, <3>3, <3>4, <3>5 DEF ListenerStep
  <2>5. ASSUME NEW c \in Clients,
               ClientStep(c) \/ Connect(c) \/ ReceiveCommand(c)
                 \/ ReceiveNothing(c)
        PROVE  \E u \in Commanders : pc'[u] \in Section
    <3>1. CASE Execute(c)
      BY <2>1, <3>1
    <3>2. CASE SeeLockFree(c)
      BY <2>3, <3>2 DEF SeeLockFree, Goto, Section
    <3>3. CASE TakeLock(c)
      BY <2>2, <3>3 DEF TakeLock, Goto, TypeOK, Section
    <3>4. CASE ClientUnlock(c)
      BY <3>4 DEF ClientUnlock
    <3>5. CASE SendTelemetry(c)
      <4>1. PICK next \in {"recv", "offline"} : Goto(c, next)
        BY <3>5 DEF SendTelemetry
      <4> QED
        BY <2>3, <3>5, <4>1 DEF SendTelemetry, Goto, Section
    <3>6. CASE Connect(c)
      BY <2>3, <3>6 DEF Connect, Goto, Section
    <3>7. CASE ReceiveCommand(c)
      BY <2>3, <3>7 DEF ReceiveCommand, Goto, Section
    <3>8. CASE ReceiveNothing(c)
      BY <2>3, <3>8 DEF ReceiveNothing, Goto, Section
    <3> QED
      BY <2>5, <3>1, <3>2, <3>3, <3>4, <3>5, <3>6, <3>7, <3>8
      DEF ClientStep
  <2>6. CASE AstroStep \/ TriggerPacket \/ Clean \/ UNCHANGED vars
    BY <2>6, OthersKeepSections
  <2> QED
    BY <2>4, <2>5, <2>6 DEF Next
<1> QED
  BY <1>1, <1>2, TypeCorrect, PTL DEF Spec

-----------------------------------------------------------------------------
(***************************************************************************)
(* What the lock would give.  "Wait until they are done" fails, as the run *)
(* CommandingExclusion shows.  The theorem below gives the only reasons: a *)
(* listener that takes the lock whatever its value, and a client that sees *)
(* it free in one step and takes it in another.  If whoever enters its     *)
(* section finds the lock down at that very step, the sections do exclude  *)
(* each other, whatever the thread of the camera, the shutdown and the     *)
(* poll for taking_image do: no section is left, and no lock lowered, by   *)
(* any other path.                                                         *)
(***************************************************************************)
Enters(t)  == ~InSection(t) /\ InSection(t)'
LockIsFree == \A t \in Commanders : Enters(t) => commandLock = 0

\* A commander in its section is the only one and has the lock up.
SectionLocked ==
  /\ OneCommandAtATime
  /\ \A t \in Commanders : InSection(t) => commandLock = 1

\* The four ways a commander can move: into its section, raising the lock it
\* found down; inside it; out of it, lowering the lock; outside it.
LEMMA MovesKeepSectionLocked ==
  ASSUME SectionLocked, pc \in [Commanders -> ClientLabels \union ListenerLabels],
         NEW t \in Commanders, NEW label,
         pc' = [pc EXCEPT ![t] = label],
         \/ /\ label \in Section
            /\ commandLock' = 1
            /\ commandLock = 0
         \/ pc[t] \in Section /\ label \in Section /\ commandLock' = commandLock
         \/ pc[t] \in Section /\ label \notin Section
         \/ label \notin Section /\ commandLock' = commandLock
  PROVE  SectionLocked'
<1> USE DEF SectionLocked, OneCommandAtATime, InSection
<1>1. \A u \in Commanders : pc'[u] = IF u = t THEN label ELSE pc[u]
  OBVIOUS
<1>2. CASE label \in Section
  <2>1. \A u \in Commanders : pc'[u] \in Section => u = t
    BY <1>1, <1>2
  <2>2. commandLock' = 1
    BY <1>2
  <2> QED BY <2>1, <2>2
<1>3. CASE label \notin Section
  <2>1. \A u \in Commanders : pc'[u] \in Section => u # t /\ pc[u] \in Section
    BY <1>1, <1>3
  <2>2. CASE pc[t] \in Section
    \* then nobody else was in a section
    <3>1. \A u \in Commanders : pc'[u] \notin Section
      BY <2>1, <2>2
    <3> QED BY <3>1
  <2>3. CASE pc[t] \notin Section
    <3>1. commandLock' = commandLock
      BY <1>3, <2>3
    <3> QED BY <2>1, <3>1
  <2> QED BY <2>2, <2>3
<1> QED
  BY <1>2, <1>3

\* With a lock that is free whenever it is taken, commands exclude each
\* other.
THEOREM FreeLockExcludes ==
  Spec /\ [][LockIsFree]_vars => []OneCommandAtATime
<1>1. Init => SectionLocked
  BY DEF Init, SectionLocked, OneCommandAtATime, InSection, Section
<1>2. TypeOK /\ SectionLocked /\ [Next]_vars /\ [LockIsFree]_vars
        => SectionLocked'
  <2> SUFFICES ASSUME TypeOK, SectionLocked, [Next]_vars, [LockIsFree]_vars
               PROVE  SectionLocked'
    OBVIOUS
  <2> USE DEF Commanders
  <2>0. pc \in [Commanders -> ClientLabels \union ListenerLabels]
    BY DEF TypeOK
  \* the step into a section, which raises the lock
  <2>1. ASSUME NEW t \in Commanders, pc[t] \notin Section,
               pc' = [pc EXCEPT ![t] = "cancel"], commandLock' = 1
        PROVE  SectionLocked'
    <3>1. "cancel" \in Section
      BY DEF Section
    <3>2. pc'[t] = "cancel"
      BY <2>0, <2>1
    <3>3. Enters(t)
      BY <2>1, <3>1, <3>2 DEF Enters, InSection
    <3>4. pc' # pc
      BY <2>1, <3>1, <3>2
    <3>5. LockIsFree
      BY <3>4 DEF vars
    <3>6. commandLock = 0
      BY <3>3, <3>5 DEF LockIsFree
    <3> QED BY <2>0, <2>1, <3>1, <3>6, MovesKeepSectionLocked
  <2>2. ASSUME NEW t \in Commanders, Execute(t)
        PROVE  SectionLocked'
    <3>1. pc[t] \in Section
      BY <2>2 DEF Execute, FlagCancel, SetFocusMode, PassGate, SeeNoImage,
         AdjustCameraHardware, Section
    <3> DEFINE label == pc'[t]
    <3>2. /\ commandLock' = commandLock
          /\ pc' = [pc EXCEPT ![t] = label]
          /\ label \in Section
      BY <2>2, ExecuteStaysInSection
    <3> HIDE DEF label
    <3> QED BY <2>0, <3>1, <3>2, MovesKeepSectionLocked
  \* a step of t outside every section that leaves the lock alone
  <2>3. ASSUME NEW t \in Commanders, NEW label, label \notin Section,
               pc' = [pc EXCEPT ![t] = label],
               commandLock' = commandLock
        PROVE  SectionLocked'
    BY <2>0, <2>3, MovesKeepSectionLocked
  \* the step out of a section
  <2>4. ASSUME NEW t \in Commanders, NEW label, label \notin Section,
               pc[t] = "unlock",
               pc' = [pc EXCEPT ![t] = label]
        PROVE  SectionLocked'
    <3>1. pc[t] \in Section
      BY <2>4 DEF Section
    <3> QED BY <2>0, <2>4, <3>1, MovesKeepSectionLocked
  <2>5. ASSUME NEW l \in Listeners, ListenerStep(l) \/ ReceivePacket(l)
        PROVE  SectionLocked'
    <3>1. CASE Execute(l)
      BY <2>2, <3>1
    <3>2. CASE SetTriggerMode(l)
      <4>1. /\ pc[l] \in Section /\ "unlock" \in Section
            /\ commandLock' = commandLock
            /\ pc' = [pc EXCEPT ![l] = "unlock"]
        BY <3>2 DEF SetTriggerMode, Goto, Section
      <4> QED BY <2>0, <4>1, MovesKeepSectionLocked
    <3>3. CASE ListenerUnlock(l)
      <4> DEFINE label == IF shuttingDown = 1 THEN "closed" ELSE "recv"
      <4>1. /\ label \notin Section
            /\ pc[l] = "unlock"
            /\ pc' = [pc EXCEPT ![l] = label]
        BY <3>3 DEF ListenerUnlock, Goto, Section
      <4> HIDE DEF label
      <4> QED BY <2>4, <4>1
    <3>4. CASE ListenerStops(l)
      <4>1. /\ "closed" \notin Section
            /\ pc' = [pc EXCEPT ![l] = "closed"]
            /\ commandLock' = commandLock
        BY <3>4 DEF ListenerStops, Goto, Section
      <4> QED BY <2>3, <4>1
    <3>5. CASE ReceivePacket(l)
      <4>1. /\ pc[l] \notin Section
            /\ pc' = [pc EXCEPT ![l] = "cancel"]
            /\ commandLock' = 1
        BY <3>5 DEF ReceivePacket, Goto, Section
      <4> QED BY <2>1, <4>1
    <3> QED BY <2>5, <3>1, <3>2, <3>3, <3>4, <3>5 DEF ListenerStep
  <2>6. ASSUME NEW c \in Clients,
               ClientStep(c) \/ Connect(c) \/ ReceiveCommand(c)
                 \/ ReceiveNothing(c)
        PROVE  SectionLocked'
    <3>1. CASE Execute(c)
      BY <2>2, <3>1
    <3>2. CASE SeeLockFree(c)
      <4>1. /\ "take" \notin Section
            /\ pc' = [pc EXCEPT ![c] = "take"]
            /\ commandLock' = commandLock
        BY <3>2 DEF SeeLockFree, Goto, Section
      <4> QED BY <2>3, <4>1
    <3>3. CASE TakeLock(c)
      <4>1. /\ pc[c] \notin Section
            /\ pc' = [pc EXCEPT ![c] = "cancel"]
            /\ commandLock' = 1
        BY <3>3 DEF TakeLock, Goto, Section
      <4> QED BY <2>1, <4>1
    <3>4. CASE ClientUnlock(c)
      <4>1. /\ "telemetry" \notin Section
            /\ pc[c] = "unlock"
            /\ pc' = [pc EXCEPT ![c] = "telemetry"]
        BY <3>4 DEF ClientUnlock, Goto, Section
      <4> QED BY <2>4, <4>1
    <3>5. CASE SendTelemetry(c)
      <4>1. PICK next \in {"recv", "offline"} : Goto(c, next)
        BY <3>5 DEF SendTelemetry
      <4>2. next \notin Section /\ commandLock' = commandLock
        BY <3>5, <4>1 DEF SendTelemetry, Section
      <4> QED BY <2>3, <4>1, <4>2 DEF Goto
    <3>6. CASE Connect(c) \/ ReceiveCommand(c) \/ ReceiveNothing(c)
      <4>1. PICK next \in {"recv", "lock", "telemetry"} : Goto(c, next)
        BY <3>6 DEF Connect, ReceiveCommand, ReceiveNothing
      <4>2. next \notin Section /\ commandLock' = commandLock
        BY <3>6, <4>1 DEF Connect, ReceiveCommand, ReceiveNothing, Section
      <4> QED BY <2>3, <4>1, <4>2 DEF Goto
    <3> QED BY <2>6, <3>1, <3>2, <3>3, <3>4, <3>5, <3>6 DEF ClientStep
  <2>7. CASE AstroStep \/ TriggerPacket \/ Clean \/ UNCHANGED vars
    BY <2>7, OthersKeepSections
    DEF SectionLocked, OneCommandAtATime, InSection
  <2> QED
    BY <2>5, <2>6, <2>7 DEF Next
<1>3. SectionLocked => OneCommandAtATime
  BY DEF SectionLocked
<1> QED
  BY <1>1, <1>2, <1>3, TypeCorrect, PTL DEF Spec

-----------------------------------------------------------------------------
(***************************************************************************)
(* The exposure flag.  Only the Astrometry thread writes taking_image, and *)
(* the step into each of the labels named by the invariant either lowers   *)
(* it or comes from another of them: the invariant is inductive.           *)
(***************************************************************************)

\* A commander's step leaves the Astrometry thread and its flag alone.
LEMMA CommandersKeepImageFlag ==
  ASSUME NEW t \in Commanders,
         \/ t \in Listeners /\ (ListenerStep(t) \/ ReceivePacket(t))
         \/ t \in Clients /\ (ClientStep(t) \/ Connect(t) \/ ReceiveCommand(t)
                                \/ ReceiveNothing(t))
  PROVE  UNCHANGED <<astro, takingImage, unusedTrigger, trigger>>
<1> USE DEF sharedFlags, astroVars
<1>1. CASE Execute(t)
  BY <1>1 DEF Execute, FlagCancel, SetFocusMode, PassGate, SeeNoImage,
     AdjustCameraHardware
<1>2. CASE SetTriggerMode(t) \/ ListenerUnlock(t) \/ ListenerStops(t)
             \/ ReceivePacket(t)
  BY <1>2 DEF SetTriggerMode, ListenerUnlock, ListenerStops, ReceivePacket
<1>3. CASE SeeLockFree(t) \/ TakeLock(t) \/ ClientUnlock(t)
             \/ SendTelemetry(t)
  BY <1>3 DEF SeeLockFree, TakeLock, ClientUnlock, SendTelemetry
<1>4. CASE Connect(t) \/ ReceiveCommand(t) \/ ReceiveNothing(t)
  BY <1>4 DEF Connect, ReceiveCommand, ReceiveNothing
<1> QED
  BY <1>1, <1>2, <1>3, <1>4 DEF ListenerStep, ClientStep

\* Whatever becomes of an auto-focus run, taking_image is down outside the
\* images: nobody who waits for it is stranded by a failure or a shutdown.
THEOREM FlagIsDownBetweenImages == Spec => []FlagDownBetweenImages
<1> USE DEF FlagDownBetweenImages, AstroGoto
<1>1. Init => FlagDownBetweenImages
  BY DEF Init
<1>2. FlagDownBetweenImages /\ [Next]_vars => FlagDownBetweenImages'
  <2> SUFFICES ASSUME FlagDownBetweenImages, [Next]_vars
               PROVE  FlagDownBetweenImages'
    OBVIOUS
  <2>1. ASSUME NEW l \in Listeners, ListenerStep(l) \/ ReceivePacket(l)
        PROVE  FlagDownBetweenImages'
    BY <2>1, CommandersKeepImageFlag DEF Commanders
  <2>2. ASSUME NEW c \in Clients,
               ClientStep(c) \/ Connect(c) \/ ReceiveCommand(c)
                 \/ ReceiveNothing(c)
        PROVE  FlagDownBetweenImages'
    BY <2>2, CommandersKeepImageFlag DEF Commanders
  <2>3. CASE FocusStep
    BY <2>3 DEF FocusStep, FocusStart, FocusToStart, FocusBin, FocusExhausted,
       FocusNearEnd, FocusCancelled, FocusExpose, FocusImage, FocusMeasure,
       FocusAbandon, FocusShift, FocusUnbin, FocusBack, FocusBest,
       FocusReturn, AfterFocus
  <2>4. CASE ObserveStep
    BY <2>4 DEF ObserveStep, Cycle, Begin, BeginFails, Expose, Arm,
       AwaitTrigger, ClearTrigger, Capture, Transfer, Sleep, sharedFlags
  <2>5. CASE TriggerPacket \/ Clean \/ UNCHANGED vars
    BY <2>5 DEF TriggerPacket, Clean, vars, sharedFlags, astroVars
  <2> QED
    BY <2>1, <2>2, <2>3, <2>4, <2>5 DEF Next, AstroStep
<1> QED
  BY <1>1, <1>2, PTL DEF Spec

-----------------------------------------------------------------------------
(***************************************************************************)
(* Triggers.  The action property needs an invariant: a trigger that the   *)
(* camera has not just taken note of is one no image has used.             *)
(***************************************************************************)
TriggerUnused == trigger = 1 /\ astro # "clear" => unusedTrigger

LEMMA TriggerUnusedInvariant == Spec => []TriggerUnused
<1> USE DEF TriggerUnused, AstroGoto
<1>1. Init => TriggerUnused
  BY DEF Init
<1>2. TriggerUnused /\ [Next]_vars => TriggerUnused'
  <2> SUFFICES ASSUME TriggerUnused, [Next]_vars PROVE TriggerUnused'
    OBVIOUS
  <2>1. ASSUME NEW l \in Listeners, ListenerStep(l) \/ ReceivePacket(l)
        PROVE  TriggerUnused'
    BY <2>1, CommandersKeepImageFlag DEF Commanders
  <2>2. ASSUME NEW c \in Clients,
               ClientStep(c) \/ Connect(c) \/ ReceiveCommand(c)
                 \/ ReceiveNothing(c)
        PROVE  TriggerUnused'
    BY <2>2, CommandersKeepImageFlag DEF Commanders
  <2>3. CASE FocusStep
    BY <2>3 DEF FocusStep, FocusStart, FocusToStart, FocusBin, FocusExhausted,
       FocusNearEnd, FocusCancelled, FocusExpose, FocusImage, FocusMeasure,
       FocusAbandon, FocusShift, FocusUnbin, FocusBack, FocusBest,
       FocusReturn, AfterFocus, modeFlags, sharedFlags
  <2>4. CASE ObserveStep
    BY <2>4 DEF ObserveStep, Cycle, Begin, BeginFails, Expose, Arm,
       AwaitTrigger, ClearTrigger, Capture, Transfer, Sleep, modeFlags,
       sharedFlags
  <2>5. CASE TriggerPacket
    BY <2>5 DEF TriggerPacket
  <2>6. CASE Clean \/ UNCHANGED vars
    BY <2>6 DEF Clean, vars, sharedFlags, astroVars, modeFlags
  <2> QED
    BY <2>1, <2>2, <2>3, <2>4, <2>5, <2>6 DEF Next, AstroStep
<1> QED
  BY <1>1, <1>2, PTL DEF Spec

\* Two triggered images never share a trigger, whatever trigger packets,
\* mode changes and auto-focus runs come between them.
THEOREM EachTriggerUsedOnce == Spec => OneImagePerTrigger
<1>1. TypeOK /\ TriggerUnused /\ [Next]_vars
        => [astro = "await" /\ astro' = "clear"
              => unusedTrigger \/ shuttingDown = 1]_vars
  <2> SUFFICES ASSUME TypeOK, TriggerUnused, [Next]_vars,
                      astro = "await", astro' = "clear"
               PROVE  unusedTrigger \/ shuttingDown = 1
    BY DEF vars
  <2>1. ReleasedFromWait
    <3>1. ~(\E t \in Commanders :
               \/ t \in Listeners /\ (ListenerStep(t) \/ ReceivePacket(t))
               \/ t \in Clients /\ (ClientStep(t) \/ Connect(t)
                                      \/ ReceiveCommand(t)
                                      \/ ReceiveNothing(t)))
      BY CommandersKeepImageFlag
    <3>2. ~(TriggerPacket \/ Clean \/ UNCHANGED vars)
      BY DEF TriggerPacket, Clean, vars, astroVars
    <3>3. ~FocusStep
      BY DEF FocusStep, FocusStart, FocusToStart, FocusBin, FocusExhausted,
         FocusNearEnd, FocusCancelled, FocusExpose, FocusImage, FocusMeasure,
         FocusAbandon, FocusShift, FocusUnbin, FocusBack, FocusBest,
         FocusReturn
    <3>4. ObserveStep
      BY <3>1, <3>2, <3>3 DEF Next, AstroStep, Commanders
    <3> QED
      BY <3>4 DEF ObserveStep, Cycle, Begin, BeginFails, Expose, Arm,
         AwaitTrigger, ClearTrigger, Capture, Transfer, Sleep
  <2> QED
    BY <2>1 DEF ReleasedFromWait, TypeOK, Bit, TriggerUnused
<1> QED
  BY <1>1, TypeCorrect, TriggerUnusedInvariant, PTL
  DEF Spec, OneImagePerTrigger

-----------------------------------------------------------------------------
(***************************************************************************)
(* A commander that is alone.  What it found at the gate stays true until  *)
(* it is done with the lens: the Astrometry thread only ever lowers        *)
(* focus_mode.                                                             *)
(***************************************************************************)
LoneGateHeld ==
  \A t \in Commanders :
    Commanders = {t} /\ pc[t] \in {"image", "adjust"} => focusMode = 0

LEMMA AstroOnlyLowersFocusMode ==
  ASSUME AstroStep \/ TriggerPacket \/ Clean \/ UNCHANGED vars
  PROVE  focusMode' \in {focusMode, 0} /\ pc' = pc
<1> USE DEF sharedFlags, astroKeeps
<1>1. CASE FocusStep
  BY <1>1 DEF FocusStep, FocusStart, FocusToStart, FocusBin, FocusExhausted,
     FocusNearEnd, FocusCancelled, FocusExpose, FocusImage, FocusMeasure,
     FocusAbandon, FocusShift, FocusUnbin, FocusBack, FocusBest, FocusReturn
<1>2. CASE ObserveStep
  BY <1>2 DEF ObserveStep, Cycle, Begin, BeginFails, Expose, Arm,
     AwaitTrigger, ClearTrigger, Capture, Transfer, Sleep
<1>3. CASE TriggerPacket \/ Clean \/ UNCHANGED vars
  BY <1>3 DEF TriggerPacket, Clean, vars
<1> QED
  BY <1>1, <1>2, <1>3 DEF AstroStep

\* A lone commander drives the lens during an auto-focus run only if that
\* run has been told to stop; with two commanders it may drive it during a
\* run that goes on.
THEOREM LoneCommanderIsSafe == Spec => []LoneCommanderRespectsFocus
<1>1. Init => LoneGateHeld
  BY DEF Init, LoneGateHeld
<1>2. TypeOK /\ LoneGateHeld /\ [Next]_vars => LoneGateHeld'
  <2> SUFFICES ASSUME TypeOK, LoneGateHeld, [Next]_vars,
                      NEW t \in Commanders, Commanders = {t},
                      pc'[t] \in {"image", "adjust"}
               PROVE  focusMode' = 0
    BY DEF LoneGateHeld
  <2> USE DEF LoneGateHeld, TypeOK, Goto, sharedFlags
  <2>1. CASE Execute(t)
    <3>1. CASE FlagCancel(t)
      BY <3>1 DEF FlagCancel
    <3>2. CASE SetFocusMode(t)
      BY <3>2 DEF SetFocusMode
    <3>3. CASE PassGate(t)
      BY <3>3 DEF PassGate, GateOpen, AfterLens
    <3>4. CASE SeeNoImage(t)
      BY <3>4 DEF SeeNoImage
    <3>5. CASE AdjustCameraHardware(t)
      BY <3>5 DEF AdjustCameraHardware, AfterLens
    <3> QED
      BY <2>1, <3>1, <3>2, <3>3, <3>4, <3>5 DEF Execute
  <2>2. CASE t \in Listeners /\ (ListenerStep(t) \/ ReceivePacket(t))
    BY <2>1, <2>2 DEF ListenerStep, SetTriggerMode, ListenerUnlock,
       ListenerStops, ReceivePacket
  <2>3. CASE t \in Clients /\ (ClientStep(t) \/ Connect(t)
                                 \/ ReceiveCommand(t) \/ ReceiveNothing(t))
    <3>1. CASE SendTelemetry(t)
      BY <3>1 DEF SendTelemetry
    <3> QED
      BY <2>1, <2>3, <3>1 DEF ClientStep, SeeLockFree, TakeLock,
         ClientUnlock, Connect, ReceiveCommand, ReceiveNothing
  <2>4. CASE AstroStep \/ TriggerPacket \/ Clean \/ UNCHANGED vars
    BY <2>4, AstroOnlyLowersFocusMode
  <2> QED
    BY <2>2, <2>3, <2>4 DEF Next, Commanders
<1>3. LoneGateHeld => LoneCommanderRespectsFocus
  BY DEF LoneGateHeld, LoneCommanderRespectsFocus
<1> QED
  BY <1>1, <1>2, <1>3, TypeCorrect, PTL DEF Spec
=============================================================================
