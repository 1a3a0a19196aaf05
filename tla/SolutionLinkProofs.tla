------------------------- MODULE SolutionLinkProofs -------------------------
(***************************************************************************)
(* Proofs about SolutionLink, for any set of computers and any number of   *)
(* cycles.                                                                 *)
(***************************************************************************)
EXTENDS SolutionLink, TLAPS

\* Every variable of the handshake stays in its set, whatever the threads do
\* to each other: the flags stay 0 or 1, the packets hold cycles.
THEOREM TypeCorrect == Spec => []TypeOK
<1>1. Init => TypeOK
  BY CyclesAssumption
     DEF Init, TypeOK, Cycles, AstroLabels, LinkLabels, Packet, Tally, None
<1>2. TypeOK /\ [Next]_vars => TypeOK'
  <2> SUFFICES ASSUME TypeOK, [Next]_vars PROVE TypeOK'
    OBVIOUS
  <2> USE CyclesAssumption DEF TypeOK
  <2>1. CASE Begin
    BY <2>1 DEF Begin, astroKeeps, linkVars, Cycles, AstroLabels
  <2>2. CASE Stop
    BY <2>2 DEF Stop, astroKeeps, linkVars, AstroLabels
  <2>3. CASE Expose
    BY <2>3 DEF Expose, astroKeeps, linkVars, AstroLabels
  <2>4. CASE LeaveUnsolved
    BY <2>4 DEF LeaveUnsolved, astroKeeps, linkVars, AstroLabels
  <2>5. CASE Solve \/ Ascend
    BY <2>5 DEF Solve, Ascend, astroKeeps, linkVars, AstroLabels
  <2>6. CASE Orient
    BY <2>6 DEF Orient, astroKeeps, linkVars, AstroLabels
  <2>7. ASSUME NEW f \in Computers, RaiseFlag(f) PROVE TypeOK'
    <3>1. notice' \in [Computers -> Tally]
      BY <2>7 DEF RaiseFlag, Count, Tally
    <3>2. QED
      BY <2>7, <3>1 DEF RaiseFlag, Raise, linkVars, AstroLabels
  <2>8. ASSUME NEW f \in Computers, SeeSolved(f) \/ Close(f) PROVE TypeOK'
    BY <2>8 DEF SeeSolved, Close, LinkGoto, linkKeeps, astroVars, LinkLabels
  <2>9. ASSUME NEW f \in Computers,
               PackAlt(f) \/ PackDec(f) \/ PackPhoto(f) \/ PackRa(f)
        PROVE TypeOK'
    <3>1. packet' \in [Computers -> Packet]
      <4>1. packet[f] \in Packet
        OBVIOUS
      <4>2. \A n \in Cycles : /\ [packet[f] EXCEPT !.alt = n] \in Packet
                               /\ [packet[f] EXCEPT !.dec = n] \in Packet
                               /\ [packet[f] EXCEPT !.photo = n] \in Packet
                               /\ [packet[f] EXCEPT !.ra = n] \in Packet
        BY ONLY <4>1 DEF Packet
      <4>3. PICK p \in Packet : packet' = [packet EXCEPT ![f] = p]
        BY <2>9, <4>2 DEF PackAlt, PackDec, PackPhoto, PackRa
      <4> QED BY <4>3
    <3>2. QED
      BY <2>9, <3>1 DEF PackAlt, PackDec, PackPhoto, PackRa, LinkGoto,
                        linkKeeps, astroVars, LinkLabels
  <2>10. ASSUME NEW f \in Computers, ClearFlag(f) PROVE TypeOK'
    BY <2>10 DEF ClearFlag, Clear, LinkGoto, linkKeeps, astroVars, LinkLabels
  <2>11. ASSUME NEW f \in Computers, Send(f) PROVE TypeOK'
    <3>1. sent' \in [Computers -> Tally]
      BY <2>11 DEF Send, Count, Tally, Packet
    <3>2. QED
      BY <2>11, <3>1 DEF Send, LinkGoto, linkKeeps, astroVars, LinkLabels
  <2>12. CASE Clean
    BY <2>12 DEF Clean, astroVars, linkVars
  <2>13. CASE UNCHANGED vars
    BY <2>13 DEF vars, astroVars, linkVars
  <2>14. QED
    BY <2>1, <2>2, <2>3, <2>4, <2>5, <2>6, <2>7, <2>8, <2>9, <2>10, <2>11,
       <2>12, <2>13 DEF Next, AstroStep, LinkStep
<1>3. QED
  BY <1>1, <1>2, PTL DEF Spec

-----------------------------------------------------------------------------
(***************************************************************************)
(* FieldsNotNewerThanTime is not inductive.  It needs the order of the     *)
(* writes (photo_time, then dec_j2000, ra_j2000 and alt of a cycle) and of *)
(* the reads: what was read first was never newer than all_astro_params,   *)
(* so what is read after it is as new.                                     *)
(***************************************************************************)
WritesOrdered ==
  /\ alt <= ra /\ ra <= dec /\ dec <= photo
  /\ photo <= cycle
  /\ astro \in {"solve", "ascend", "orient"} => photo = cycle
  /\ astro \in {"ascend", "orient"} => dec = cycle
  /\ astro = "orient" => ra = cycle

ReadsOrdered ==
  \A f \in Computers :
    /\ packet[f].alt <= alt /\ packet[f].dec <= dec
    /\ link[f] \in {"packRa", "clear", "send"}
         => packet[f].alt <= packet[f].photo /\ packet[f].dec <= packet[f].photo
    /\ link[f] \in {"clear", "send"} => packet[f].alt <= packet[f].ra

TimeInv == WritesOrdered /\ ReadsOrdered

\* In a complete packet the fields read before photo_time are of no later
\* image than the time, and alt of none later than ra, however many solutions
\* were written while it was filled (lostInSpace, doCameraAndAstrometry,
\* populate_astrometry_packet).  ra itself may be of a later one.
THEOREM FieldsAreNotNewer == Spec => []FieldsNotNewerThanTime
<1>1. Init => TimeInv
  BY DEF Init, TimeInv, WritesOrdered, ReadsOrdered
<1>2. TypeOK /\ TimeInv /\ [Next]_vars => TimeInv'
  <2> SUFFICES ASSUME TypeOK, TimeInv, [Next]_vars PROVE TimeInv'
    OBVIOUS
  <2> USE CyclesAssumption DEF TypeOK, TimeInv, WritesOrdered, ReadsOrdered,
                               Cycles, Packet
  <2>1. CASE Begin
    BY <2>1 DEF Begin, astroKeeps, linkVars
  <2>2. CASE Stop \/ LeaveUnsolved
    BY <2>2 DEF Stop, LeaveUnsolved, astroKeeps, linkVars
  <2>3. CASE Expose
    BY <2>3 DEF Expose, astroKeeps, linkVars
  <2>4. CASE Solve \/ Ascend
    BY <2>4 DEF Solve, Ascend, astroKeeps, linkVars
  <2>5. CASE Orient
    BY <2>5 DEF Orient, astroKeeps, linkVars
  <2>6. ASSUME NEW f \in Computers, RaiseFlag(f) PROVE TimeInv'
    BY <2>6 DEF RaiseFlag, linkVars
  <2>7. ASSUME NEW f \in Computers,
               SeeSolved(f) \/ Close(f) \/ ClearFlag(f) \/ Send(f)
        PROVE TimeInv'
    BY <2>7 DEF SeeSolved, Close, ClearFlag, Send, LinkGoto, linkKeeps,
                astroVars
  <2>8. ASSUME NEW f \in Computers, PackAlt(f) \/ PackDec(f) PROVE TimeInv'
    BY <2>8 DEF PackAlt, PackDec, LinkGoto, linkKeeps, astroVars
  <2>9. ASSUME NEW f \in Computers, PackPhoto(f) PROVE TimeInv'
    BY <2>9 DEF PackPhoto, LinkGoto, linkKeeps, astroVars
  <2>10. ASSUME NEW f \in Computers, PackRa(f) PROVE TimeInv'
    BY <2>10 DEF PackRa, LinkGoto, linkKeeps, astroVars
  <2>11. CASE Clean \/ UNCHANGED vars
    BY <2>11 DEF Clean, vars, astroVars, linkVars
  <2>12. QED
    BY <2>1, <2>2, <2>3, <2>4, <2>5, <2>6, <2>7, <2>8, <2>9, <2>10, <2>11
       DEF Next, AstroStep, LinkStep
<1>3. TimeInv => FieldsNotNewerThanTime
  BY DEF TimeInv, ReadsOrdered, FieldsNotNewerThanTime, Packed
<1>4. QED
  BY <1>1, <1>2, <1>3, TypeCorrect, PTL DEF Spec

-----------------------------------------------------------------------------
(***************************************************************************)
(* Every packet sent or under way answers a raise of its own, and a raised *)
(* flag is one more raise that is still to be answered, except between the *)
(* poll that has seen it and the write that lowers it.                     *)
(***************************************************************************)
Filling == {"packAlt", "packDec", "packPhoto", "packRa", "clear"}

Answered(f) == link[f] \in LinkLabels \ (Filling \union {"send"})

RaisesCoverPackets ==
  \A f \in Computers :
    /\ link[f] \in Filling => sent[f].times + 1 <= notice[f].times
    /\ link[f] = "send"
         => sent[f].times + 1 + imageSolved[f] <= notice[f].times
    /\ Answered(f) => sent[f].times + imageSolved[f] <= notice[f].times

\* A computer gets no more packets than solutions were announced to it.
THEOREM PacketsAnswerSolutions == Spec => []NoMorePacketsThanSolutions
<1>1. Init => RaisesCoverPackets
  <2> SUFFICES ASSUME Init, NEW f \in Computers
               PROVE  /\ link[f] \notin Filling \union {"send"}
                      /\ sent[f].times + imageSolved[f] <= notice[f].times
    BY DEF RaisesCoverPackets, Answered
  <2>1. sent[f].times = 0 /\ notice[f].times = 0 /\ imageSolved[f] = 0
    BY DEF Init, None
  <2>2. link[f] \in {"poll", "closed"}
    BY DEF Init
  <2>3. QED
    BY <2>1, <2>2 DEF Filling
<1>2. TypeOK /\ RaisesCoverPackets /\ [Next]_vars => RaisesCoverPackets'
  <2> SUFFICES ASSUME TypeOK, RaisesCoverPackets, [Next]_vars
               PROVE  RaisesCoverPackets'
    OBVIOUS
  <2> USE DEF TypeOK, RaisesCoverPackets, Answered, Filling, LinkLabels, Tally
  <2>1. CASE Begin \/ Stop \/ Expose \/ LeaveUnsolved \/ Solve \/ Ascend
               \/ Orient
    BY <2>1 DEF Begin, Stop, Expose, LeaveUnsolved, Solve, Ascend, Orient,
                astroKeeps, linkVars
  <2>2. ASSUME NEW f \in Computers, RaiseFlag(f) PROVE RaisesCoverPackets'
    BY <2>2 DEF RaiseFlag, Raise, Count, linkVars
  <2>3. ASSUME NEW f \in Computers, SeeSolved(f) \/ Close(f)
        PROVE RaisesCoverPackets'
    BY <2>3 DEF SeeSolved, Close, LinkGoto, linkKeeps, astroVars
  <2>4. ASSUME NEW f \in Computers,
               PackAlt(f) \/ PackDec(f) \/ PackPhoto(f) \/ PackRa(f)
        PROVE RaisesCoverPackets'
    BY <2>4 DEF PackAlt, PackDec, PackPhoto, PackRa, LinkGoto, linkKeeps,
                astroVars
  <2>5. ASSUME NEW f \in Computers, ClearFlag(f) PROVE RaisesCoverPackets'
    BY <2>5 DEF ClearFlag, Clear, LinkGoto, linkKeeps, astroVars
  <2>6. ASSUME NEW f \in Computers, Send(f) PROVE RaisesCoverPackets'
    BY <2>6 DEF Send, Count, LinkGoto, linkKeeps, astroVars
  <2>7. CASE Clean \/ UNCHANGED vars
    BY <2>7 DEF Clean, vars, astroVars, linkVars
  <2>8. QED
    BY <2>1, <2>2, <2>3, <2>4, <2>5, <2>6, <2>7 DEF Next, AstroStep, LinkStep
<1>3. TypeOK /\ RaisesCoverPackets => NoMorePacketsThanSolutions
  <2> SUFFICES ASSUME TypeOK, RaisesCoverPackets, NEW f \in Computers
               PROVE  sent[f].times <= notice[f].times
    BY DEF NoMorePacketsThanSolutions
  <2>1. sent[f].times \in Nat /\ notice[f].times \in Nat
    BY DEF TypeOK, Tally
  <2>2. imageSolved[f] \in {0, 1} /\ link[f] \in LinkLabels
    BY DEF TypeOK
  <2>3. QED
    BY <2>1, <2>2 DEF RaisesCoverPackets, Answered
<1>4. QED
  BY <1>1, <1>2, <1>3, TypeCorrect, PTL DEF Spec
=============================================================================
