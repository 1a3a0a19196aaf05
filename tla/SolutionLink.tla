---------------------------- MODULE SolutionLink ----------------------------
(***************************************************************************)
(* How pointing solutions reach the flight computers: the Astrometry       *)
(* thread writes all_astro_params over each cycle and raises image_solved  *)
(* for every computer (camera.c, astrometry.c); one astrometry_data_thread *)
(* per computer polls its flag, copies the parameters into a packet, lowers*)
(* the flag and sends (sc_send.c).  No lock guards any of it.              *)
(*                                                                         *)
(* A field of all_astro_params is known by the cycle that wrote it.  Three *)
(* fields of a direction stand for the groups that are written and read at *)
(* different times: dec_j2000, ra_j2000 and alt are written in this order  *)
(* and read in the order alt, dec_j2000, photo_time, ra_j2000.             *)
(***************************************************************************)
EXTENDS Integers

CONSTANTS
  Computers,   \* the flight computers, each with its data thread
  MaxCycles    \* bound: cycles of the Astrometry thread

ASSUME CyclesAssumption == MaxCycles \in Nat

VARIABLES
  astro,         \* where the Astrometry thread is
  cycle,         \* the number of its cycle
  photo, dec, ra, alt,   \* all_astro_params.photo_time, .dec_j2000,
                 \* .ra_j2000, .alt
  raised,        \* the computers whose flag is being raised this cycle
  imageSolved,   \* image_solved, per computer
  shuttingDown,  \* shutting_down
  link,          \* where each data thread is
  packet,        \* image_data, the packet of each data thread
  notice,        \* history: the solution each flag was last raised for, and
                 \* how many times it has been raised
  sent           \* history: the solution each thread last sent, and how many
                 \* times it has sent one

astroVars == <<astro, cycle, photo, dec, ra, alt, raised>>
linkVars  == <<link, packet, sent>>
vars == <<astroVars, imageSolved, shuttingDown, linkVars, notice>>

Cycles == 0 .. MaxCycles
AstroLabels == {"begin", "expose", "solve", "ascend", "orient", "raise",
                "closed"}
LinkLabels  == {"poll", "packAlt", "packDec", "packPhoto", "packRa", "clear",
                "send", "closed"}
Packet == [alt : Cycles, dec : Cycles, photo : Cycles, ra : Cycles]

\* Which solution, and how many solutions so far.
Tally == [of : Cycles, times : Nat]
None  == [of |-> 0, times |-> 0]
Count(tally, n) == [of |-> n, times |-> tally.times + 1]

\* A thread that cannot resolve its computer's address has ended at once.
Init ==
  /\ astro = "begin" /\ cycle = 0
  /\ photo = 0 /\ dec = 0 /\ ra = 0 /\ alt = 0
  /\ raised = {}
  /\ imageSolved = [f \in Computers |-> 0]
  /\ shuttingDown = 0
  /\ link \in [Computers -> {"poll", "closed"}]
  /\ packet = [f \in Computers |->
                 [alt |-> 0, dec |-> 0, photo |-> 0, ra |-> 0]]
  /\ notice = [f \in Computers |-> None]
  /\ sent = [f \in Computers |-> None]

-----------------------------------------------------------------------------
(***************************************************************************)
(* The Astrometry thread.                                                  *)
(***************************************************************************)
astroKeeps == <<imageSolved, shuttingDown, linkVars, notice>>

\* A cycle begins; with its observing file closed to it, the next one does.
Begin ==
  /\ astro = "begin"
  /\ shuttingDown = 0
  /\ cycle < MaxCycles
  /\ cycle' = cycle + 1
  /\ astro' \in {"expose", "begin"}
  /\ UNCHANGED <<photo, dec, ra, alt, raised, astroKeeps>>

Stop ==
  /\ astro = "begin"
  /\ shuttingDown = 1
  /\ astro' = "closed"
  /\ UNCHANGED <<cycle, photo, dec, ra, alt, raised, astroKeeps>>

\* photo_time is set after the capture, whether or not the image arrives.
Expose ==
  /\ astro = "expose"
  /\ photo' = cycle
  /\ astro' \in {"solve", "begin"}
  /\ UNCHANGED <<cycle, dec, ra, alt, raised, astroKeeps>>

\* lostInSpace finds no solution, or cannot convert it, or writes the fields.
LeaveUnsolved ==
  /\ astro = "solve"
  /\ astro' = "begin"
  /\ UNCHANGED <<cycle, photo, dec, ra, alt, raised, astroKeeps>>

Solve ==
  /\ astro = "solve"
  /\ dec' = cycle
  /\ astro' = "ascend"
  /\ UNCHANGED <<cycle, photo, ra, alt, raised, astroKeeps>>

Ascend ==
  /\ astro = "ascend"
  /\ ra' = cycle
  /\ astro' = "orient"
  /\ UNCHANGED <<cycle, photo, dec, alt, raised, astroKeeps>>

Orient ==
  /\ astro = "orient"
  /\ alt' = cycle
  /\ raised' = {}
  /\ astro' = "raise"
  /\ UNCHANGED <<cycle, photo, dec, ra, astroKeeps>>

\* The flags are raised one after the other.
RaiseCounting(f) == [imageSolved EXCEPT ![f] = @ + 1]
Raise(f) == [imageSolved EXCEPT ![f] = 1]

RaiseFlag(f) ==
  /\ astro = "raise"
  /\ f \notin raised
  /\ imageSolved' = Raise(f)
  /\ notice' = [notice EXCEPT ![f] = Count(@, alt)]
  /\ raised' = raised \union {f}
  /\ astro' = IF raised' = Computers THEN "begin" ELSE "raise"
  /\ UNCHANGED <<cycle, photo, dec, ra, alt, shuttingDown, linkVars>>

AstroStep == Begin \/ Stop \/ Expose \/ LeaveUnsolved \/ Solve \/ Ascend
               \/ Orient \/ \E f \in Computers : RaiseFlag(f)

-----------------------------------------------------------------------------
(***************************************************************************)
(* astrometry_data_thread.                                                 *)
(***************************************************************************)
LinkGoto(f, label) == link' = [link EXCEPT ![f] = label]
linkKeeps == <<astroVars, shuttingDown, notice>>

SeeSolved(f) ==
  /\ link[f] = "poll"
  /\ shuttingDown = 0
  /\ imageSolved[f] = 1
  /\ LinkGoto(f, "packAlt")
  /\ UNCHANGED <<linkKeeps, imageSolved, packet, sent>>

Close(f) ==
  /\ link[f] = "poll"
  /\ shuttingDown = 1
  /\ LinkGoto(f, "closed")
  /\ UNCHANGED <<linkKeeps, imageSolved, packet, sent>>

\* populate_astrometry_packet, in the order of its assignments.
PackAlt(f) ==
  /\ link[f] = "packAlt"
  /\ packet' = [packet EXCEPT ![f].alt = alt]
  /\ LinkGoto(f, "packDec")
  /\ UNCHANGED <<linkKeeps, imageSolved, sent>>

PackDec(f) ==
  /\ link[f] = "packDec"
  /\ packet' = [packet EXCEPT ![f].dec = dec]
  /\ LinkGoto(f, "packPhoto")
  /\ UNCHANGED <<linkKeeps, imageSolved, sent>>

PackPhoto(f) ==
  /\ link[f] = "packPhoto"
  /\ packet' = [packet EXCEPT ![f].photo = photo]
  /\ LinkGoto(f, "packRa")
  /\ UNCHANGED <<linkKeeps, imageSolved, sent>>

PackAltLast(f) ==
  /\ link[f] = "packRa"
  /\ packet' = [packet EXCEPT ![f].ra = ra, ![f].alt = alt]
  /\ LinkGoto(f, "clear")
  /\ UNCHANGED <<linkKeeps, imageSolved, sent>>

PackRa(f) ==
  /\ link[f] = "packRa"
  /\ packet' = [packet EXCEPT ![f].ra = ra]
  /\ LinkGoto(f, "clear")
  /\ UNCHANGED <<linkKeeps, imageSolved, sent>>

ClearNone(f) == imageSolved
ClearAll(f)  == [g \in Computers |-> 0]
Clear(f)     == [imageSolved EXCEPT ![f] = 0]

ClearFlag(f) ==
  /\ link[f] = "clear"
  /\ imageSolved' = Clear(f)
  /\ LinkGoto(f, "send")
  /\ UNCHANGED <<linkKeeps, packet, sent>>

\* sendto; a packet that is lost here or later is not sent again.
Send(f) ==
  /\ link[f] = "send"
  /\ sent' = [sent EXCEPT ![f] = Count(@, packet[f].alt)]
  /\ LinkGoto(f, "poll")
  /\ UNCHANGED <<linkKeeps, imageSolved, packet>>

LinkStep(f) == SeeSolved(f) \/ Close(f) \/ PackAlt(f) \/ PackDec(f)
                 \/ PackPhoto(f) \/ PackRa(f) \/ ClearFlag(f) \/ Send(f)

Clean ==
  /\ shuttingDown' = 1
  /\ UNCHANGED <<astroVars, imageSolved, linkVars, notice>>

Next == AstroStep \/ (\E f \in Computers : LinkStep(f)) \/ Clean

Spec == Init /\ [][Next]_vars

\* Every thread of the process keeps running.
FairSpec == /\ Spec
            /\ WF_vars(AstroStep)
            /\ \A f \in Computers : WF_vars(LinkStep(f))

-----------------------------------------------------------------------------
(***************************************************************************)
(* Properties.                                                             *)
(***************************************************************************)
TypeOK ==
  /\ astro \in AstroLabels /\ cycle \in Cycles
  /\ photo \in Cycles
  /\ dec \in Cycles /\ ra \in Cycles /\ alt \in Cycles
  /\ raised \subseteq Computers
  /\ imageSolved \in [Computers -> {0, 1}]
  /\ shuttingDown \in {0, 1}
  /\ link \in [Computers -> LinkLabels]
  /\ packet \in [Computers -> Packet]
  /\ notice \in [Computers -> Tally]
  /\ sent \in [Computers -> Tally]

Packed(f) == link[f] \in {"clear", "send"}

\* What a packet may mix when a new solution is written while it is filled.
\* The fields read before photo_time are never of a later image than the time
\* they are sent with, and alt is never of a later image than ra.  Nothing
\* more is promised: ra may be of a later image than the time, and alt, dec
\* and ra of three different ones.  This rests on the order of the reads
\* against the order of the writes, nothing else.
FieldsNotNewerThanTime ==
  \A f \in Computers : Packed(f) =>
    /\ packet[f].alt <= packet[f].photo
    /\ packet[f].dec <= packet[f].photo
    /\ packet[f].alt <= packet[f].ra

\* A computer gets no more packets than solutions were announced to it, even
\* where its flag is raised again while a packet is being filled or sent.
NoMorePacketsThanSolutions ==
  \A f \in Computers : sent[f].times <= notice[f].times

\* A computer whose flag is raised gets the solution of that moment or a
\* newer one, or the program shuts down, or its data thread has ended; one
\* computer's packets do not use up the other's flag.
SolutionsArrive ==
  \A f \in Computers : \A n \in Cycles :
    (link[f] = "poll" /\ imageSolved[f] = 1 /\ notice[f].of = n)
      ~> (sent[f].of >= n \/ shuttingDown = 1)
=============================================================================
