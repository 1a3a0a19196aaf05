---------------------------- MODULE FocusSearch -----------------------------
(***************************************************************************)
(* What an auto-focus run promises, whatever the lens and the commanders   *)
(* do meanwhile: it measures the sharpness of images at some positions     *)
(* and, if it settles at all, settles on the position of a sharpest image, *)
(* brought into the range of the lens.  A run without an image settles on  *)
(* a position of its own choice in that range; a run may be abandoned.     *)
(***************************************************************************)
EXTENDS Integers

CONSTANTS
  MinFocus, MaxFocus,  \* the range of the lens, in encoder counts: integers
  Scores               \* the sharpness an image can have

VARIABLES
  phase,   \* "idle", "searching", "settled" or "abandoned"
  seen,    \* the images of this run: pairs of position and sharpness
  chosen   \* the position the run settled on, in a set, or nothing

searchVars == <<phase, seen, chosen>>

InRange(p) == IF p > MaxFocus THEN MaxFocus
              ELSE IF p < MinFocus THEN MinFocus ELSE p

Sharpest == {i \in seen : \A j \in seen : j[2] <= i[2]}

Init == phase = "idle" /\ seen = {} /\ chosen = {}

Start ==
  /\ phase # "searching"
  /\ phase' = "searching"
  /\ seen' = {}
  /\ chosen' = {}

\* One more image, at any position.
Measure ==
  /\ phase = "searching"
  /\ seen \subseteq seen'
  /\ \A i, j \in seen' \ seen : i = j
  /\ \A i \in seen' \ seen : i[1] \in Int /\ i[2] \in Scores
  /\ UNCHANGED <<phase, chosen>>

Settle ==
  /\ phase = "searching"
  /\ phase' = "settled"
  /\ IF seen = {} THEN \E p \in MinFocus .. MaxFocus : chosen' = {p}
     ELSE \E i \in Sharpest : chosen' = {InRange(i[1])}
  /\ UNCHANGED seen

Abandon ==
  /\ phase = "searching"
  /\ phase' = "abandoned"
  /\ UNCHANGED <<seen, chosen>>

SearchNext == Start \/ Measure \/ Settle \/ Abandon

SearchSpec == Init /\ [][SearchNext]_searchVars
=============================================================================
