--------------------------- MODULE MCLensControl ---------------------------
(***************************************************************************)
(* Constants for LensControl: a lens of four counts, positions inside and  *)
(* past its stops, and exposures on both sides of a full millisecond.      *)
(***************************************************************************)
EXTENDS LensControl

MCMinFocus   == -1
MCDefaultOffset == -2
MCPositions  == {0, 4}
MCStepCounts == {0, 3}
MCExposures  == {10, 11, 20}

\* Move the focus, leave it or go to infinity; move the aperture or open it.
Move == [focus |-> 4, inf |-> 0, open |-> 0, steps |-> 3, exposure |-> 11]
MCClientCommands ==
  {Move,
   [Move EXCEPT !.focus = KeepPosition, !.steps = 0, !.exposure = 20],
   [Move EXCEPT !.focus = 0, !.inf = 1, !.open = 1, !.exposure = 10]}
MCNoClients == {}
=============================================================================
