---------------------------- MODULE MCAutoFocus ----------------------------
(***************************************************************************)
(* Constants for AutoFocus: a lens of the counts 0 .. 4 with a margin of   *)
(* one (25 in the code), a range whose upper end lies over the margin, and *)
(* steps of one, of the whole range, and the wrong way.  Commands ask for  *)
(* the lowest position.                                                    *)
(***************************************************************************)
EXTENDS AutoFocus

MCFirst   == {-1}
MCStarts  == {1}
MCEnds    == {4}
MCSteps   == {-1, 1, 2}
MCTargets == {0}
MCScores  == {0, 1}
=============================================================================
