----------------------------- MODULE MCImaging -----------------------------
(***************************************************************************)
(* Constants for Imaging: a dark sky with up to three stars and a bright   *)
(* pixel at the edge, the star values brightening or fading along the      *)
(* rows, some of them hot; the days around the end of February.            *)
(***************************************************************************)
EXTENDS Imaging

\* Where stars may be: some 3 x 3 smears touch, some overlap.
Places == <<<<4, 4>>, <<7, 4>>, <<5, 6>>, <<4, 7>>, <<8, 7>>>>
Values == <<12, 15, 19, 21, 31>>

Sky(stars, fading) ==
  [p \in Pixels |->
     LET at == {k \in stars : Places[k] = p}
     IN  IF p = <<0, 4>> THEN 30
         ELSE IF at = {} THEN 1
         ELSE LET k == CHOOSE k \in at : TRUE
              IN  IF fading THEN Values[6 - k] ELSE Values[k]]

\* The bits over the twelve of a pixel are anything.
MCImages ==
  {[p \in Pixels |-> Sky(stars, fading)[p] + (p[1] % 2) * (MaxPixel + 1)] :
     stars \in {s \in SUBSET (1 .. 5) : Cardinality(s) \in 2 .. 3},
     fading \in BOOLEAN}

MCThresholds == {0, 250}

Day(year, mon, mday, yday) == [year |-> year, mon |-> mon, mday |-> mday, yday |-> yday]
MCDates ==
  {Day(124, 1, 28, 58), Day(124, 1, 29, 59), Day(124, 2, 1, 60), Day(124, 11, 31, 365),
   Day(125, 1, 28, 58), Day(125, 2, 1, 59), Day(200, 2, 1, 59)}
=============================================================================
