------------------------------- MODULE Blobs -------------------------------
(***************************************************************************)
(* How stars are found in a filtered image (camera.c): findBlobs scans it  *)
(* for local maxima, keeps the brightest of those that are close together, *)
(* turns their rows into heights over the bottom of the image and sorts    *)
(* them by magnitude; doCameraAndAstrometry then moves each one to the     *)
(* centre of the light around it.                                          *)
(***************************************************************************)
EXTENDS Filters, SequencesExt

CONSTANTS
  Spacing,  \* all_blob_params.unique_star_spacing
  Bright,   \* the value from which a star keeps four times that distance
  Huge      \* UINT32_MAX: more than any value of an image

ASSUME SpacingAssumption == {Spacing, Bright, Huge} \subseteq Nat

NotANumber == -1  \* 0 / 0: no threshold

-----------------------------------------------------------------------------
(***************************************************************************)
(* The search.  On a plateau the last pixel scanned is the maximum.        *)
(***************************************************************************)
SearchArea(b) == (b + 1 .. Width - b - 3) \X (b + 1 .. Height - b - 3)

Before == {<<-1, -1>>, <<0, -1>>, <<1, -1>>, <<-1, 0>>}
After  == {<<1, 0>>, <<-1, 1>>, <<0, 1>>, <<1, 1>>}

IsPeak(ic, p) ==
  \/ /\ \A d \in Before : ic[p] >= ic[At(p, d[1], d[2])]
     /\ \A d \in After  : ic[p] >  ic[At(p, d[1], d[2])]
  \/ ic[p] > Scale * (MaxPixel - 1)

Candidates(ic, b, threshold) ==
  IF threshold = NotANumber THEN {}
  ELSE {p \in SearchArea(b) : ic[p] > threshold /\ IsPeak(ic, p)}

Magnitude(ic, p) == IF ic[p] < 0 THEN Huge ELSE ic[p]

Blob(ic, p) == [x |-> p[1], y |-> p[2], mag |-> Magnitude(ic, p)]

Distance(i, j) == IF i < j THEN j - i ELSE i - j

\* A blob near others takes the place of each of them that is fainter.
IsNear(new, old) ==
  LET spacing == IF new.mag > Bright THEN 4 * Spacing ELSE Spacing
  IN  Distance(new.x, old.x) < spacing /\ Distance(new.y, old.y) < spacing

Displaces(new, old) == new.mag # old.mag
Replaces(new, old)  == new.mag > old.mag

Keep(blobs, new) ==
  LET replaced == [i \in DOMAIN blobs |->
                     IF IsNear(new, blobs[i]) /\ Replaces(new, blobs[i])
                     THEN new ELSE blobs[i]]
  IN  IF \E i \in DOMAIN blobs : IsNear(new, blobs[i]) THEN replaced
      ELSE Append(blobs, new)

Search(ic, b, threshold) ==
  LET candidates == Candidates(ic, b, threshold)
      kept[k \in 0 .. Width * Height] ==
        IF k = 0 THEN <<>>
        ELSE IF PixelAt(k - 1) \in candidates
        THEN Keep(kept[k - 1], Blob(ic, PixelAt(k - 1)))
        ELSE kept[k - 1]
  IN  kept[Width * Height]

Flip(blobs) == [i \in DOMAIN blobs |-> [blobs[i] EXCEPT !.y = Height - @]]
-----------------------------------------------------------------------------
(***************************************************************************)
(* part and merge.  Each half ends in a magnitude of 0, so that a half     *)
(* that is used up loses against the other one, as long as there is no     *)
(* magnitude below or equal to it: what is behind a sentinel was never     *)
(* written.                                                                *)
(***************************************************************************)
Garbage == [x |-> -1, y |-> -1, mag |-> 0]
Half(blobs) == blobs \o <<Garbage, Garbage>>

TakeFainter(left, right) == left.mag <= right.mag
TakeLeft(left, right) == left.mag >= right.mag

merge(l, r) ==
  LET n == Len(l) + Len(r)
      step[k \in 0 .. n] ==
        IF k = 0 THEN [i |-> 1, j |-> 1, out |-> <<>>]
        ELSE LET s == step[k - 1]
                 left == Half(l)[s.i]
                 right == Half(r)[s.j]
             IN  IF s.i > Len(l) + 1 THEN [s EXCEPT !.out = Append(@, Garbage)]
                 ELSE IF TakeLeft(left, right)
                 THEN [i |-> s.i + 1, j |-> s.j, out |-> Append(s.out, left)]
                 ELSE [i |-> s.i, j |-> s.j + 1, out |-> Append(s.out, right)]
  IN  step[n].out

part(blobs) ==
  LET sorted[pr \in (DOMAIN blobs) \X (DOMAIN blobs)] ==
        LET p == pr[1]
            r == pr[2]
            q == (p + r) \div 2
        IN  IF p < r THEN merge(sorted[<<p, q>>], sorted[<<q + 1, r>>])
            ELSE SubSeq(blobs, p, r)
  IN  IF blobs = <<>> THEN <<>> ELSE sorted[<<1, Len(blobs)>>]

-----------------------------------------------------------------------------
(***************************************************************************)
(* The centroid of the 3 x 3 pixels around a blob, as its offset from the  *)
(* blob: a sum of weights over the sum of the light.                       *)
(***************************************************************************)
Block == (-1 .. 1) \X (-1 .. 1)

\* Light at an offset: x columns to the right and y rows on in memory.
LightAt(image, blob, d) == image[<<blob.x + d[1], Height - blob.y + d[2]>>]

Light(image, blob) == SumFunction([d \in Block |-> LightAt(image, blob, d)])

Centroid(image, blob) ==
  [x   |-> SumFunction([d \in Block |-> d[1] * LightAt(image, blob, d)]),
   y   |-> SumFunction([d \in Block |-> d[2] * LightAt(image, blob, d)]),
   sum |-> Light(image, blob)]

\* The reference: a row further on in memory is one closer to the bottom.
CentreOfLight(image, blob) ==
  LET lit == {p \in Pixels : /\ Distance(p[1], blob.x) <= 1
                             /\ Distance(Height - p[2], blob.y) <= 1}
  IN  [x   |-> SumFunction([p \in lit |-> (p[1] - blob.x) * image[p]]),
       y   |-> SumFunction([p \in lit |-> ((Height - p[2]) - blob.y) * image[p]]),
       sum |-> SumFunctionOnSet(image, lit)]
=============================================================================
