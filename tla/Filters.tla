------------------------------ MODULE Filters ------------------------------
(***************************************************************************)
(* What is done to an image before stars are looked for in it (camera.c):  *)
(* 12 bits of each pixel are kept, hot pixels are masked, and the image is *)
(* smoothed with a box that slides along the rows, its sums added up over  *)
(* the columns.  An image is a function from pixels <<column, row>>; a     *)
(* double is a multiple of 1/Scale.                                        *)
(***************************************************************************)
EXTENDS Integers, FiniteSets, Functions

CONSTANTS
  Width, Height,  \* CAMERA_WIDTH, CAMERA_HEIGHT
  MaxPixel,       \* CAMERA_MAX_PIXVAL
  CharMax,        \* the largest value of a char, in which a row's pixels are counted
  SpikeLimit,     \* all_blob_params.spike_limit
  Scale           \* precision of the model's doubles

ASSUME SizeAssumption ==
  /\ {Width, Height, MaxPixel, CharMax, SpikeLimit, Scale} \subseteq Nat \ {0}

Cols == 0 .. Width - 1
Rows == 0 .. Height - 1
Pixels == Cols \X Rows
Image == [Pixels -> 0 .. MaxPixel]

\* The pixels that are at least n from every edge.
Inside(n) == (n .. Width - 1 - n) \X (n .. Height - 1 - n)

At(p, dx, dy) == <<p[1] + dx, p[2] + dy>>

\* An image lies row by row in memory, and the loops follow it.
Index(p) == p[1] + p[2] * Width
PixelAt(k) == <<k % Width, k \div Width>>

unpack_mono12(packed) == [p \in Pixels |-> packed[p] % (MaxPixel + 1)]

-----------------------------------------------------------------------------
(***************************************************************************)
(* makeMask: the pixels that count.  A pixel is hot if it stands out from  *)
(* its four neighbours, or from its four diagonal ones.                    *)
(***************************************************************************)
SumAt(image, p, offsets) == SumFunction([d \in offsets |-> image[At(p, d[1], d[2])]])
Cross    == {<<-1, 0>>, <<1, 0>>, <<0, -1>>, <<0, 1>>}
Diagonal == {-1, 1} \X {-1, 1}

NotHot(image, p) ==
  LET v == (100 * image[p]) \div (100 * SpikeLimit)
  IN  v < SumAt(image, p, Cross) + 4 /\ v < SumAt(image, p, Diagonal) + 4

Without(pixels, hotPixels)  == pixels \ hotPixels
Swapping(pixels, hotPixels) == (pixels \ hotPixels) \union (hotPixels \ pixels)
Masked(pixels, hotPixels)   == Without(pixels, hotPixels)

makeMask(image, dynamic, useStatic, hotPixels) ==
  Masked({p \in Inside(1) : dynamic => NotHot(image, p)},
         IF useStatic THEN hotPixels ELSE {})

-----------------------------------------------------------------------------
(***************************************************************************)
(* boxcarFilterImage.  A row's sum and its number of pixels are those of   *)
(* the pixel before, plus the pixel that comes in, minus the one that goes *)
(* out.                                                                    *)
(***************************************************************************)
LeavingNext(i, r) == i - r
LeavingLast(i, r) == i - r - 1
Leaving(i, r) == LeavingLast(i, r)

RowSum(v, r, row) ==
  LET sum[i \in r .. Width - 1 - r] ==
        IF i = r THEN SumFunction([x \in 0 .. 2 * r |-> v[<<x, row>>]])
        ELSE sum[i - 1] + v[<<i + r, row>>] - v[<<Leaving(i, r), row>>]
  IN  sum

\* The count is kept in a char and wraps.
AsChar(n) == LET m == n % (2 * (CharMax + 1))
             IN  IF m > CharMax THEN m - 2 * (CharMax + 1) ELSE m

SumRows(image, mask, r) ==
  LET weighed == [p \in Pixels |-> IF p \in mask THEN image[p] ELSE 0]
      counted == [p \in Pixels |-> IF p \in mask THEN 1 ELSE 0]
  IN  [sums   |-> [row \in Rows |-> RowSum(weighed, r, row)],
       counts |-> [row \in Rows |-> RowSum(counted, r, row)]]

\* A window without a pixel that counts takes the value of the window before
\* it, in the order of the loops; what is too near the edge is left as it was.
SumColumns(rows, r, filtered) ==
  LET s(p) == SumFunction([y \in p[2] - r .. p[2] + r |-> rows.sums[y][p[1]]])
      n(p) == SumFunction([y \in p[2] - r .. p[2] + r |-> AsChar(rows.counts[y][p[1]])])
      last[k \in 0 .. Width * Height - 1] ==
        IF PixelAt(k) \in Inside(r) /\ n(PixelAt(k)) > 0
        THEN (Scale * s(PixelAt(k))) \div n(PixelAt(k))
        ELSE IF k = 0 THEN 0 ELSE last[k - 1]
  IN  [p \in Pixels |-> IF p \in Inside(r) THEN last[Index(p)] ELSE filtered[p]]

\* The reference: the mean of the pixels that count around p.
Around(p, r, mask) ==
  ((p[1] - r .. p[1] + r) \X (p[2] - r .. p[2] + r)) \intersect mask
Mean(image, mask, r, p) ==
  LET column(x) == {y \in p[2] - r .. p[2] + r : <<x, y>> \in mask}
      light(x)  == SumFunction([y \in column(x) |-> image[<<x, y>>]])
      total     == SumFunction([x \in p[1] - r .. p[1] + r |-> light(x)])
  IN  (Scale * total) \div Cardinality(Around(p, r, mask))
=============================================================================
