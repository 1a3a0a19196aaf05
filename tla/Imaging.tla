------------------------------ MODULE Imaging ------------------------------
(***************************************************************************)
(* From an image to the stars handed to the solver: the part of            *)
(* doCameraAndAstrometry and findBlobs (camera.c) between the transfer of  *)
(* the image and lostInSpace, while packets change its parameters.  The    *)
(* steps are those between which a packet makes a difference; the pixels'  *)
(* arithmetic is that of Filters and Blobs.  The threshold of the search,  *)
(* mean + n_sigma * sigma, is any value, or none when no pixel counts.     *)
(***************************************************************************)
EXTENDS Blobs

CONSTANTS
  Images,      \* what the camera may deliver
  Dates,       \* what gmtime may return
  Thresholds,  \* what the search may ask for
  MapLevels,   \* values of make_static_hp_mask in a packet, 0 for no request
  RSmooth, RHighPass, Border,  \* radii and centroid_search_border
  MinBlobs, MaxBlobs,          \* MIN_BLOBS, MAX_BLOBS
  MaxImages, MaxPackets        \* bounds

\* What the default parameters satisfy: the search reads what has been
\* smoothed, a row of the box is counted in a char, and the high-pass filter
\* has the larger box.
ASSUME RadiiAssumption ==
  /\ {RSmooth, RHighPass, Border} \subseteq Nat
  /\ RSmooth <= Border /\ 2 * RSmooth + 1 <= CharMax
  /\ RSmooth <= RHighPass /\ 0 < RHighPass /\ 2 * RHighPass + 1 <= CharMax

\* With some noise in the image the threshold is not below 0, and every
\* magnitude is above it.
ASSUME ThresholdAssumption == Thresholds \subseteq Nat

\* gmtime gives days of the Gregorian calendar, of the years 1970 to 2299.
ASSUME DatesAssumption ==
  \A tm \in Dates :
    LET year == 1900 + tm.year
        leap == year % 4 = 0 /\ (year % 100 # 0 \/ year % 400 = 0)
    IN  /\ tm.year \in 70 .. 399
        /\ leap /\ tm.yday = 59 => tm.mon = 1 /\ tm.mday = 29

ASSUME InputAssumption ==
  /\ Images \subseteq [Pixels -> Nat]
  /\ 0 \in MapLevels /\ MapLevels \subseteq Nat
  /\ {MinBlobs, MaxBlobs, MaxImages, MaxPackets} \subseteq Nat

VARIABLES
  stage,      \* what comes next
  dated,      \* the date as gmtime gave it and as it is passed on
  image,      \* unpacked_image
  makeMap,    \* all_blob_params.make_static_hp_mask
  highPass,   \* all_blob_params.high_pass_filter
  mapFile,    \* the file of hot pixels
  hotPixels,  \* the hot pixels in memory
  firstTime,  \* has the file never been read?
  mask,       \* the pixels that count
  rows,       \* ibc1 and nc: the sums along the rows
  ic,         \* the filtered image
  border,     \* how far from the edge the search starts
  threshold,  \* what the search asks of a blob
  found,      \* history: the blobs as the search left them
  blobs,      \* the blobs
  centres,    \* their centroids
  retried,    \* has the image been searched a second time?
  withdrawn,  \* history: was a request taken back after its map was made?
  images,     \* bound: images so far
  packets     \* bound: packets so far

dateVars   == <<dated, images>>
packetVars == <<makeMap, highPass, withdrawn, packets>>
mapVars    == <<mapFile, hotPixels, firstTime>>
filterVars == <<mask, rows, ic, border>>
blobVars   == <<threshold, found, blobs, centres>>
vars == <<stage, dateVars, image, packetVars, mapVars, filterVars, blobVars, retried>>

Stages == {"date", "capture", "map", "load", "clear", "mask", "smooth", "smoothed",
           "highPass", "highPassed", "search", "sort", "count", "centroid", "solve"}
NoDate == <<>>
NoRows == <<>>

Init ==
  /\ stage = "date" /\ dated = NoDate
  /\ image = [p \in Pixels |-> 0]
  /\ makeMap = 0 /\ highPass = TRUE
  /\ mapFile = {} /\ hotPixels = {} /\ firstTime = TRUE
  /\ mask = {} /\ rows = NoRows /\ ic = [p \in Pixels |-> 0] /\ border = 0
  /\ threshold = NotANumber /\ found = <<>> /\ blobs = <<>> /\ centres = <<>>
  /\ retried = FALSE /\ withdrawn = FALSE
  /\ images = 0 /\ packets = 0

-----------------------------------------------------------------------------
(***************************************************************************)
(* The date of the image, as struct tm counts: years from 1900, months     *)
(* and days of the year from 0.                                            *)
(***************************************************************************)
isLeapYear(year) == year % 4 = 0 /\ (year % 400 = 0 \/ year % 100 # 0)
anyYear(year) == TRUE
hasLeapDay(year) == isLeapYear(year)

Corrected(tm) ==
  IF ~hasLeapDay(tm.year) THEN tm
  ELSE IF tm.yday = 59 THEN [tm EXCEPT !.yday = 60, !.mon = @ - 1, !.mday = 29]
  ELSE IF tm.yday > 59 THEN [tm EXCEPT !.yday = @ + 1]
  ELSE tm

DateImage ==
  /\ stage = "date" /\ images < MaxImages
  /\ \E tm \in Dates : dated' = <<tm, Corrected(tm)>>
  /\ images' = images + 1
  /\ stage' = "capture"
  /\ UNCHANGED <<image, filterVars, packetVars, mapVars, blobVars, retried>>

CaptureImage ==
  /\ stage = "capture"
  /\ \E packed \in Images : image' = unpack_mono12(packed)
  /\ dated' = NoDate /\ retried' = FALSE
  /\ stage' = "map"
  /\ UNCHANGED <<images, filterVars, packetVars, mapVars, blobVars>>

-----------------------------------------------------------------------------
(***************************************************************************)
(* findBlobs: the map of hot pixels is made from this image if a packet    *)
(* asked for it, and read by makeMask the first time and when it was made. *)
(* makeMask looks at the request again, and takes it off after reading.    *)
(***************************************************************************)
MakeMap ==
  /\ stage = "map"
  /\ mapFile' = IF makeMap = 0 THEN mapFile ELSE {p \in Pixels : image[p] > makeMap}
  /\ stage' = "load"
  /\ UNCHANGED <<dateVars, filterVars, image, packetVars, hotPixels, firstTime,
                 blobVars, retried>>

MustReadOnce == firstTime
MustReadAgain == firstTime \/ makeMap # 0
MustRead == MustReadAgain

LoadMap ==
  /\ stage = "load"
  /\ IF MustRead THEN hotPixels' = mapFile /\ withdrawn' = FALSE /\ stage' = "clear"
     ELSE stage' = "mask" /\ UNCHANGED <<hotPixels, withdrawn>>
  /\ UNCHANGED <<dateVars, filterVars, image, makeMap, highPass, packets,
                 mapFile, firstTime, blobVars, retried>>

ClearRequest ==
  /\ stage = "clear"
  /\ makeMap' = 0 /\ firstTime' = FALSE
  /\ stage' = "mask"
  /\ UNCHANGED <<dateVars, filterVars, image, highPass, withdrawn, packets,
                 mapFile, hotPixels, blobVars, retried>>

MakeMask ==
  /\ stage = "mask"
  /\ mask' = makeMask(image, TRUE, TRUE, hotPixels)
  /\ stage' = "smooth"
  /\ UNCHANGED <<dateVars, rows, image, packetVars, mapVars, ic, border,
                 blobVars, retried>>

-----------------------------------------------------------------------------
(***************************************************************************)
(* findBlobs: smooth, take off what is smooth over a larger box, search.   *)
(***************************************************************************)
SmoothRows ==
  /\ stage = "smooth"
  /\ rows' = SumRows(image, mask, RSmooth)
  /\ stage' = "smoothed"
  /\ UNCHANGED <<dateVars, image, packetVars, mapVars, mask, ic, border,
                 blobVars, retried>>

SmoothColumns ==
  /\ stage = "smoothed"
  /\ ic' = SumColumns(rows, RSmooth, ic)
  /\ rows' = NoRows
  /\ stage' = "highPass"
  /\ UNCHANGED <<dateVars, image, packetVars, mapVars, mask, border, blobVars,
                 retried>>

HighPassRows ==
  /\ stage = "highPass"
  /\ IF highPass
     THEN /\ rows' = SumRows(image, mask, RHighPass)
          /\ border' = Border + RHighPass
          /\ stage' = "highPassed"
     ELSE border' = Border /\ stage' = "search" /\ UNCHANGED rows
  /\ UNCHANGED <<dateVars, image, packetVars, mapVars, mask, ic, blobVars,
                 retried>>

HighPassColumns ==
  /\ stage = "highPassed"
  /\ LET ic2 == SumColumns(rows, RHighPass, ic)
     IN  ic' = [p \in Pixels |->
                  IF p \in Inside(border) THEN ic[p] - ic2[p] ELSE ic[p]]
  /\ rows' = NoRows
  /\ stage' = "search"
  /\ UNCHANGED <<dateVars, image, packetVars, mapVars, mask, border, blobVars,
                 retried>>

SearchBlobs ==
  /\ stage = "search"
  /\ threshold' \in IF mask \intersect Inside(border) = {} THEN {NotANumber}
                    ELSE Thresholds
  /\ found' = Search(ic, border, threshold')
  /\ blobs' = Flip(found')
  /\ stage' = "sort"
  /\ UNCHANGED <<dateVars, filterVars, image, packetVars, mapVars, centres,
                 retried>>

SortBlobs ==
  /\ stage = "sort"
  /\ blobs' = part(blobs)
  /\ stage' = "count"
  /\ UNCHANGED <<dateVars, filterVars, image, packetVars, mapVars, threshold,
                 found, centres, retried>>

\* Too few or too many: once more with the high-pass filter, which is off
\* afterwards, whatever it was before.
CountBlobs ==
  /\ stage = "count"
  /\ IF retried THEN highPass' = FALSE /\ stage' = "centroid" /\ UNCHANGED retried
     ELSE IF Len(blobs) \in MinBlobs .. MaxBlobs
     THEN stage' = "centroid" /\ UNCHANGED <<highPass, retried>>
     ELSE highPass' = TRUE /\ retried' = TRUE /\ stage' = "map"
  /\ UNCHANGED <<dateVars, filterVars, image, makeMap, withdrawn, packets,
                 mapVars, blobVars>>

CentreBlobs ==
  /\ stage = "centroid"
  /\ centres' = [i \in DOMAIN blobs |-> Centroid(image, blobs[i])]
  /\ stage' = "solve"
  /\ UNCHANGED <<dateVars, filterVars, image, packetVars, mapVars, threshold,
                 found, blobs, retried>>

\* lostInSpace takes the blobs.
HandOver ==
  /\ stage = "solve"
  /\ threshold' = NotANumber /\ found' = <<>> /\ blobs' = <<>> /\ centres' = <<>>
  /\ stage' = "date"
  /\ UNCHANGED <<dateVars, filterVars, image, packetVars, mapVars, retried>>

findBlobs ==
  \/ MakeMap \/ LoadMap \/ ClearRequest \/ MakeMask
  \/ SmoothRows \/ SmoothColumns \/ HighPassRows \/ HighPassColumns
  \/ SearchBlobs \/ SortBlobs

\* A packet, at any time: it asks for a map or not, and sets the filter.
Packet ==
  /\ packets < MaxPackets
  /\ packets' = packets + 1
  /\ makeMap' \in MapLevels
  /\ highPass' \in BOOLEAN
  /\ withdrawn' = (withdrawn \/ (stage = "load" /\ makeMap # 0 /\ makeMap' = 0))
  /\ UNCHANGED <<stage, dateVars, filterVars, image, mapVars, blobVars, retried>>

Next ==
  \/ DateImage \/ CaptureImage
  \/ findBlobs
  \/ CountBlobs \/ CentreBlobs \/ HandOver
  \/ Packet

Spec == Init /\ [][Next]_vars

-----------------------------------------------------------------------------
(***************************************************************************)
(* Properties.                                                             *)
(***************************************************************************)
TypeOK ==
  /\ stage \in Stages
  /\ image \in Image
  /\ makeMap \in MapLevels /\ highPass \in BOOLEAN
  /\ mapFile \subseteq Pixels /\ hotPixels \subseteq Pixels
  /\ firstTime \in BOOLEAN /\ retried \in BOOLEAN /\ withdrawn \in BOOLEAN
  /\ mask \subseteq Inside(1)
  /\ DOMAIN ic = Pixels
  /\ border \in {0, Border, Border + RHighPass}
  /\ \A i \in DOMAIN blobs : <<blobs[i].x, Height - blobs[i].y>> \in Inside(1)
  /\ images \in 0 .. MaxImages /\ packets \in 0 .. MaxPackets

\* The hot pixels that are masked are those of the map on disk, whenever it
\* was made ("re-make static hp map with current image"): only a packet that
\* takes a request back just after its map was made leaves the old ones.
MapInUse ==
  stage \in {"mask", "smooth", "smoothed", "highPass", "highPassed", "search"} =>
    hotPixels = mapFile \/ withdrawn

\* Sliding the box gives every pixel the search looks at the mean of the
\* pixels of this image that count around it, less that of the larger box
\* when the high-pass filter is on; nothing is left of an earlier image.
FilteredIsMean ==
  stage = "search" =>
    \A p \in Inside(border) :
      Around(p, RSmooth, mask) # {} =>
        ic[p] = Mean(image, mask, RSmooth, p)
                - (IF border = Border THEN 0 ELSE Mean(image, mask, RHighPass, p))

\* Whatever blobs lie close together, none hides one brighter than itself and
\* all that are listed: the brightest star is among those handed on.
BrightestFound ==
  stage = "sort" =>
    LET magnitudes == {Magnitude(ic, p) : p \in Candidates(ic, border, threshold)}
    IN  /\ magnitudes = {} <=> found = <<>>
        /\ \A m \in magnitudes : \E i \in DOMAIN found : found[i].mag >= m

\* Sorting the magnitudes takes the two coordinates along: the solver, which
\* may use only the first ones, gets the blobs that were found, at the places
\* where they were found, the brightest first.
SortedTogether ==
  stage = "count" =>
    /\ \A i, j \in DOMAIN blobs : i < j => blobs[i].mag >= blobs[j].mag
    /\ ToBag(Flip(blobs)) = ToBag(found)

\* The solver's date is the day of the image, except on 29 February, which
\* the correction for leap years makes 29 January.
DateKept ==
  stage = "capture" =>
    LET now == dated[1]
        passed == dated[2]
    IN  \/ passed.year = now.year /\ passed.mon = now.mon /\ passed.mday = now.mday
        \/ now.mon = 1 /\ now.mday = 29

\* "flux weight the locations", "grab the actual x + y positions in 2d": the
\* position of a star is the mean position of the light around its peak.
CentroidIsWeighted ==
  stage = "solve" =>
    \A i \in DOMAIN blobs : centres[i] = CentreOfLight(image, blobs[i])
=============================================================================
