\* The same images, without packets.
CONSTANTS
  Width = 13
  Height = 12
  MaxPixel = 31
  CharMax = 5
  SpikeLimit = 3
  Scale = 225
  Spacing = 3
  Bright = 700
  Huge = 100000
  Images <- MCImages
  Dates <- MCDates
  Thresholds <- MCThresholds
  MapLevels = {0, 18}
  RSmooth = 1
  RHighPass = 2
  Border = 1
  MinBlobs = 2
  MaxBlobs = 3
  MaxImages = 1
  MaxPackets = 0
SPECIFICATION Spec
INVARIANT CentroidIsWeighted
CHECK_DEADLOCK FALSE
