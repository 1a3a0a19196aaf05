\* Three buffers, six images: two focus runs and the images between them.
CONSTANTS
  Buffers = 3
  FocusBinning = 4
  MaxImages = 6
SPECIFICATION Spec
INVARIANTS TypeOK SharpnessOfItsImage UnpackedAtItsSize ReadyForImages
PROPERTY LagBounded
CHECK_DEADLOCK FALSE
