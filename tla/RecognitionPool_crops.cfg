SPECIFICATION Spec
CONSTANTS
  c1 = c1
  c2 = c2
  c3 = c3
  c4 = c4
  c5 = c5
  NoCrop = NoCrop
  Crop = {c1, c2, c3, c4, c5}
  Size <- Sizes
  Worker = {w1, w2}
  MaxRequests = 2
  MaxBytes = 3
SYMMETRY CropSymmetry
INVARIANTS
  CreditsMatch
