SPECIFICATION Spec
CONSTANTS
  Signals <- Small
  Coefficients <- Poles
  Steps = 8
  Bits = 6
  Texts <- Writings
  Names <- FileNames
  Widest = 50
  Floors <- Curves
  Residues <- Layouts
  Couplings <- Pairings
  Undef = Undef
  NULL = NULL
INVARIANTS
  SearchesFind
  SamplesAreComputed
  PowersAreNext
  SortsInOrder
  TextIsTakenApart
  FloorIsDrawn
  ResidueIsDecoded
CHECK_DEADLOCK FALSE
