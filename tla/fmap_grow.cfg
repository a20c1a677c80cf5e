CONSTANTS
  HdrSize = 2
  BlockSize = 8
  MaxMapSize = 126
  Word = 128
  Lengths = {1, 3, 9}
  MaxUse = 40
  IOErrors = TRUE
  MaxCrash = 1
SPECIFICATION Spec
INVARIANT TypeOK
INVARIANT CopyInBounds
INVARIANT MappingInFile
PROPERTY NeverShrinks
