SPECIFICATION Spec
CONSTANTS
  Total = 9
  Mask = 1
  Sizes = {1, 3, 4, 9}
  Addresses <- MCAddresses
INVARIANTS BlocksTile NoneBeforeFirst RefusesOnlyWhenFull
