SPECIFICATION Spec
CONSTANTS
  TypeLists <- MCTypeLists
  Masks <- MCMasks
  Wanted <- MCWanted
INVARIANTS FindsSuitable
