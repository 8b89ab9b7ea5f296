\* observe.c alone, with nobody killed.
SPECIFICATION FairSpec
CONSTANTS
  Programs = {"observe"}
  Depth = 1
  MaxKills = 0
  MaxUntold = 1
INVARIANT AfterModification
