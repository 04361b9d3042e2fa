\* Bodies of 0 to 4 bytes in a store of 3; entries live 2 ticks
\* fresh, so that one in use outlives a younger one, and 1 stale.
SPECIFICATION StoreSpec
CONSTANTS
  k1 = k1
  k2 = k2
  k3 = k3
  k4 = k4
  Keys <- FourKeys
  OK = OK
  Statuses <- JustOK
  Sizes <- SmallSizes
  MaxBytes = 3
  TTL = 2
  Stale = 1
SYMMETRY Symmetry
INVARIANTS
  StoreTypeOK
  StoreSound
PROPERTY EvictsForRoom
