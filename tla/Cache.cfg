\* Three callers on two keys whose bodies do not both fit the store.
SPECIFICATION Spec
CONSTANTS
  r1 = r1
  r2 = r2
  r3 = r3
  k1 = k1
  k2 = k2
  OK = OK
  Forbidden = Forbidden
  NotFound = NotFound
  None = None
  Failure = Failure
  Callers <- ThreeCallers
  Keys <- TwoKeys
  Statuses <- AllStatuses
  Blocks <- JustForbidden
  Sizes <- TwoBytes
  MaxBytes = 1
  TTL = 1
  Stale = 1
  BlockBackoff = 1
SYMMETRY Symmetry
INVARIANTS
  TypeOK
  FlightSound
  Shielded
  OwnAnswer
