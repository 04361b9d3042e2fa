\* Liveness: two callers on two keys, without symmetry.
SPECIFICATION FairSpec
CONSTANTS
  r1 = r1
  r2 = r2
  r3 = r3
  k1 = k1
  k2 = k2
  OK = OK
  Forbidden = Forbidden
  NotFound = NotFound
  None = None
  Failure = Failure
  Callers <- TwoCallers
  Keys <- TwoKeys
  Statuses <- AllStatuses
  Blocks <- JustForbidden
  Sizes <- OneByte
  MaxBytes = 1
  TTL = 1
  Stale = 1
  BlockBackoff = 2
PROPERTIES
  AnsweredEventually
  BackoffEnds
