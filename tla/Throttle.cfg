\* Three requests on the shared throttle, two slots; a queue deeper than two
\* intervals is shed.  No symmetry, which liveness forbids.
SPECIFICATION FairSpec
CONSTANTS
  r1 = r1
  r2 = r2
  r3 = r3
  Reqs <- ThreeReqs
  Proxied <- NoneProxied
  Shared = Shared
  None = None
  MinInterval = 2
  MaxConcurrent = 2
  MaxQueueWait = 3
INVARIANTS
  TypeOK
  Accounting
  InFlightBounded
  PaceExclusive
PROPERTIES
  TurnsSpaced
  CallsReturn
