\* Two clients and the proxy, two tokens of burst; an idle bucket is full when
\* dropped, and the window is long enough to see one dropped between requests.
SPECIFICATION MeterSpec
CONSTANTS
  c1 = c1
  c2 = c2
  Clients <- TwoClients
  Proxy = Proxy
  Forged <- NothingOrAnother
  Rate = 3
  Cost = 2
  Burst = 4
  BucketIdle = 1
  PruneEvery = 2
  MaxIdle = 2
  RetryAfter = 1
  Window = 4
SYMMETRY Symmetry
INVARIANTS
  TypeOK
  SustainedRate
PROPERTIES
  RetryIsServed
  IsTokenBucket
