\* One image, in memory too, with a lifetime and a restart, under fairness.
SPECIFICATION FairSpec
CONSTANTS
  r1 = r1
  r2 = r2
  image = image
  avatar = avatar
  None = None
  Reqs <- TwoReqs
  Images <- OneImage
  Avatars <- NoAvatars
  Pieces = 2
  MemCache = TRUE
  Lifetime = 1
  MaxSize = 0
  MaxAge = 1
  MaxAsks = 2
  MaxCrashes = 1
INVARIANTS
  AtRestWhole
PROPERTIES
  PassDone
  DamageExpires
  KeptByUse
