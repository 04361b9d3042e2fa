\* Two requests and the rotation over an image and an avatar whose files do
\* not both fit the cap; no lifetime.
SPECIFICATION Spec
CONSTANTS
  r1 = r1
  r2 = r2
  image = image
  avatar = avatar
  None = None
  Reqs <- TwoReqs
  Images <- OneImage
  Avatars <- OneAvatar
  Pieces = 2
  MemCache = FALSE
  Lifetime = 0
  MaxSize = 3
  MaxAge = 1
  MaxAsks = 2
  MaxCrashes = 0
SYMMETRY Symmetry
INVARIANTS
  TypeOK
PROPERTIES
  PassDone
  OldestGoFirst
