\* One request goes through download-proxy: SETUP.md's minimum gap is lost.
SPECIFICATION Spec
CONSTANTS
  r1 = r1
  r2 = r2
  r3 = r3
  Reqs <- TwoReqs
  Proxied <- OneProxied
  Shared = Shared
  None = None
  MinInterval = 2
  MaxConcurrent = 1
  MaxQueueWait = 3
PROPERTY GlobalGap
