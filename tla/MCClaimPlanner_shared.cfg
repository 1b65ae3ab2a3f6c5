\* Two names share a resource and a slot is left over.
SPECIFICATION FairSpec
CONSTANTS
  a = a
  b = b
  c = c
  d = d
  e = e
  gpu = gpu
  NoBatch = nobatch
  NoResource = nores
  Handlers <- Together
  Capacity <- One
  Concurrency = 2
  MaxBacklog = 2
PROPERTIES
  NoStarvation
