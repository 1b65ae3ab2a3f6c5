\* Two names on one GPU, two that batch and two that share a draw.
SPECIFICATION FairSpec
CONSTANTS
  a = a
  b = b
  c = c
  d = d
  e = e
  gpu = gpu
  NoBatch = nobatch
  NoResource = nores
  Handlers <- Mixed
  Capacity <- One
  Concurrency = 2
  MaxBacklog = 3
INVARIANTS
  TypeOK WithinBudget ChargesMatchCalls NoMissedRelease
PROPERTIES RotationServes
