CONSTANTS
  g1 = g1
  g2 = g2
  r1 = r1
  r2 = r2
  i1 = i1
  Replicas = {g1, g2}
  Ips = {i1}
  Reqs = {r1, r2}
  Limits = {0, 1}
  Window = 2
  Second = 1
  MaxDelay = 1
  MaxSkew = 1
  MaxCount = 3
  MaxFails = 3
  MaxRestarts = 1
  MaxTime = 4
SYMMETRY Symmetry
SPECIFICATION Spec
INVARIANTS
  TypeOK
  SharedBound
  KeysExpire
  OutageBound
