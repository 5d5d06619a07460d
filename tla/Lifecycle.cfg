CONSTANTS
  r1 = r1
  r2 = r2
  Reqs = {r1, r2}
SPECIFICATION FairSpec
INVARIANTS
  TypeOK
  Released
  ServedWhenReady
PROPERTIES
  Stops
