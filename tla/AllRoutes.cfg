CONSTANTS
  r1 = r1
  t1 = t1
  NoToken = NoToken
  Reqs = {r1}
  Tokens = {t1}
  Names <- AllNames
  Rights <- EachRight
  Limit = 1
  MaxWindows = 1
SPECIFICATION Spec
INVARIANTS
  AuthorizedCalls
  NoDetailLeaks
  FirstErrorTold
