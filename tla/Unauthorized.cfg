CONSTANTS
  r1 = r1
  t1 = t1
  NoToken = NoToken
  Reqs = {r1}
  Tokens = {t1}
  Names = {"getMe"}
  Rights = {{"user:read"}}
  Limit = 1
  MaxWindows = 1
SPECIFICATION Spec
INVARIANTS
  RefusedForCause
