CONSTANTS
  r1 = r1
  r2 = r2
  t1 = t1
  NoToken = NoToken
  Reqs = {r1, r2}
  Tokens = {t1}
  Names = {"changePassword", "authorizeLogin", "getMe", "getUser", "updateUser"}
  Rights = {{}, {"user:read"}, {"user:write"}, {"user:read", "user:write"}}
  Limit = 1
  MaxWindows = 2
SYMMETRY Symmetry
SPECIFICATION Spec
INVARIANTS
  TypeOK
  AuthorizedCalls
  SharedBudget
