CONSTANTS
  u1 = u1
  u2 = u2
  r1 = r1
  t1 = t1
  t2 = t2
  Nobody = Nobody
  Users = {u1, u2}
  Reqs = {r1}
  Tenants = {t1, t2}
  MaxChanges = 2
  MaxFails = 1
SPECIFICATION FairSpec
INVARIANTS
  TypeOK
  TenantScoped
  NothingTold
  DirectoryJoined
PROPERTIES
  GoneForGood
  Healed
