CONSTANTS
  u1 = u1
  r1 = r1
  t1 = t1
  Nobody = Nobody
  Users = {u1}
  Reqs = {r1}
  Tenants = {t1}
  MaxChanges = 2
  MaxFails = 0
SPECIFICATION Spec
INVARIANTS
  DeletedListed
