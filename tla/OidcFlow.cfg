CONSTANTS
  c1 = c1
  u1 = u1
  openid = openid
  email = email
  t1 = t1
  t2 = t2
  alice = alice
  bob = bob
  NoUser = NoUser
  Tabs = {t1, t2}
  Users = {alice, bob}
  Enrolled = {alice, bob}
  Clients = {c1}
  Uris = {u1}
  Wishes <- TwoWishes
  SessionLength = 0
  MfaLength = 0
  MaxTime = 1
  MaxMishaps = 1
SYMMETRY Symmetry
SPECIFICATION Spec
INVARIANTS
  TypeOK
  RedirectsValidated
  CodesApproved
PROPERTIES
  SessionsEarned
