CONSTANTS
  c1 = c1
  u1 = u1
  openid = openid
  email = email
  t1 = t1
  alice = alice
  bob = bob
  NoUser = NoUser
  Tabs = {t1}
  Users = {alice, bob}
  Enrolled = {bob}
  Clients = {c1}
  Uris = {u1}
  Wishes <- ThreeWishes
  SessionLength = 1
  MfaLength = 1
  MaxTime = 2
  MaxMishaps = 3
SPECIFICATION FairSpec
PROPERTIES
  FlowEnds
