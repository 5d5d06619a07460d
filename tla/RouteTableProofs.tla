---------------------------- MODULE RouteTableProofs ----------------------------
(***************************************************************************)
(* What the route table of RequestPipeline guarantees, route by route:     *)
(* which middlewares stand before which calls, whatever the requests.      *)
(* The limiter is asked for before the calls in Throttled only: New leaves *)
(* others that test a secret without one, and the definition names them.   *)
(* RequestPipelineProofs needs no more of the table than TableFit.         *)
(***************************************************************************)
EXTENDS RequestPipeline, TLAPS

Elements(s) == {s[i] : i \in DOMAIN s}
Authors == {"own", "service"}

\* The middlewares that check no permission, and what the others demand.
Plain == {"authLimit", "Require"}
Permission(m, own) ==
  IF m # "own or other" THEN m ELSE IF own THEN "profile:write" ELSE "user:write"

\* The middlewares a call needs before it: the limiter if it is in Throttled,
\* Require unless it is public, and a check of a permission it requires.
Guarded(call, mws) ==
  /\ call.rpc \in Throttled => "authLimit" \in mws
  /\ call.rpc \in Public \/ "Require" \in mws
  /\ \A own \in BOOLEAN :
       \/ Licences(call, own) = {}
       \/ \E m \in mws \ Plain : Permission(m, own) \in Licences(call, own)

\* A status from 500 on, where a call's error has one of its own, has a text of
\* the gateway.
Discreet(call) ==
  /\ call.onError.status \in Int /\ call.onError.text \in Authors /\ call.stops \subseteq Int
  /\ call.onError.status >= 500 => call.onError.text = "own"

\* The calls of the one route that keeps an error.
MeCalls == <<Healed, Healing>>

\* Only the first call of a handler is in Throttled, since the limiter is asked
\* once, and a call that heals is getMe's.
Fit(route) ==
  /\ route.chain \in Seq(Elements(route.chain))
  /\ route.calls \in Seq(Elements(route.calls))
  /\ route.ok \in Int
  /\ \A i \in DOMAIN route.calls :
       /\ Guarded(route.calls[i], Elements(route.chain))
       /\ Discreet(route.calls[i])
       /\ i > 1 => route.calls[i].rpc \notin Throttled
       /\ route.calls[i].heals => i = 1 /\ route.calls = MeCalls /\ route.ok = 200

--------------------------------------------------------------------------------
(* Calls *)

LEMMA DoDiscreet ==
  ASSUME NEW rpc
  PROVE  Discreet(Do(rpc)) /\ Do(rpc).rpc = rpc /\ ~Do(rpc).heals
BY DEF Do, Authors, Discreet

LEMMA OrDiscreet ==
  ASSUME NEW rpc, NEW status \in Int
  PROVE  LET call == Or(Do(rpc), status)
         IN  Discreet(call) /\ call.rpc = rpc /\ ~call.heals
BY DEF Or, Do, Authors, Discreet

LEMMA StoppingDiscreet ==
  ASSUME NEW rpc, NEW status \in Int,
         NEW call \in {Do(rpc)} \cup {Or(Do(rpc), s) : s \in Int}
  PROVE  LET stopping == Stopping(call, status)
         IN  Discreet(stopping) /\ stopping.rpc = rpc /\ ~stopping.heals
<1>1. CASE call = Do(rpc)  BY <1>1 DEF Stopping, Do, Discreet, Authors
<1>2. CASE \E s \in Int : call = Or(Do(rpc), s)
  BY <1>2 DEF Stopping, Do, Or, Discreet, Authors
<1> QED  BY <1>1, <1>2

LEMMA HealDiscreet ==
  /\ Discreet(Healed) /\ Healed.rpc = "GetProfile" /\ Healed.heals
  /\ Discreet(Healing) /\ Healing.rpc = "CreateProfile" /\ ~Healing.heals
<1>1. Discreet(Healed) /\ Healed.rpc = "GetProfile" /\ Healed.heals
  BY DEF Healed, Discreet, Do, Authors
<1>2. Discreet(Healing) /\ Healing.rpc = "CreateProfile" /\ ~Healing.heals
  BY DEF Healing, Discreet, Do, Authors
<1> QED  BY <1>1, <1>2

\* The calls that require a permission, by permission.
LEMMA Licensed ==
  ASSUME NEW call, NEW own \in BOOLEAN, ~call.heals
  PROVE  /\ call.rpc = "ListMembers" => Licences(call, own) = {"member:read", "user:read"}
         /\ call.rpc = "UpdateProfile" =>
              Licences(call, own) = IF own THEN {"profile:write"} ELSE {"user:write"}
         /\ call.rpc \in {"GetProfile", "GetProfiles"} => Licences(call, own) = {"user:read"}
         /\ call.rpc \in {"DeleteUser", "RestoreUser"} => Licences(call, own) = {"user:delete"}
         /\ call.rpc \in {"ListRoles", "ListPermissions", "GetUserRoleAssignments"} =>
              Licences(call, own) = {"role:read"}
         /\ call.rpc \in {"CreateRole", "UpdateRole", "DeleteRole", "GrantPermission",
                          "RevokePermission", "RegisterClient"} =>
              Licences(call, own) = {"role:write"}
         /\ call.rpc \in {"AssignRole", "RevokeRole", "AssignRoleBulk"} =>
              Licences(call, own) = {"role:assign"}
         /\ call.rpc = "ListAuditEvents" => Licences(call, own) = {"audit:read"}
         /\ call.rpc = "CreateTenant" => Licences(call, own) = {"tenant:write"}
         /\ call.rpc = "ListTenants" => Licences(call, own) = {"tenant:read"}
         /\ call.rpc = "CreateProject" => Licences(call, own) = {"project:write"}
         /\ call.rpc = "ListProjects" => Licences(call, own) = {"project:read"}
         /\ call.rpc \in {"AddMember", "RemoveMember"} => Licences(call, own) = {"member:write"}
BY DEF Licences

\* The calls that require none: a caller's own affairs, and those of anyone.
Affairs == {"Logout", "ChangePassword", "CreateProfile", "ListMyMemberships", "SwitchTenant",
            "GetTotpStatus", "EnrollTotp", "ActivateTotp", "DisableTotp", "CreateApiKey",
            "ListApiKeys", "RevokeApiKey"}

LEMMA Unlicensed ==
  ASSUME NEW call, NEW own \in BOOLEAN, call.rpc \in Affairs \cup Public
  PROVE  Licences(call, own) = {}
BY DEF Licences, Affairs, Public

LEMMA HealedUnlicensed == \A own \in BOOLEAN : Licences(Healed, own) = {}
BY HealDiscreet DEF Licences

--------------------------------------------------------------------------------
(* Chains *)

LEMMA ChainElements ==
  /\ Elements(<<>>) = {}
  /\ Elements(User) = {"Require"}
  /\ Elements(Limited) = {"authLimit"}
  /\ \A p : Elements(Admin(p)) = {"Require", p}
BY DEF Elements, User, Limited, Admin

LEMMA ChainSequences ==
  /\ <<>> \in Seq(Elements(<<>>))
  /\ User \in Seq(Elements(User))
  /\ Limited \in Seq(Elements(Limited))
  /\ \A p : Admin(p) \in Seq(Elements(Admin(p)))
<1>1. User \in Seq(Elements(User))  BY DEF User, Elements
<1>2. Limited \in Seq(Elements(Limited))  BY DEF Limited, Elements
<1>3. ASSUME NEW p PROVE Admin(p) \in Seq(Elements(Admin(p)))
  <2>1. <<"Require", p>> \in Seq({"Require", p})  OBVIOUS
  <2>2. {"Require", p} = Elements(<<"Require", p>>)  BY DEF Elements
  <2> QED  BY <2>1, <2>2 DEF Admin
<1>4. <<>> \in Seq(Elements(<<>>))  OBVIOUS
<1> QED  BY <1>1, <1>2, <1>3, <1>4

\* changePassword is limited after Require.
LEMMA UserLimited ==
  LET chain == User \o Limited
  IN  chain \in Seq(Elements(chain)) /\ Elements(chain) = {"Require", "authLimit"}
<1> DEFINE chain == User \o Limited
<1>1. chain \in Seq(Plain) /\ Len(chain) = 2 /\ chain[1] = "Require" /\ chain[2] = "authLimit"
  BY DEF User, Limited, Plain
<1> HIDE DEF chain
<1>2. Elements(chain) = Plain  BY <1>1 DEF Elements, Plain
<1> QED  BY <1>1, <1>2 DEF chain, Plain

--------------------------------------------------------------------------------
(* Routes *)

LEMMA NoCalls ==
  ASSUME NEW route, route.chain \in Seq(Elements(route.chain)), route.calls = <<>>,
         route.ok \in Int
  PROVE  Fit(route)
<1> DEFINE calls == <<>>
<1>1. calls \in Seq(Elements(calls)) /\ \A i \in DOMAIN calls : FALSE  OBVIOUS
<1> HIDE DEF calls
<1>2. route.calls = calls  BY DEF calls
<1> QED  BY <1>1, <1>2 DEF Fit

LEMMA OneCall ==
  ASSUME NEW route, NEW call, route.chain \in Seq(Elements(route.chain)),
         route.calls = <<call>>, route.ok \in Int,
         Discreet(call), Guarded(call, Elements(route.chain)), ~call.heals
  PROVE  Fit(route)
<1> DEFINE calls == <<call>>
<1>1. Elements(calls) = {call}  BY DEF Elements
<1>2. calls \in Seq({call}) /\ Len(calls) = 1 /\ \A i \in DOMAIN calls : i = 1 /\ calls[i] = call  OBVIOUS
<1> HIDE DEF calls
<1>3. route.calls = calls  BY DEF calls
<1> QED  BY <1>1, <1>2, <1>3 DEF Fit

LEMMA TwoCalls ==
  ASSUME NEW route, NEW first, NEW second, route.chain \in Seq(Elements(route.chain)),
         route.calls = <<first, second>>, route.ok \in Int,
         Discreet(first), Guarded(first, Elements(route.chain)),
         Discreet(second), Guarded(second, Elements(route.chain)), second.rpc \notin Throttled,
         ~second.heals, ~first.heals \/ (route.calls = MeCalls /\ route.ok = 200)
  PROVE  Fit(route)
<1> DEFINE calls == <<first, second>>
<1>1. Elements(calls) = {first, second}  BY DEF Elements
<1>2. /\ calls \in Seq({first, second}) /\ Len(calls) = 2
      /\ \A i \in DOMAIN calls : (i = 1 /\ calls[i] = first) \/ (i = 2 /\ calls[i] = second)
  OBVIOUS
<1> HIDE DEF calls
<1>3. route.calls = calls  BY DEF calls
<1>4. ASSUME NEW i \in DOMAIN route.calls
      PROVE  /\ Guarded(route.calls[i], Elements(route.chain)) /\ Discreet(route.calls[i])
             /\ i > 1 => route.calls[i].rpc \notin Throttled
             /\ route.calls[i].heals => i = 1 /\ route.calls = MeCalls /\ route.ok = 200
  <2>1. CASE i = 1 /\ route.calls[i] = first  BY <2>1
  <2>2. CASE i = 2 /\ route.calls[i] = second  BY <2>2
  <2> QED  BY <1>2, <1>3, <2>1, <2>2
<1> QED  BY <1>1, <1>2, <1>3, <1>4 DEF Fit

\* A permission opens a call that is not in Throttled.
Opens(p, rpc) ==
  /\ p \notin Plain /\ p # "own or other" /\ rpc \notin Throttled
  /\ \A call, own : own \in BOOLEAN /\ call.rpc = rpc /\ ~call.heals => p \in Licences(call, own)

LEMMA AdminGuards ==
  ASSUME NEW p, NEW call, Opens(p, call.rpc), ~call.heals
  PROVE  Guarded(call, Elements(Admin(p)))
<1>1. Elements(Admin(p)) = {"Require", p}  BY ChainElements
<1>2. p \in {"Require", p} \ Plain  BY DEF Opens
<1>3. \A own \in BOOLEAN : Permission(p, own) = p  BY DEF Opens, Permission
<1>4. \A own \in BOOLEAN : p \in Licences(call, own)  BY DEF Opens
<1>5. call.rpc \notin Throttled  BY DEF Opens
<1>6. Guarded(call, {"Require", p})  BY <1>2, <1>3, <1>4, <1>5 DEF Guarded
<1> QED  BY <1>6, <1>1

LEMMA AdminRoute ==
  ASSUME NEW route, NEW p, NEW rpc, Opens(p, rpc),
         route.chain = Admin(p), route.calls = <<Do(rpc)>>, route.ok \in Int
  PROVE  Fit(route)
<1>1. Discreet(Do(rpc)) /\ Guarded(Do(rpc), Elements(Admin(p))) /\ ~Do(rpc).heals
  BY DoDiscreet, AdminGuards
<1> QED  BY <1>1, OneCall, ChainSequences

LEMMA UserRoute ==
  ASSUME NEW route, NEW rpc \in Affairs \ Throttled,
         route.chain = User, route.calls = <<Do(rpc)>>, route.ok \in Int
  PROVE  Fit(route)
<1>1. Discreet(Do(rpc)) /\ Do(rpc).rpc = rpc /\ ~Do(rpc).heals  BY DoDiscreet
<1>2. Guarded(Do(rpc), Elements(User))  BY <1>1, ChainElements, Unlicensed DEF Guarded
<1> QED  BY <1>1, <1>2, OneCall, ChainSequences

LEMMA LimitedRoute ==
  ASSUME NEW route, NEW rpc \in Public,
         route.chain = Limited, route.calls = <<Do(rpc)>>, route.ok \in Int
  PROVE  Fit(route)
<1>1. Discreet(Do(rpc)) /\ Do(rpc).rpc = rpc /\ ~Do(rpc).heals  BY DoDiscreet
<1>2. Guarded(Do(rpc), Elements(Limited))  BY <1>1, ChainElements, Unlicensed DEF Guarded
<1> QED  BY <1>1, <1>2, OneCall, ChainSequences

\* What each permission opens.
LEMMA Permissions ==
  /\ \A rpc \in {"CreateRole", "UpdateRole", "DeleteRole", "GrantPermission",
                 "RevokePermission", "RegisterClient"} : Opens("role:write", rpc)
  /\ \A rpc \in {"ListRoles", "ListPermissions", "GetUserRoleAssignments"} : Opens("role:read", rpc)
  /\ \A rpc \in {"AssignRole", "RevokeRole", "AssignRoleBulk"} : Opens("role:assign", rpc)
  /\ \A rpc \in {"ListMembers", "GetProfile", "GetProfiles"} : Opens("user:read", rpc)
  /\ \A rpc \in {"DeleteUser", "RestoreUser"} : Opens("user:delete", rpc)
  /\ \A rpc \in {"AddMember", "RemoveMember"} : Opens("member:write", rpc)
  /\ Opens("member:read", "ListMembers") /\ Opens("audit:read", "ListAuditEvents")
  /\ Opens("tenant:write", "CreateTenant") /\ Opens("tenant:read", "ListTenants")
  /\ Opens("project:write", "CreateProject") /\ Opens("project:read", "ListProjects")
BY Licensed DEF Opens, Plain, Throttled

LEMMA AccountRoutesFit == \A route \in AccountRoutes : Fit(route)
<1>1. ASSUME NEW route, route.chain = User \o Limited, route.ok \in Int,
             route.calls = <<Do("ChangePassword")>>
      PROVE  Fit(route)
  <2> DEFINE call == Do("ChangePassword")
  <2>1. Discreet(call) /\ call.rpc = "ChangePassword" /\ ~call.heals  BY DoDiscreet
  <2>2. /\ route.chain \in Seq(Elements(route.chain))
        /\ Elements(route.chain) = {"Require", "authLimit"}
    BY <1>1, UserLimited
  <2> HIDE DEF call
  <2>3. Guarded(call, Elements(route.chain))
    BY <2>1, <2>2, Unlicensed DEF Guarded, Affairs
  <2>4. route.calls = <<call>>  BY <1>1 DEF call
  <2> QED  BY <1>1, <2>1, <2>2, <2>3, <2>4, OneCall
<1>2. ASSUME NEW route \in AccountRoutes
      PROVE  /\ route.ok \in Int
             /\ \/ route.chain = User \o Limited /\ route.calls = <<Do("ChangePassword")>>
                \/ route.chain = User /\ route.calls = <<Do("Logout")>>
                \/ route.chain = Limited /\ \E rpc \in Public : route.calls = <<Do(rpc)>>
  BY DEF AccountRoutes, Route, Public
<1>3. "Logout" \in Affairs \ Throttled  BY DEF Affairs, Throttled
<1> QED  BY <1>1, <1>2, <1>3, UserRoute, LimitedRoute

LEMMA RoleRoutesFit == \A route \in RoleRoutes : Fit(route)
BY AdminRoute, Permissions DEF RoleRoutes, Route

LEMMA TenantRoutesFit == \A route \in TenantRoutes : Fit(route)
BY AdminRoute, UserRoute, Permissions DEF TenantRoutes, Route, Affairs, Throttled

LEMMA FactorRoutesFit == \A route \in FactorRoutes : Fit(route)
BY AdminRoute, UserRoute, LimitedRoute, Permissions DEF FactorRoutes, Route, Affairs, Throttled, Public

LEMMA UserRoutesFit == \A route \in UserRoutes : Fit(route)
BY AdminRoute, NoCalls, ChainSequences, Permissions DEF UserRoutes, Route

\* getMe heals, getUser and listUsers ask who is in the tenant before they ask
\* for profiles, and updateUser checks a permission by whose profile it is.
LEMMA GetMeFits == Fit(Route("getMe", User, FALSE, <<Healed, Healing>>, 200))
<1> SUFFICES ASSUME NEW route, route = Route("getMe", User, FALSE, <<Healed, Healing>>, 200)
             PROVE  Fit(route)
  OBVIOUS
<1>1. route.chain = User /\ route.calls = <<Healed, Healing>> /\ route.ok \in Int  BY DEF Route
<1>2. Guarded(Healed, Elements(User))
  BY HealDiscreet, HealedUnlicensed, ChainElements DEF Guarded, Throttled
<1>3. Guarded(Healing, Elements(User)) /\ Healing.rpc \notin Throttled
  BY HealDiscreet, Unlicensed, ChainElements DEF Guarded, Affairs, Throttled
<1>4. route.calls = MeCalls /\ route.ok = 200  BY DEF Route, MeCalls
<1> QED  BY <1>1, <1>2, <1>3, <1>4, HealDiscreet, ChainSequences, TwoCalls

LEMMA ReaderFits ==
  ASSUME NEW route, NEW status \in Int, NEW rpc \in {"GetProfile", "GetProfiles"},
         route.chain = Admin("user:read"), route.ok \in Int,
         route.calls = <<Stopping(Do("ListMembers"), status), Do(rpc)>>
  PROVE  Fit(route)
<1> DEFINE first == Stopping(Do("ListMembers"), status)
<1>1. Discreet(first) /\ first.rpc = "ListMembers" /\ ~first.heals  BY StoppingDiscreet
<1>2. Discreet(Do(rpc)) /\ Do(rpc).rpc = rpc /\ ~Do(rpc).heals  BY DoDiscreet
<1>3. rpc \notin Throttled  BY DEF Throttled
<1>4. route.calls = <<first, Do(rpc)>>  OBVIOUS
<1> HIDE DEF first
<1>5. /\ Guarded(first, Elements(Admin("user:read")))
      /\ Guarded(Do(rpc), Elements(Admin("user:read")))
  BY <1>1, <1>2, AdminGuards, Permissions
<1> QED  BY <1>1, <1>2, <1>3, <1>4, <1>5, ChainSequences, TwoCalls

LEMMA UpdateUserFits ==
  ASSUME NEW route, route.chain = Admin("own or other"), route.ok \in Int,
         route.calls = <<Do("UpdateProfile")>>
  PROVE  Fit(route)
<1> DEFINE call == Do("UpdateProfile")
<1>1. Discreet(call) /\ call.rpc = "UpdateProfile" /\ ~call.heals  BY DoDiscreet
<1>2. route.calls = <<call>>  OBVIOUS
<1> HIDE DEF call
<1>3. \A own \in BOOLEAN : Permission("own or other", own) \in Licences(call, own)
  BY <1>1, Licensed DEF Permission
<1>4. "own or other" \in {"Require", "own or other"} \ Plain  BY DEF Plain
<1>5. call.rpc \notin Throttled  BY <1>1 DEF Throttled
<1>6. Guarded(call, {"Require", "own or other"})  BY <1>3, <1>4, <1>5 DEF Guarded
<1>7. /\ route.chain \in Seq(Elements(route.chain))
      /\ Elements(route.chain) = {"Require", "own or other"}
  BY ChainElements, ChainSequences
<1> QED  BY <1>1, <1>2, <1>6, <1>7, OneCall

LEMMA ProfileRoutesFit == \A route \in ProfileRoutes : Fit(route)
<1>1. ASSUME NEW route, route = Route("getUser", Admin("user:read"), FALSE,
                                      <<Stopping(Do("ListMembers"), 404), Do("GetProfile")>>, 200)
      PROVE  Fit(route)
  <2>1. /\ route.chain = Admin("user:read") /\ route.ok \in Int
        /\ route.calls = <<Stopping(Do("ListMembers"), 404), Do("GetProfile")>>
    BY <1>1 DEF Route
  <2> QED  BY <2>1, ReaderFits
<1>2. ASSUME NEW route, route = Route("listUsers", Admin("user:read"), FALSE,
                                      <<Stopping(Do("ListMembers"), 200), Do("GetProfiles")>>, 200)
      PROVE  Fit(route)
  <2>1. /\ route.chain = Admin("user:read") /\ route.ok \in Int
        /\ route.calls = <<Stopping(Do("ListMembers"), 200), Do("GetProfiles")>>
    BY <1>2 DEF Route
  <2> QED  BY <2>1, ReaderFits
<1>3. ASSUME NEW route, route = Route("updateUser", Admin("own or other"), TRUE,
                                      <<Do("UpdateProfile")>>, 200)
      PROVE  Fit(route)
  <2>1. route.chain = Admin("own or other")  BY <1>3 DEF Route
  <2>2. route.calls = <<Do("UpdateProfile")>>  BY <1>3 DEF Route
  <2>3. route.ok = 200  BY <1>3 DEF Route
  <2>4. route.ok \in Int  BY <2>3
  <2> QED  BY <2>1, <2>2, <2>4, UpdateUserFits
<1> QED  BY <1>1, <1>2, <1>3, GetMeFits DEF ProfileRoutes

\* The login pages make a call in Throttled and then ask who has logged in.
LEMMA LoginPagesFit == \A route \in LoginPages : Fit(route)
<1>1. ASSUME NEW call, Discreet(call), call.rpc \in Public
      PROVE  Guarded(call, Elements(Limited))
  BY <1>1, ChainElements, Unlicensed DEF Guarded
<1>2. ASSUME NEW route, NEW first, route.chain = Limited, route.ok \in Int,
             route.calls = <<first, Or(Do("ValidateToken"), 500)>>,
             Discreet(first), first.rpc \in Public, ~first.heals
      PROVE  Fit(route)
  <2> DEFINE second == Or(Do("ValidateToken"), 500)
  <2>1. Discreet(second) /\ second.rpc = "ValidateToken" /\ ~second.heals  BY OrDiscreet
  <2> HIDE DEF second
  <2>2. second.rpc \in Public \ Throttled  BY <2>1 DEF Public, Throttled
  <2>3. route.calls = <<first, second>>  BY <1>2 DEF second
  <2> QED  BY <1>1, <1>2, <2>1, <2>2, <2>3, ChainSequences, TwoCalls
<1>3. LET first == Stopping(Or(Do("Login"), 401), 200)
      IN  Discreet(first) /\ first.rpc \in Public /\ ~first.heals
  BY StoppingDiscreet DEF Public
<1>4. LET first == Or(Do("LoginTotp"), 401)
      IN  Discreet(first) /\ first.rpc \in Public /\ ~first.heals
  BY OrDiscreet DEF Public
<1> QED  BY <1>2, <1>3, <1>4 DEF LoginPages, Route

\* What a relying party asks for itself, and what anyone may ask.
LEMMA ClientRoutesFit == \A route \in ClientRoutes \cup Discovery : Fit(route)
<1>1. ASSUME NEW route, NEW rpc \in Public \ Throttled, NEW status \in Int,
             route.chain = <<>>, route.ok \in Int, route.calls = <<Or(Do(rpc), status)>>
      PROVE  Fit(route)
  <2> DEFINE call == Or(Do(rpc), status)
  <2>1. Discreet(call) /\ call.rpc = rpc /\ ~call.heals  BY OrDiscreet
  <2> HIDE DEF call
  <2>2. Guarded(call, Elements(<<>>))  BY <2>1, Unlicensed DEF Guarded
  <2>3. route.calls = <<call>>  BY <1>1 DEF call
  <2> QED  BY <1>1, <2>1, <2>2, <2>3, ChainSequences, OneCall
<1>2. {"ExchangeAuthorizationCode", "Refresh", "GetJwks"} \subseteq Public \ Throttled
  BY DEF Public, Throttled
<1>3. ASSUME NEW route \in ClientRoutes \cup Discovery
      PROVE  /\ route.ok \in Int
             /\ \/ route.chain \in {<<>>, User} /\ route.calls = <<>>
                \/ \E rpc, p : Opens(p, rpc) /\ route.chain = Admin(p) /\ route.calls = <<Do(rpc)>>
                \/ /\ route.chain = <<>>
                   /\ \E rpc \in {"ExchangeAuthorizationCode", "Refresh", "GetJwks"}, status \in Int :
                        route.calls = <<Or(Do(rpc), status)>>
  BY Permissions DEF ClientRoutes, Discovery, Route
<1> QED
  <2> SUFFICES ASSUME NEW route \in ClientRoutes \cup Discovery PROVE Fit(route)  OBVIOUS
  <2>1. CASE route.chain \in {<<>>, User} /\ route.calls = <<>>
    BY <1>3, <2>1, NoCalls, ChainSequences
  <2>2. CASE \E rpc, p : Opens(p, rpc) /\ route.chain = Admin(p) /\ route.calls = <<Do(rpc)>>
    BY <1>3, <2>2, AdminRoute
  <2>3. CASE /\ route.chain = <<>>
             /\ \E rpc \in {"ExchangeAuthorizationCode", "Refresh", "GetJwks"}, status \in Int :
                  route.calls = <<Or(Do(rpc), status)>>
    BY <1>1, <1>2, <1>3, <2>3
  <2> QED  BY <1>3, <2>1, <2>2, <2>3

--------------------------------------------------------------------------------
\* No route of New (router.go) lets a call through unguarded, whichever of them
\* are exercised: Require stands before every call that is not public, a check of
\* a permission before what requires one, and the one limiter before each call of
\* the public auth endpoints and of changePassword, on the login pages too.  The
\* calls of activateTotp, disableTotp and /token test secrets without a limiter.
THEOREM TableFit == \A route \in Table : Fit(route)
BY AccountRoutesFit, UserRoutesFit, ProfileRoutesFit, RoleRoutesFit, TenantRoutesFit, FactorRoutesFit,
   LoginPagesFit, ClientRoutesFit DEF Table
================================================================================
