---------------------------- MODULE RequestPipeline ----------------------------
(***************************************************************************)
(* internal/router and internal/middleware: a request passes the           *)
(* middlewares of its route, which may answer in its place, and a handler  *)
(* that makes one or more calls to the auth and user services.  Meanwhile  *)
(* other requests are served and the auth service changes under them:      *)
(* tokens are revoked and permissions granted or taken away.               *)
(* A request holds what is left of its middlewares and calls.              *)
(* /authorize, /authorize/consent and /logout are in OidcFlow.             *)
(***************************************************************************)
EXTENDS Integers, Sequences

CONSTANTS
  Reqs,        \* names for the requests in progress
  Tokens,      \* access tokens and API keys: both resolve to an identity
  NoToken,
  Names,       \* the routes exercised, by handler name
  Rights,      \* the sets of permissions the auth service may report
  Limit,       \* AUTH_RATE_LIMIT
  MaxWindows   \* bound: rate-limit windows that begin

ASSUME NoTokenAssumption == NoToken \notin Tokens
ASSUME LimitAssumption == Limit \in Nat \ {0}
ASSUME WindowsAssumption == MaxWindows \in Nat \ {0}

\* One downstream call.  Its error is relayed by writeGRPCError unless onError
\* has a status; after a success the handler may stop with a status in stops
\* although calls are left; a call that heals is the last one unless it fails
\* with NotFound, an error that the handler keeps.
Do(rpc) == [rpc |-> rpc, onError |-> [status |-> 0, text |-> "service"],
            stops |-> {}, heals |-> FALSE]
Or(call, status) == [call EXCEPT !.onError = [status |-> status, text |-> "own"]]
Stopping(call, status) == [call EXCEPT !.stops = {status}]
Healed == [Do("GetProfile") EXCEPT !.heals = TRUE]
Healing == Do("CreateProfile")

\* What New registers: the middlewares, whether the handler decodes a body it
\* may refuse, its calls, and the status of its success.
Route(name, chain, binds, calls, ok) ==
  [name |-> name, chain |-> chain, binds |-> binds, calls |-> calls, ok |-> ok]

Limited == <<"authLimit">>
User == <<"Require">>
Admin(perm) == <<"Require", perm>>

--------------------------------------------------------------------------------
\* A mutated form of LoginPages below.
LoginPagesUnlimited == {
  Route("authorizeLogin", <<>>, FALSE,
        <<Stopping(Or(Do("Login"), 401), 200), Or(Do("ValidateToken"), 500)>>, 302),
  Route("authorizeTotp", <<>>, FALSE,
        <<Or(Do("LoginTotp"), 401), Or(Do("ValidateToken"), 500)>>, 302)}

--------------------------------------------------------------------------------
(* The route table *)

AccountRoutes == {
  Route("register", Limited, TRUE, <<Do("Register")>>, 201),
  Route("login", Limited, TRUE, <<Do("Login")>>, 200),
  Route("refresh", Limited, TRUE, <<Do("Refresh")>>, 200),
  Route("logout", User, TRUE, <<Do("Logout")>>, 200),
  Route("requestEmailVerification", Limited, TRUE, <<Do("RequestEmailVerification")>>, 200),
  Route("verifyEmail", Limited, TRUE, <<Do("VerifyEmail")>>, 200),
  Route("requestPasswordReset", Limited, TRUE, <<Do("RequestPasswordReset")>>, 200),
  Route("resetPassword", Limited, TRUE, <<Do("ResetPassword")>>, 200),
  Route("changePassword", User \o Limited, TRUE, <<Do("ChangePassword")>>, 200)}

UserRoutes == {
  Route("listAudit", Admin("audit:read"), FALSE, <<Do("ListAuditEvents")>>, 200),
  Route("getIdentity", User, FALSE, <<>>, 200),
  Route("listPermissions", Admin("role:read"), FALSE, <<Do("ListPermissions")>>, 200),
  Route("deleteUser", Admin("user:delete"), FALSE, <<Do("DeleteUser")>>, 200)}

ProfileRoutes == {
  Route("getMe", User, FALSE, <<Healed, Healing>>, 200),
  Route("getUser", Admin("user:read"), FALSE,
        <<Stopping(Do("ListMembers"), 404), Do("GetProfile")>>, 200),
  Route("listUsers", Admin("user:read"), FALSE,
        <<Stopping(Do("ListMembers"), 200), Do("GetProfiles")>>, 200),
  Route("updateUser", Admin("own or other"), TRUE, <<Do("UpdateProfile")>>, 200)}

RoleRoutes == {
  Route("listRoles", Admin("role:read"), FALSE, <<Do("ListRoles")>>, 200),
  Route("createRole", Admin("role:write"), TRUE, <<Do("CreateRole")>>, 201),
  Route("updateRole", Admin("role:write"), TRUE, <<Do("UpdateRole")>>, 200),
  Route("deleteRole", Admin("role:write"), FALSE, <<Do("DeleteRole")>>, 200),
  Route("grantPermission", Admin("role:write"), TRUE, <<Do("GrantPermission")>>, 200),
  Route("revokePermission", Admin("role:write"), FALSE, <<Do("RevokePermission")>>, 200),
  Route("assignRole", Admin("role:assign"), TRUE, <<Do("AssignRole")>>, 200),
  Route("revokeRole", Admin("role:assign"), FALSE, <<Do("RevokeRole")>>, 200),
  Route("getUserRoleAssignments", Admin("role:read"), FALSE,
        <<Do("GetUserRoleAssignments")>>, 200)}

TenantRoutes == {
  Route("listMemberships", User, FALSE, <<Do("ListMyMemberships")>>, 200),
  Route("switchTenant", User, TRUE, <<Do("SwitchTenant")>>, 200),
  Route("createTenant", Admin("tenant:write"), TRUE, <<Do("CreateTenant")>>, 201),
  Route("listTenants", Admin("tenant:read"), FALSE, <<Do("ListTenants")>>, 200),
  Route("createProject", Admin("project:write"), TRUE, <<Do("CreateProject")>>, 201),
  Route("listProjects", Admin("project:read"), FALSE, <<Do("ListProjects")>>, 200),
  Route("listMembers", Admin("member:read"), FALSE, <<Do("ListMembers")>>, 200),
  Route("addMember", Admin("member:write"), TRUE, <<Do("AddMember")>>, 201),
  Route("removeMember", Admin("member:write"), FALSE, <<Do("RemoveMember")>>, 200)}

FactorRoutes == {
  Route("loginTotp", Limited, TRUE, <<Do("LoginTotp")>>, 200),
  Route("totpStatus", User, FALSE, <<Do("GetTotpStatus")>>, 200),
  Route("enrollTotp", User, FALSE, <<Do("EnrollTotp")>>, 200),
  Route("activateTotp", User, TRUE, <<Do("ActivateTotp")>>, 200),
  Route("disableTotp", User, TRUE, <<Do("DisableTotp")>>, 200),
  Route("createApiKey", User, TRUE, <<Do("CreateApiKey")>>, 201),
  Route("listApiKeys", User, FALSE, <<Do("ListApiKeys")>>, 200),
  Route("revokeApiKey", User, FALSE, <<Do("RevokeApiKey")>>, 200),
  Route("restoreUser", Admin("user:delete"), FALSE, <<Do("RestoreUser")>>, 200),
  Route("assignRoleBulk", Admin("role:assign"), TRUE, <<Do("AssignRoleBulk")>>, 200)}

LoginPages == {
  Route("authorizeLogin", Limited, FALSE,
        <<Stopping(Or(Do("Login"), 401), 200), Or(Do("ValidateToken"), 500)>>, 302),
  Route("authorizeTotp", Limited, FALSE,
        <<Or(Do("LoginTotp"), 401), Or(Do("ValidateToken"), 500)>>, 302)}

\* The two grants of /token; an unknown grant_type is a refused body.
ClientRoutes == {
  Route("token", <<>>, TRUE, <<Or(Do("ExchangeAuthorizationCode"), 400)>>, 200),
  Route("tokenRefresh", <<>>, TRUE, <<Or(Do("Refresh"), 400)>>, 200),
  Route("userinfo", User, FALSE, <<>>, 200),
  Route("registerClient", Admin("role:write"), TRUE, <<Do("RegisterClient")>>, 201)}

Discovery == {
  Route("oidcDiscovery", <<>>, FALSE, <<>>, 200),
  Route("jwks", <<>>, FALSE, <<Or(Do("GetJwks"), 503)>>, 200)}

Table ==
  UNION {AccountRoutes, UserRoutes, ProfileRoutes, RoleRoutes, TenantRoutes,
         FactorRoutes, LoginPages, ClientRoutes, Discovery}

--------------------------------------------------------------------------------
VARIABLES
  live,        \* auth service: the tokens it accepts
  rights,      \* auth service: the permissions it reports for each token
  spent,       \* requests the shared limiter has admitted in this window
  windows,     \* history: windows begun
  guesses,     \* history: how often a call in Throttled was made
  request      \* what each request has left to do and what it has learnt

vars == <<live, rights, spent, windows, guesses, request>>

Exercised == {route \in Table : route.name \in Names}

Codes == {"InvalidArgument", "Unauthenticated", "PermissionDenied", "NotFound",
          "AlreadyExists", "FailedPrecondition", "Internal"}

\* The calls of the "Public auth endpoints", which are "rate limited per IP to slow
\* brute-force", and of the change of password; the login pages make two of them
\* as well.  Not all calls that test a secret are among them.  New has no limiter
\* before ActivateTotp and DisableTotp, which test a code of a caller who has a
\* token, nor before ExchangeAuthorizationCode ("not a per-IP brute target").
\* Refresh is left out because /token makes it too, without a limiter.
Throttled == {"Register", "Login", "LoginTotp", "RequestEmailVerification",
              "VerifyEmail", "RequestPasswordReset", "ResetPassword", "ChangePassword"}

None == [name |-> "none", chain |-> <<>>, binds |-> FALSE, calls |-> <<>>, ok |-> 0]

Idle == [state |-> "idle", route |-> None, chain |-> <<>>, calls |-> <<>>,
         token |-> NoToken, own |-> FALSE, id |-> {}, status |-> 0, text |-> "own",
         err |-> "none", held |-> {}, valid |-> FALSE, dead |-> FALSE]

TypeOK ==
  /\ live \subseteq Tokens
  /\ rights \in [Tokens -> Rights]
  /\ spent \in 0..Limit
  /\ windows \in 0..MaxWindows
  /\ guesses \in Nat
  /\ DOMAIN request = Reqs
  /\ \A r \in Reqs :
       /\ request[r].state \in {"idle", "chain", "calling", "answered"}
       /\ request[r].route \in Exercised \cup {None}
       /\ request[r].token \in Tokens \cup {NoToken}
       /\ request[r].id \in Rights \cup {{}}
       /\ request[r].held \subseteq UNION Rights
       /\ {request[r].own, request[r].valid, request[r].dead} \subseteq BOOLEAN
       /\ request[r].text \in {"own", "service", "Require"}
       /\ request[r].err \in Codes \cup {"none"}

Init ==
  /\ live \in SUBSET Tokens
  /\ rights \in [Tokens -> Rights]
  /\ spent = 0 /\ windows = 1 /\ guesses = 0
  /\ request = [r \in Reqs |-> Idle]

--------------------------------------------------------------------------------
(* Around the gateway *)

\* What a call requires: any of these permissions; none for a caller's own
\* affairs.  openapi.yaml states it for users, profiles, roles, clients and the
\* audit log ("permission user:read" and so on).  It says nothing of tenants,
\* projects, members and role assignments, where this repeats what New registers.
Licences(call, own) ==
  LET rpc == call.rpc
  IN  CASE rpc = "ListMembers" -> {"member:read", "user:read"}
        [] rpc = "UpdateProfile" -> IF own THEN {"profile:write"} ELSE {"user:write"}
        [] rpc = "GetProfiles" \/ (rpc = "GetProfile" /\ ~call.heals) -> {"user:read"}
        [] rpc \in {"DeleteUser", "RestoreUser"} -> {"user:delete"}
        [] rpc \in {"ListRoles", "ListPermissions", "GetUserRoleAssignments"} -> {"role:read"}
        [] rpc \in {"CreateRole", "UpdateRole", "DeleteRole", "GrantPermission",
                    "RevokePermission", "RegisterClient"} -> {"role:write"}
        [] rpc \in {"AssignRole", "RevokeRole", "AssignRoleBulk"} -> {"role:assign"}
        [] rpc = "ListAuditEvents" -> {"audit:read"}
        [] rpc = "CreateTenant" -> {"tenant:write"}
        [] rpc = "ListTenants" -> {"tenant:read"}
        [] rpc = "CreateProject" -> {"project:write"}
        [] rpc = "ListProjects" -> {"project:read"}
        [] rpc \in {"AddMember", "RemoveMember"} -> {"member:write"}
        [] OTHER -> {}

Needed(q) == UNION {Licences(q.route.calls[i], q.own) : i \in DOMAIN q.route.calls}

\* held, valid and dead are histories: what has been true of the token of a
\* request at some moment since it arrived, held of the permissions it needs.
Observe(q, alive, may) ==
  IF q.state \in {"idle", "answered"} THEN q ELSE
  [q EXCEPT !.held  = IF q.token \in alive THEN @ \cup (may[q.token] \cap Needed(q)) ELSE @,
            !.valid = @ \/ q.token \in alive,
            !.dead  = @ \/ q.token \notin alive]

\* A request for a route, whose :id is the caller's own or another's.  Only
\* updateUser looks at that, and only Require at the token.
Arrive(r, route, token, own) ==
  /\ own => route.name = "updateUser"
  /\ token # NoToken => route.chain # <<>> /\ Head(route.chain) = "Require"
  /\ request[r].state \in {"idle", "answered"}
  /\ request' = [request EXCEPT ![r] =
       Observe([Idle EXCEPT !.state = "chain", !.route = route, !.chain = route.chain,
                            !.calls = route.calls, !.token = token, !.own = own],
               live, rights)]
  /\ UNCHANGED <<live, rights, spent, windows, guesses>>

\* Logout, expiry, revocation of a key, or a new token; roles that change.
AuthChanges(t, alive, may) ==
  /\ live' = (live \ {t}) \cup alive
  /\ rights' = [rights EXCEPT ![t] = may]
  /\ <<live, rights>> # <<live', rights'>>
  /\ request' = [r \in Reqs |-> Observe(request[r], live', rights')]
  /\ UNCHANGED <<spent, windows, guesses>>

NewWindow ==
  /\ windows < MaxWindows
  /\ windows' = windows + 1
  /\ spent' = 0
  /\ UNCHANGED <<live, rights, guesses, request>>

--------------------------------------------------------------------------------
(* The middlewares *)

AtMiddleware(r, name) ==
  /\ request[r].state = "chain"
  /\ request[r].chain # <<>>
  /\ Head(request[r].chain) = name

\* An answered request leaves its status, who wrote the text, and its history.
Answer(r, status, text) ==
  request' = [request EXCEPT ![r] =
    [Idle EXCEPT !.state = "answered", !.status = status, !.text = text,
                 !.err = request[r].err, !.dead = request[r].dead]]

\* c.Next()
Pass(r) == request' = [request EXCEPT ![r].chain = Tail(@)]

\* A mutated form of Throttle.
ThrottleLate(r) ==
  /\ AtMiddleware(r, "authLimit")
  /\ \/ spent <= Limit /\ spent' = spent + 1 /\ Pass(r)
     \/ spent > Limit /\ UNCHANGED spent /\ Answer(r, 429, "own")
  /\ UNCHANGED <<live, rights, windows, guesses>>

Throttle(r) ==
  /\ AtMiddleware(r, "authLimit")
  /\ \/ spent < Limit /\ spent' = spent + 1 /\ Pass(r)
     \/ spent = Limit /\ UNCHANGED spent /\ Answer(r, 429, "own")
  /\ UNCHANGED <<live, rights, windows, guesses>>

\* A mutated form of Require.
RequireWithoutAbort(r) ==
  /\ AtMiddleware(r, "Require")
  /\ LET t == request[r].token
     IN  \/ t # NoToken /\ t \in live
            /\ request' = [request EXCEPT ![r].chain = Tail(@), ![r].id = rights[t]]
         \/ Pass(r)
  /\ UNCHANGED <<live, rights, spent, windows, guesses>>

\* Require: ValidateToken or ValidateApiKey, by the token's prefix.  Whatever
\* error the call returns is a 401, also when the auth service was not reached.
Require(r) ==
  /\ AtMiddleware(r, "Require")
  /\ LET t == request[r].token
     IN  \/ t # NoToken /\ t \in live
            /\ request' = [request EXCEPT ![r].chain = Tail(@), ![r].id = rights[t]]
         \/ Answer(r, 401, "Require")
  /\ UNCHANGED <<live, rights, spent, windows, guesses>>

\* A mutated form of Wanted.
WantedFromAnyone(r) ==
  IF Head(request[r].chain) # "own or other" THEN Head(request[r].chain) ELSE "profile:write"

Wanted(r) ==
  IF Head(request[r].chain) # "own or other" THEN Head(request[r].chain)
  ELSE IF request[r].own THEN "profile:write" ELSE "user:write"

\* RequirePermission, and the check updateUser makes itself.
RequirePermission(r) ==
  /\ request[r].state = "chain"
  /\ request[r].chain # <<>>
  /\ Head(request[r].chain) \notin {"authLimit", "Require"}
  /\ \/ Wanted(r) \in request[r].id /\ Pass(r)
     \/ Wanted(r) \notin request[r].id /\ Answer(r, 403, "own")
  /\ UNCHANGED <<live, rights, spent, windows, guesses>>

--------------------------------------------------------------------------------
(* The handlers *)

Count(call) == guesses' = guesses + (IF call.rpc \in Throttled THEN 1 ELSE 0)

\* The handler decodes the body and sends its first call, or answers at once.
Handle(r) ==
  /\ request[r].state = "chain"
  /\ request[r].chain = <<>>
  /\ \/ request[r].route.binds /\ Answer(r, 400, "own") /\ UNCHANGED guesses
     \/ request[r].calls = <<>> /\ Answer(r, request[r].route.ok, "own") /\ UNCHANGED guesses
     \/ /\ request[r].calls # <<>>
        /\ request' = [request EXCEPT ![r].state = "calling"]
        /\ Count(Head(request[r].calls))
  /\ UNCHANGED <<live, rights, spent, windows>>

\* The handler goes on, with the error of the call before if it keeps one.
NextCall(r, err) ==
  /\ request' = [request EXCEPT ![r].calls = Tail(@), ![r].err = err]
  /\ Count(Head(Tail(request[r].calls)))

\* The service has done what the call asked for.
Succeed(r) ==
  /\ request[r].state = "calling"
  /\ LET calls == request[r].calls
     IN  \/ /\ \E s \in Head(calls).stops : Answer(r, s, "own")
            /\ UNCHANGED guesses
         \/ /\ Tail(calls) = <<>> \/ Head(calls).heals
            /\ Answer(r, request[r].route.ok, "own")
            /\ UNCHANGED guesses
         \/ Tail(calls) # <<>> /\ ~Head(calls).heals /\ NextCall(r, request[r].err)
  /\ UNCHANGED <<live, rights, spent, windows>>

\* writeGRPCError: only six codes have a status and keep the service's text.
HttpStatus(code) ==
  CASE code = "InvalidArgument" -> 400
    [] code = "Unauthenticated" -> 401
    [] code = "PermissionDenied" -> 403
    [] code = "NotFound" -> 404
    [] code \in {"AlreadyExists", "FailedPrecondition"} -> 409
    [] OTHER -> 500

\* A mutated form of TextOf.
TextAlways(code) == "service"

TextOf(code) == IF HttpStatus(code) = 500 THEN "own" ELSE "service"

\* A mutated form of Told.
ToldLast(r, code) == code

\* The error that is answered: the one kept, if any.
Told(r, code) == IF request[r].err = "none" THEN code ELSE request[r].err

\* The call returns an error, from the service or from the connection.
Fail(r, code) ==
  /\ request[r].state = "calling"
  /\ LET call == Head(request[r].calls)
         told == Told(r, code)
     IN  \/ call.heals /\ code = "NotFound" /\ NextCall(r, code)
         \/ /\ ~(call.heals /\ code = "NotFound")
            /\ IF call.onError.status # 0
               THEN Answer(r, call.onError.status, call.onError.text)
               ELSE Answer(r, HttpStatus(told), TextOf(told))
            /\ UNCHANGED guesses
  /\ UNCHANGED <<live, rights, spent, windows>>

--------------------------------------------------------------------------------
Progress(r) ==
  \/ Throttle(r)
  \/ Require(r)
  \/ RequirePermission(r)
  \/ Handle(r)
  \/ Succeed(r)
  \/ \E code \in Codes : Fail(r, code)

Next ==
  \/ \E r \in Reqs, route \in Exercised, t \in Tokens \cup {NoToken}, own \in BOOLEAN :
       Arrive(r, route, t, own)
  \/ \E t \in Tokens, may \in Rights : \E alive \in {{}, {t}} :
       AuthChanges(t, alive, may)
  \/ NewWindow
  \/ \E r \in Reqs : Progress(r)

Spec == Init /\ [][Next]_vars

--------------------------------------------------------------------------------
(* Properties *)

\* The calls anyone may cause.
Public == {"Register", "Login", "LoginTotp", "Refresh", "RequestEmailVerification",
           "VerifyEmail", "RequestPasswordReset", "ResetPassword", "ValidateToken",
           "ExchangeAuthorizationCode", "GetJwks"}

\* While tokens are revoked and permissions change under it, a request that has
\* a call under way was entitled to it at some moment since it arrived: its
\* token was accepted, and reported with a permission the call requires.
AuthorizedCalls ==
  \A r \in Reqs :
    request[r].state = "calling" =>
      /\ request[r].valid \/ Head(request[r].calls).rpc \in Public
      /\ LET any == Licences(Head(request[r].calls), request[r].own)
         IN  any = {} \/ any \cap request[r].held # {}

\* "rate-limited like the JSON auth endpoints so the browser flow isn't an
\* unthrottled password/TOTP oracle": the login pages, the endpoints that New
\* limits and the change of password draw on one limiter, so that whatever their
\* mix no more of their calls (Throttled) are made than its windows have admitted.
\* It says nothing of the routes New leaves without a limit.
SharedBudget == guesses <= Limit * windows

\* "return a generic message so a wrapped SQL/driver/connection error can't leak
\* schema or infra detail": a 5xx never carries a service's text.
NoDetailLeaks ==
  \A r \in Reqs : request[r].status >= 500 => request[r].text = "own"

\* getMe creates a missing profile "instead of returning 404", and if that fails
\* too answers with the first error, whatever the second was: a handler that has
\* kept an error answers 200, or with the status and the text of that error.
FirstErrorTold ==
  \A r \in Reqs :
    LET q == request[r]
    IN  q.state = "answered" /\ q.err # "none" =>
          q.status = 200 \/ (q.status = HttpStatus(q.err) /\ q.text = TextOf(q.err))

\* openapi.yaml: a 401 is for a "Missing/invalid/expired token or bad
\* credentials".  Require answers it for every error of the auth service.
RefusedForCause ==
  \A r \in Reqs : request[r].text = "Require" => request[r].dead
================================================================================
