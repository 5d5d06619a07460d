------------------------------- MODULE Directory -------------------------------
(***************************************************************************)
(* The handlers that put together what two services know: accounts and     *)
(* memberships are kept by auth, profiles by user, and auth tells user of  *)
(* registrations and deletions in events.  getMe, getUser and listUsers    *)
(* make their calls one after another while the administrators' handlers   *)
(* change accounts and memberships and events change profiles.             *)
(* Permissions, bodies and statuses of errors are in RequestPipeline.      *)
(* Every caller here has an active tenant, as the bearer of a token has.   *)
(* Callers with an API key have none (auth.go:43-47), and what the auth    *)
(* service answers to them is not modelled.                                *)
(***************************************************************************)
EXTENDS Naturals, Sequences

CONSTANTS
  Reqs,        \* names for the requests in progress
  Users,       \* accounts, by user id
  Nobody,
  Tenants,
  MaxChanges,  \* bound: administrative operations
  MaxFails     \* bound: calls that fail

ASSUME NobodyAssumption == Nobody \notin Users
ASSUME BoundAssumption == MaxChanges \in Nat /\ MaxFails \in Nat

VARIABLES
  account,     \* auth: user -> "none", "active", "deleted" (restorable) or "purged"
  members,     \* auth: tenant -> its users
  events,      \* outbox of auth: user -> events not yet taken by the user service
  profile,     \* user: user -> "none", "live" or "hidden"
  request,     \* what each request has learnt, and its answer
  changes, fails

auth == <<account, members, events>>
bounds == <<changes, fails>>
vars == <<account, members, events, profile, request, changes, fails>>

NoRows == [id \in {} |-> Nobody]

\* user is getMe's caller or getUser's :id, tenant the caller's active tenant,
\* gone the query parameter "deleted", rows the user ids answered and whose
\* profile each is given.  Histories, of the time since the request arrived:
\* ever has been a member, kept has been one with a live profile all the time,
\* softly has been soft-deleted, broken is whether a call has failed.
Idle == [step |-> "idle", op |-> "none", user |-> Nobody, tenant |-> Nobody, gone |-> FALSE,
         ids |-> {}, status |-> 0, text |-> "own", rows |-> NoRows,
         ever |-> {}, kept |-> {}, softly |-> {}, broken |-> FALSE]

TypeOK ==
  /\ account \in [Users -> {"none", "active", "deleted", "purged"}]
  /\ members \in [Tenants -> SUBSET Users]
  /\ events \in [Users -> Seq({"registered", "deleted", "restored", "purged"})]
  /\ profile \in [Users -> {"none", "live", "hidden"}]
  /\ DOMAIN request = Reqs
  /\ \A r \in Reqs :
       /\ request[r].step \in {"idle", "members", "profile", "profiles", "create", "answered"}
       /\ request[r].op \in {"none", "getMe", "getUser", "listUsers"}
       /\ request[r].user \in Users \cup {Nobody}
       /\ request[r].tenant \in Tenants \cup {Nobody}
       /\ request[r].status \in {0, 200, 404, 500}
       /\ request[r].text \in {"own", "service"}
       /\ UNION {request[r].ids, request[r].ever, request[r].kept, request[r].softly} \subseteq Users
       /\ DOMAIN request[r].rows \subseteq Users
       /\ \A id \in DOMAIN request[r].rows : request[r].rows[id] \in Users \cup {Nobody}
       /\ {request[r].gone, request[r].broken} \subseteq BOOLEAN
       /\ request[r].step = "create" => request[r].op = "getMe" /\ request[r].user \in Users
       /\ request[r].step = "answered" <=> request[r].status # 0
  /\ changes \in 0..MaxChanges /\ fails \in 0..MaxFails

\* Users who have not registered yet, and users the events about whom are done.
Init ==
  /\ account \in [Users -> {"none", "active"}]
  /\ members \in [Tenants -> SUBSET {u \in Users : account[u] = "active"}]
  /\ events = [u \in Users |-> <<>>]
  /\ profile = [u \in Users |-> IF account[u] = "active" THEN "live" ELSE "none"]
  /\ request = [r \in Reqs |-> Idle]
  /\ changes = 0 /\ fails = 0

--------------------------------------------------------------------------------
(* Around the requests *)

UnderWay(q) == q.step \notin {"idle", "answered"}

Live(prof) == {u \in Users : prof[u] = "live"}
Soft(acc) == {u \in Users : acc[u] = "deleted"}

\* The histories of a request when the services have come to this state.
Observe(q, acc, mem, prof) ==
  IF ~UnderWay(q) \/ q.op = "getMe" THEN q ELSE
  [q EXCEPT !.ever = @ \cup mem[q.tenant],
            !.kept = @ \cap mem[q.tenant] \cap Live(prof),
            !.softly = @ \cup Soft(acc)]

Witnessed == request' = [r \in Reqs |-> Observe(request[r], account', members', profile')]

Change == changes < MaxChanges /\ changes' = changes + 1 /\ UNCHANGED fails

Tell(u, event) == events' = [events EXCEPT ![u] = Append(@, event)]

\* The handlers with one call, at the moment the auth service does what it asks.
Register(u) ==
  /\ account[u] = "none"
  /\ account' = [account EXCEPT ![u] = "active"]
  /\ Tell(u, "registered")
  /\ Change /\ UNCHANGED <<members, profile>> /\ Witnessed

DeleteUser(u, hard) ==
  /\ account[u] \in IF hard THEN {"active", "deleted"} ELSE {"active"}
  /\ account' = [account EXCEPT ![u] = IF hard THEN "purged" ELSE "deleted"]
  /\ members' = [t \in Tenants |-> IF hard THEN members[t] \ {u} ELSE members[t]]
  /\ Tell(u, IF hard THEN "purged" ELSE "deleted")
  /\ Change /\ UNCHANGED profile /\ Witnessed

RestoreUser(u) ==
  /\ account[u] = "deleted"
  /\ account' = [account EXCEPT ![u] = "active"]
  /\ Tell(u, "restored")
  /\ Change /\ UNCHANGED <<members, profile>> /\ Witnessed

AddMember(t, u) ==
  /\ account[u] = "active" /\ u \notin members[t]
  /\ members' = [members EXCEPT ![t] = @ \cup {u}]
  /\ Change /\ UNCHANGED <<account, events, profile>> /\ Witnessed

RemoveMember(t, u) ==
  /\ u \in members[t]
  /\ members' = [members EXCEPT ![t] = @ \ {u}]
  /\ Change /\ UNCHANGED <<account, events, profile>> /\ Witnessed

\* The user service takes the next event about a user, and may be given it again.
Deliver(u) ==
  /\ events[u] # <<>>
  /\ LET was == profile[u]
         now == CASE Head(events[u]) = "registered" /\ was = "none" -> "live"
                  [] Head(events[u]) = "deleted" /\ was = "live" -> "hidden"
                  [] Head(events[u]) = "restored" /\ was = "hidden" -> "live"
                  [] Head(events[u]) = "purged" -> "none"
                  [] OTHER -> was
     IN  profile' = [profile EXCEPT ![u] = now]
  /\ events' = [events EXCEPT ![u] = Tail(@)] \/ UNCHANGED events
  /\ UNCHANGED <<account, members, changes, fails>>
  /\ Witnessed

--------------------------------------------------------------------------------
(* The handlers with two calls *)

\* ValidateToken, which the auth service answers: the tokens of an account are
\* taken to end with it.
Accepted(u) == account[u] = "active"

Begin(r, q) ==
  /\ ~UnderWay(request[r])
  /\ request' = [request EXCEPT ![r] = q]
  /\ UNCHANGED <<auth, profile, bounds>>

\* A mutated form of ArriveMe.
ArriveMeUnchecked(r, u) ==
  /\ account[u] # "none"
  /\ Begin(r, [Idle EXCEPT !.step = "profile", !.op = "getMe", !.user = u])

\* Require has taken the caller's identity; the handler sends its first call.
ArriveMe(r, u) ==
  /\ Accepted(u)
  /\ Begin(r, [Idle EXCEPT !.step = "profile", !.op = "getMe", !.user = u])

\* Administrators of a tenant ask for one of its users, or for all.
Asked(op, t) ==
  [Idle EXCEPT !.step = "members", !.op = op, !.tenant = t, !.ever = members[t],
               !.kept = members[t] \cap Live(profile), !.softly = Soft(account)]

ArriveUser(r, t, u) == Begin(r, [Asked("getUser", t) EXCEPT !.user = u])
ArriveList(r, t, gone) == Begin(r, [Asked("listUsers", t) EXCEPT !.gone = gone])

At(r, step) == request[r].step = step

Going(q, step, ids) == [q EXCEPT !.step = step, !.ids = ids]

Answered(q, status, text, rows) ==
  [q EXCEPT !.step = "answered", !.status = status, !.text = text, !.rows = rows]

Broken(q, status, text) ==
  [Answered(q, status, text, NoRows) EXCEPT !.broken = TRUE]

Continue(r, step, ids) == request' = [request EXCEPT ![r] = Going(@, step, ids)]
Answer(r, status, text, rows) == request' = [request EXCEPT ![r] = Answered(@, status, text, rows)]

Only(u) == [id \in {u} |-> u]

\* A mutated form of AfterMembers.
AfterMembersUnchecked(r, ids) ==
  Continue(r, IF request[r].op = "getUser" THEN "profile" ELSE "profiles", ids)

\* getUser goes on only with a member of the tenant, listUsers only with some.
AfterMembers(r, ids) ==
  CASE request[r].op = "getUser" /\ request[r].user \notin ids -> Answer(r, 404, "own", NoRows)
    [] request[r].op = "getUser" /\ request[r].user \in ids -> Continue(r, "profile", ids)
    [] request[r].op = "listUsers" /\ ids = {} -> Answer(r, 200, "own", NoRows)
    [] OTHER -> Continue(r, "profiles", ids)

\* A mutated form of ListMembers.
ListMembersUnscoped(r) ==
  /\ At(r, "members")
  /\ AfterMembers(r, UNION {members[t] : t \in Tenants})
  /\ UNCHANGED <<auth, profile, bounds>>

\* The call carries the caller's identity, so auth lists that tenant only.
ListMembers(r) ==
  /\ At(r, "members")
  /\ AfterMembers(r, members[request[r].tenant])
  /\ UNCHANGED <<auth, profile, bounds>>

\* Mutated forms of WithoutProfile.
WithoutProfileNotFound(r) == Answer(r, 404, "service", NoRows)
WithoutProfileHeal(r) == Continue(r, "create", {})

\* GetProfile has answered NotFound: getMe heals, getUser passes it on.
WithoutProfile(r) ==
  IF request[r].op = "getMe" THEN Continue(r, "create", {})
                             ELSE Answer(r, 404, "service", NoRows)

GetProfile(r) ==
  /\ At(r, "profile")
  /\ LET u == request[r].user
     IN  IF profile[u] = "live" THEN Answer(r, 200, "own", Only(u)) ELSE WithoutProfile(r)
  /\ UNCHANGED <<auth, profile, bounds>>

\* CreateProfile leaves a profile that is there as it is ("idempotent"); of one
\* that is hidden it may say so, and getMe answers the first error.
CreateProfile(r) ==
  /\ At(r, "create")
  /\ LET u == request[r].user
     IN  /\ profile' = [profile EXCEPT ![u] = IF @ = "none" THEN "live" ELSE @]
         /\ LET q == [s \in Reqs |-> Observe(request[s], account, members, profile')]
            IN  \/ request' = [q EXCEPT ![r] = Answered(@, 200, "own", Only(u))]
                \/ /\ profile[u] = "hidden"
                   /\ request' = [q EXCEPT ![r] = Answered(@, 404, "service", NoRows)]
  /\ UNCHANGED <<auth, bounds>>

\* A mutated form of Join.
JoinLast(ids, found) ==
  [id \in ids |-> IF found = {} THEN Nobody ELSE CHOOSE u \in found : TRUE]

\* profByID: one row for each member, with the profile that was found for it.
Join(ids, found) == [id \in ids |-> IF id \in found THEN id ELSE Nobody]

GetProfiles(r) ==
  /\ At(r, "profiles")
  /\ Answer(r, 200, "own", Join(request[r].ids, request[r].ids \cap Live(profile)))
  /\ UNCHANGED <<auth, profile, bounds>>

\* A call is not answered by its service.  CreateProfile may have been carried
\* out; getMe then answers with the error of its first call.
Break(r) ==
  /\ UnderWay(request[r])
  /\ fails < MaxFails
  /\ fails' = fails + 1
  /\ \/ UNCHANGED profile
     \/ /\ At(r, "create") /\ profile[request[r].user] = "none"
        /\ profile' = [profile EXCEPT ![request[r].user] = "live"]
  /\ LET q == [s \in Reqs |-> Observe(request[s], account, members, profile')]
     IN  request' = [q EXCEPT ![r] =
                       IF At(r, "create") THEN Broken(@, 404, "service") ELSE Broken(@, 500, "own")]
  /\ UNCHANGED <<auth, changes>>

Handle(r) ==
  ListMembers(r) \/ GetProfile(r) \/ CreateProfile(r) \/ GetProfiles(r) \/ Break(r)

--------------------------------------------------------------------------------
Next ==
  \/ \E u \in Users : Register(u) \/ RestoreUser(u) \/ Deliver(u)
  \/ \E u \in Users, hard \in BOOLEAN : DeleteUser(u, hard)
  \/ \E t \in Tenants, u \in Users : AddMember(t, u) \/ RemoveMember(t, u)
  \/ \E r \in Reqs, u \in Users : ArriveMe(r, u)
  \/ \E r \in Reqs, t \in Tenants, u \in Users : ArriveUser(r, t, u)
  \/ \E r \in Reqs, t \in Tenants, gone \in BOOLEAN : ArriveList(r, t, gone)
  \/ \E r \in Reqs : Handle(r)

Spec == Init /\ [][Next]_vars

\* Calls end, and users come back to their own page.  Nothing is assumed of
\* the events.
FairSpec ==
  /\ Spec
  /\ \A r \in Reqs : WF_vars(Handle(r))
  /\ \A u \in Users : SF_vars(\E r \in Reqs : ArriveMe(r, u))

--------------------------------------------------------------------------------
(* Properties *)

\* "a tenant admin never sees other tenants' users": whatever memberships change
\* between the calls, a user named in an answer, or whose profile is in it, has
\* been a member of the asking tenant since the request arrived.
TenantScoped ==
  \A r \in Reqs : At(r, "answered") /\ request[r].op \in {"getUser", "listUsers"} =>
    \A id \in DOMAIN request[r].rows :
      {id, request[r].rows[id]} \subseteq request[r].ever \cup {Nobody}

\* "an id outside it returns 404 rather than leaking another tenant's user (its
\* very existence included)": of a user who has not been a member, the answer is
\* the same whether there is such a user, with a profile or without.
NothingTold ==
  \A r \in Reqs : At(r, "answered") /\ request[r].op = "getUser" =>
    request[r].user \in request[r].ever
      \/ (request[r].status = 404 /\ request[r].text = "own")
      \/ request[r].broken

\* "its members (from auth) joined with their profiles": the two answers are of
\* different moments, but a member who has had a profile all the time is found
\* with it, and no row has the profile of another user.
DirectoryJoined ==
  \A r \in Reqs : At(r, "answered") /\ ~request[r].broken =>
    /\ request[r].op = "getUser" /\ request[r].user \in request[r].kept => request[r].status = 200
    /\ request[r].op = "listUsers" => request[r].kept \subseteq DOMAIN request[r].rows
    /\ \A id \in DOMAIN request[r].rows :
         request[r].rows[id] \in IF id \in request[r].kept THEN {id} ELSE {id, Nobody}

\* "GET /users/me heals lazily if a read arrives before the event is processed":
\* a user who comes back to that page has a profile in the end, even if the
\* event never arrives, some calls fail and an answer is lost.
Healed ==
  \A u \in Users :
    account[u] = "active" /\ profile[u] = "none" ~> profile[u] # "none" \/ account[u] # "active"

Reading(u) == \E r \in Reqs : UnderWay(request[r]) /\ request[r].op = "getMe" /\ request[r].user = u

\* Healing makes no profile for a user who is gone: once the deletion has
\* reached the user service and the requests of that user are over, there is
\* none again, however often the page is asked for.
GoneForGood ==
  \A u \in Users :
    [](account[u] = "purged" /\ events[u] = <<>> /\ profile[u] = "none" /\ ~Reading(u)
         => [](profile[u] = "none"))

\* "?hard=true removes the identity permanently. The matching profile is updated
\* asynchronously via a UserDeleted event": when the event has been processed and
\* the user's requests are over, no profile is left.  A request that was let in
\* before the deletion may heal the profile after the event.
PurgedLeavesNoProfile ==
  \A u \in Users :
    account[u] = "purged" /\ events[u] = <<>> /\ ~Reading(u) => profile[u] = "none"

\* openapi.yaml: deleted=true is to "list soft-deleted users instead (for
\* restore)".  listUsers does not read the parameter.
DeletedListed ==
  \A r \in Reqs : At(r, "answered") /\ request[r].gone =>
    DOMAIN request[r].rows \subseteq request[r].softly
================================================================================
