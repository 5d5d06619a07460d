---------------------------- MODULE DirectoryProofs ----------------------------
(***************************************************************************)
(* Type correctness of Directory, its invariants TenantScoped, NothingTold *)
(* and DirectoryJoined, and GoneForGood, for any number of requests, users *)
(* and tenants.  The argument is about one request at a time: whatever the *)
(* services do, its histories keep up with them (Observing), and each call *)
(* takes over only what its histories have seen.                           *)
(***************************************************************************)
EXTENDS Directory, TLAPS

Steps == {"idle", "members", "profile", "profiles", "create", "answered"}
Ops == {"none", "getMe", "getUser", "listUsers"}
Directories == {"getUser", "listUsers"}

Statuses == {0, 200, 404, 500}
Texts == {"own", "service"}
Flags == BOOLEAN

Rows == UNION {[S -> Users \cup {Nobody}] : S \in SUBSET Users}

Requests ==
  [step : Steps, op : Ops, user : Users \cup {Nobody}, tenant : Tenants \cup {Nobody},
   gone : Flags, ids : SUBSET Users, status : Statuses,
   text : Texts, rows : Rows, ever : SUBSET Users, kept : SUBSET Users,
   softly : SUBSET Users, broken : Flags]

Accounts == [Users -> {"none", "active", "deleted", "purged"}]
Memberships == [Tenants -> SUBSET Users]
Profiles == [Users -> {"none", "live", "hidden"}]

Typed ==
  /\ account \in Accounts
  /\ members \in Memberships
  /\ events \in [Users -> Seq({"registered", "deleted", "restored", "purged"})]
  /\ profile \in Profiles
  /\ request \in [Reqs -> Requests]
  /\ changes \in 0..MaxChanges /\ fails \in 0..MaxFails

\* A request on its way: what its handler may do next, and what the histories
\* of an administrator's request have seen of the present.
OnItsWay(q, mem, prof) ==
  UnderWay(q) =>
    /\ q.status = 0 /\ DOMAIN q.rows = {}
    /\ \/ q.op = "getMe" /\ q.user \in Users /\ q.step \in {"profile", "create"}
       \/ /\ q.op = "getUser" /\ q.user \in Users /\ q.step \in {"members", "profile"}
          /\ q.step = "profile" => q.user \in q.ever
       \/ /\ q.op = "listUsers" /\ q.step \in {"members", "profiles"}
          /\ q.step = "profiles" => q.ids \subseteq q.ever /\ q.kept \subseteq q.ids
    /\ q.op \in Directories =>
         /\ q.tenant \in Tenants
         /\ mem[q.tenant] \subseteq q.ever
         /\ q.kept \subseteq mem[q.tenant]
         /\ \A u \in q.kept : prof[u] = "live"

Scoped(q) ==
  q.step = "answered" /\ q.op \in Directories =>
    \A id \in DOMAIN q.rows : {id, q.rows[id]} \subseteq q.ever \cup {Nobody}

Told(q) ==
  q.step = "answered" /\ q.op = "getUser" =>
    q.user \in q.ever \/ (q.status = 404 /\ q.text = "own") \/ q.broken

Joined(q) ==
  q.step = "answered" /\ ~q.broken =>
    /\ q.op = "getUser" /\ q.user \in q.kept => q.status = 200
    /\ q.op = "listUsers" => q.kept \subseteq DOMAIN q.rows
    /\ \A id \in DOMAIN q.rows :
         q.rows[id] \in IF id \in q.kept THEN {id} ELSE {id, Nobody}

Sound(q, mem, prof) ==
  /\ OnItsWay(q, mem, prof)
  /\ q.step = "idle" => q.status = 0
  /\ q.step = "answered" => q.status # 0
  /\ Scoped(q)
  /\ Told(q)
  /\ Joined(q)

\* TenantScoped, NothingTold and DirectoryJoined speak of answered requests;
\* inductive is that a request on its way has seen what it has been told.
IInv == Typed /\ \A r \in Reqs : Sound(request[r], members, profile)

--------------------------------------------------------------------------------
(* One request *)

\* The rows of an answer without users, with the caller, and with the members.
LEMMA NoRowsTyped == NoRows \in Rows /\ DOMAIN NoRows = {}
<1>1. NoRows \in [{} -> Users \cup {Nobody}]  BY DEF NoRows
<1>2. {} \in SUBSET Users  OBVIOUS
<1> QED  BY <1>1, <1>2 DEF Rows, NoRows

LEMMA OnlyTyped ==
  ASSUME NEW u \in Users
  PROVE  Only(u) \in Rows /\ DOMAIN Only(u) = {u} /\ Only(u)[u] = u
<1>1. Only(u) \in [{u} -> Users \cup {Nobody}]  BY DEF Only
<1>2. {u} \in SUBSET Users  OBVIOUS
<1> QED  BY <1>1, <1>2 DEF Rows, Only

LEMMA JoinTyped ==
  ASSUME NEW ids \in SUBSET Users, NEW found
  PROVE  /\ Join(ids, found) \in Rows /\ DOMAIN Join(ids, found) = ids
         /\ \A id \in ids : Join(ids, found)[id] = IF id \in found THEN id ELSE Nobody
<1>1. Join(ids, found) \in [ids -> Users \cup {Nobody}]  BY DEF Join
<1> QED  BY <1>1 DEF Rows, Join

\* Histories hold users, whatever they are extended or cut down by.
LEMMA HistoriesTyped ==
  ASSUME NEW q \in Requests,
         NEW mem \in SUBSET Users, NEW live \in SUBSET Users, NEW soft \in SUBSET Users
  PROVE  [q EXCEPT !.ever = @ \cup mem, !.kept = @ \cap mem \cap live,
                   !.softly = @ \cup soft] \in Requests
<1>1. q.ever \cup mem \in SUBSET Users /\ q.kept \cap mem \cap live \in SUBSET Users
      /\ q.softly \cup soft \in SUBSET Users
  BY DEF Requests
<1> QED  BY <1>1 DEF Requests

\* The services have moved on, and the histories with them.
LEMMA Observing ==
  ASSUME NEW q \in Requests, NEW mem \in Memberships, NEW prof, Sound(q, mem, prof),
         NEW acc2, NEW mem2 \in Memberships, NEW prof2 \in Profiles
  PROVE  LET q2 == Observe(q, acc2, mem2, prof2)
         IN  q2 \in Requests /\ Sound(q2, mem2, prof2)
<1> DEFINE q2 == Observe(q, acc2, mem2, prof2)
<1>1. CASE ~UnderWay(q) \/ q.op = "getMe"
  <2>1. q2 = q  BY <1>1 DEF Observe
  <2>2. OnItsWay(q, mem2, prof2)  BY <1>1 DEF Sound, OnItsWay, Directories
  <2> QED  BY <2>1, <2>2 DEF Sound
<1>2. CASE UnderWay(q) /\ q.op # "getMe"
  <2>1. q.tenant \in Tenants /\ q.op \in Directories
    BY <1>2 DEF Sound, OnItsWay, Directories
  <2>2. q2 = [q EXCEPT !.ever = @ \cup mem2[q.tenant],
                       !.kept = @ \cap mem2[q.tenant] \cap Live(prof2),
                       !.softly = @ \cup Soft(acc2)]
    BY <1>2 DEF Observe
  <2>3. mem2[q.tenant] \in SUBSET Users /\ Live(prof2) \in SUBSET Users /\ Soft(acc2) \in SUBSET Users
    BY <2>1 DEF Memberships, Live, Soft
  <2>4. q2 \in Requests
    <3>1. [q EXCEPT !.ever = @ \cup mem2[q.tenant],
                    !.kept = @ \cap mem2[q.tenant] \cap Live(prof2),
                    !.softly = @ \cup Soft(acc2)] \in Requests
      BY <2>3, HistoriesTyped
    <3> QED  BY <2>2, <3>1
  <2>5. /\ q2.step = q.step /\ q2.op = q.op /\ q2.user = q.user /\ q2.tenant = q.tenant
        /\ q2.ids = q.ids /\ q2.status = q.status /\ q2.rows = q.rows
        /\ q2.ever = q.ever \cup mem2[q.tenant]
        /\ q2.kept = q.kept \cap mem2[q.tenant] \cap Live(prof2)
    BY <2>2 DEF Requests
  <2>6. OnItsWay(q2, mem2, prof2)
    BY <1>2, <2>1, <2>5 DEF Sound, OnItsWay, UnderWay, Directories, Live
  <2>7. q2.step \notin {"idle", "answered"}  BY <1>2, <2>5 DEF UnderWay
  <2> QED  BY <2>4, <2>6, <2>7 DEF Sound, Scoped, Told, Joined
<1> QED  BY <1>1, <1>2 DEF q2

\* An answer that takes over only what the histories have seen.
Fits(q, status, text, rows) ==
  /\ q.op \in Directories =>
       \A id \in DOMAIN rows : {id, rows[id]} \subseteq q.ever \cup {Nobody}
  /\ q.op = "getUser" => q.user \in q.ever \/ (status = 404 /\ text = "own")
  /\ q.op = "getUser" /\ q.user \in q.kept => status = 200
  /\ q.op = "listUsers" => q.kept \subseteq DOMAIN rows
  /\ \A id \in DOMAIN rows : rows[id] \in IF id \in q.kept THEN {id} ELSE {id, Nobody}

\* A request that gets such an answer is no longer on its way.
LEMMA Answering ==
  ASSUME NEW q \in Requests, NEW mem, NEW prof, UnderWay(q), Sound(q, mem, prof),
         NEW status \in {200, 404}, NEW text \in {"own", "service"}, NEW rows \in Rows,
         Fits(q, status, text, rows)
  PROVE  /\ Answered(q, status, text, rows) \in Requests
         /\ Sound(Answered(q, status, text, rows), mem, prof)
<1> DEFINE q2 == Answered(q, status, text, rows)
<1>0. "answered" \in Steps /\ status \in Statuses /\ text \in Texts
  BY DEF Steps, Statuses, Texts
<1>1. q2 \in Requests  BY <1>0 DEF Requests, Answered
<1>2. /\ q2.step = "answered" /\ q2.op = q.op /\ q2.user = q.user /\ q2.status = status
      /\ q2.text = text /\ q2.rows = rows /\ q2.ever = q.ever /\ q2.kept = q.kept
  BY DEF Requests, Answered
<1> HIDE DEF q2
<1>3. ~UnderWay(q2)  BY <1>2 DEF UnderWay
<1>4. Scoped(q2)  BY <1>2 DEF Scoped, Fits
<1>5. Told(q2)  BY <1>2 DEF Told, Fits
<1>6. Joined(q2)  BY <1>2 DEF Joined, Fits
<1>7. Sound(q2, mem, prof)  BY <1>2, <1>3, <1>4, <1>5, <1>6 DEF Sound, OnItsWay
<1> QED  BY <1>1, <1>7 DEF q2

\* One of the calls has failed: there are no rows, and the rest is excused.
LEMMA Breaking ==
  ASSUME NEW q \in Requests, NEW mem, NEW prof,
         NEW status \in {404, 500}, NEW text \in {"own", "service"}
  PROVE  Broken(q, status, text) \in Requests /\ Sound(Broken(q, status, text), mem, prof)
<1> DEFINE a == Answered(q, status, text, NoRows)
           yes == TRUE
           q2 == [a EXCEPT !.broken = yes]
<1>1. yes \in Flags /\ "answered" \in Steps /\ status \in Statuses /\ text \in Texts
  BY DEF Flags, Steps, Statuses, Texts
<1>2. a \in Requests  BY <1>1, NoRowsTyped DEF Requests, Answered
<1>3. a.step = "answered" /\ a.status = status /\ a.rows = NoRows  BY DEF Requests, Answered
<1> HIDE DEF a, yes
<1>4. q2 \in Requests  BY <1>1, <1>2 DEF Requests
<1>5. q2.step = "answered" /\ q2.status = status /\ q2.rows = NoRows /\ q2.broken = TRUE
  BY <1>2, <1>3 DEF yes, Requests
<1> HIDE DEF q2
<1>6. ~UnderWay(q2)  BY <1>5 DEF UnderWay
<1>7. Scoped(q2)  BY <1>5, NoRowsTyped DEF Scoped
<1>8. Told(q2) /\ Joined(q2)  BY <1>5 DEF Told, Joined
<1>9. Sound(q2, mem, prof)  BY <1>5, <1>6, <1>7, <1>8 DEF Sound, OnItsWay
<1> QED  BY <1>4, <1>9 DEF q2, a, yes, Broken

\* What each handler goes on to, and with what.
GoesOn(q, step, ids) ==
  \/ q.op = "getMe" /\ step = "create"
  \/ q.op = "getUser" /\ step = "profile" /\ q.user \in q.ever
  \/ q.op = "listUsers" /\ step = "profiles" /\ ids \subseteq q.ever /\ q.kept \subseteq ids

\* A request that goes on to its next call.
LEMMA Continuing ==
  ASSUME NEW q \in Requests, NEW mem, NEW prof, UnderWay(q), Sound(q, mem, prof),
         NEW step \in {"profile", "profiles", "create"}, NEW ids \in SUBSET Users,
         GoesOn(q, step, ids)
  PROVE  Going(q, step, ids) \in Requests /\ Sound(Going(q, step, ids), mem, prof)
<1> DEFINE q2 == Going(q, step, ids)
<1>0. step \in Steps  BY DEF Steps
<1>1. q2 \in Requests  BY <1>0 DEF Requests, Going
<1>2. /\ q2.step = step /\ q2.op = q.op /\ q2.user = q.user /\ q2.tenant = q.tenant
      /\ q2.ids = ids /\ q2.status = q.status /\ q2.rows = q.rows
      /\ q2.ever = q.ever /\ q2.kept = q.kept
  BY DEF Requests, Going
<1> HIDE DEF q2
<1>3. OnItsWay(q2, mem, prof)  BY <1>2 DEF Sound, OnItsWay, Directories, GoesOn
<1>4. q2.step \notin {"idle", "answered"}  BY <1>2
<1>5. Sound(q2, mem, prof)  BY <1>3, <1>4 DEF Sound, Scoped, Told, Joined
<1> QED  BY <1>1, <1>5 DEF q2

--------------------------------------------------------------------------------
(* All requests *)

\* What the services keep, and the bounds.
Kept ==
  /\ account \in Accounts
  /\ members \in Memberships
  /\ events \in [Users -> Seq({"registered", "deleted", "restored", "purged"})]
  /\ profile \in Profiles
  /\ changes \in 0..MaxChanges /\ fails \in 0..MaxFails

\* Nothing is asked of a request that has not come yet.
LEMMA IdleSound ==
  ASSUME NEW mem, NEW prof
  PROVE  Idle \in Requests /\ Sound(Idle, mem, prof)
<1>1. "idle" \in Steps /\ "none" \in Ops /\ FALSE \in Flags /\ 0 \in Statuses /\ "own" \in Texts
  BY DEF Steps, Ops, Flags, Statuses, Texts
<1>2. {} \in SUBSET Users  OBVIOUS
<1>3. Idle \in Requests  BY <1>1, <1>2, NoRowsTyped DEF Idle, Requests
<1>4. Idle.step = "idle" /\ Idle.status = 0  BY DEF Idle
<1>5. Sound(Idle, mem, prof)  BY <1>4 DEF Sound, OnItsWay, UnderWay, Scoped, Told, Joined
<1> QED  BY <1>3, <1>5

LEMMA Initially == Init => IInv
<1> SUFFICES ASSUME Init PROVE IInv  OBVIOUS
<1>1. account \in Accounts /\ members \in Memberships /\ profile \in Profiles
  BY DEF Init, Accounts, Memberships, Profiles
<1>2. <<>> \in Seq({"registered", "deleted", "restored", "purged"})  OBVIOUS
<1>3. events \in [Users -> Seq({"registered", "deleted", "restored", "purged"})]
  BY <1>2 DEF Init
<1>4. changes \in 0..MaxChanges /\ fails \in 0..MaxFails  BY BoundAssumption DEF Init
<1>5. request \in [Reqs -> Requests] /\ \A r \in Reqs : Sound(request[r], members, profile)
  BY IdleSound DEF Init
<1> QED  BY <1>1, <1>3, <1>4, <1>5 DEF IInv, Typed

\* The services make a step, and the histories of all requests follow.
LEMMA Observed ==
  ASSUME IInv, members' \in Memberships, profile' \in Profiles, NEW acc
  PROVE  LET f == [r \in Reqs |-> Observe(request[r], acc, members', profile')]
         IN  \A r \in Reqs : f[r] \in Requests /\ Sound(f[r], members', profile')
<1> SUFFICES ASSUME NEW r \in Reqs
             PROVE  LET q == Observe(request[r], acc, members', profile')
                    IN  q \in Requests /\ Sound(q, members', profile')
  OBVIOUS
<1>1. request[r] \in Requests /\ Sound(request[r], members, profile) /\ members \in Memberships
  BY DEF IInv, Typed
<1> QED  BY <1>1, Observing

LEMMA ServicesMove == IInv /\ Kept' /\ Witnessed => IInv'
<1> SUFFICES ASSUME IInv, Kept', Witnessed PROVE IInv'  OBVIOUS
<1>1. \A r \in Reqs : request'[r] \in Requests /\ Sound(request'[r], members', profile')
  BY Observed DEF Witnessed, Kept
<1>2. request' \in [Reqs -> Requests]  BY <1>1 DEF Witnessed
<1> QED  BY <1>1, <1>2 DEF IInv, Typed, Kept

\* One request makes a step, and the services do not.
LEMMA RequestMoves ==
  ASSUME IInv, NEW r \in Reqs, NEW q \in Requests, Sound(q, members, profile),
         request' = [request EXCEPT ![r] = q], UNCHANGED <<auth, profile, bounds>>
  PROVE  IInv'
<1>1. request' \in [Reqs -> Requests]  BY DEF IInv, Typed
<1>2. \A s \in Reqs : Sound(request'[s], members', profile')
  BY DEF IInv, Typed, auth
<1> QED  BY <1>1, <1>2 DEF IInv, Typed, auth, bounds

\* A request whose call has changed, or may have changed, a profile makes a step.
LEMMA RequestWrites ==
  ASSUME IInv, Kept', UNCHANGED members, NEW r \in Reqs, NEW q \in Requests,
         Sound(q, members, profile'),
         request' = [[s \in Reqs |-> Observe(request[s], account, members, profile')] EXCEPT ![r] = q]
  PROVE  IInv'
<1> DEFINE f == [s \in Reqs |-> Observe(request[s], account, members, profile')]
<1>1. \A s \in Reqs : f[s] \in Requests /\ Sound(f[s], members', profile')
  BY Observed DEF Kept
<1>2. \A s \in Reqs : request'[s] = IF s = r THEN q ELSE f[s]  OBVIOUS
<1>3. \A s \in Reqs : request'[s] \in Requests /\ Sound(request'[s], members', profile')
  BY <1>1, <1>2
<1>4. request' \in [Reqs -> Requests]  BY <1>3
<1> QED  BY <1>3, <1>4 DEF IInv, Typed, Kept

--------------------------------------------------------------------------------
(* The steps of the services *)

\* An event joins those the user service has still to take.
LEMMA Telling ==
  ASSUME IInv, NEW u \in Users, NEW event \in {"registered", "deleted", "restored", "purged"},
         Tell(u, event)
  PROVE  events' \in [Users -> Seq({"registered", "deleted", "restored", "purged"})]
<1>1. events[u] \in Seq({"registered", "deleted", "restored", "purged"})  BY DEF IInv, Typed
<1>2. Append(events[u], event) \in Seq({"registered", "deleted", "restored", "purged"})  BY <1>1
<1> QED  BY <1>2 DEF IInv, Typed, Tell

LEMMA Changing == IInv /\ Change => changes' \in 0..MaxChanges /\ fails' \in 0..MaxFails
  BY BoundAssumption DEF IInv, Typed, Change

LEMMA AccountsKeep ==
  ASSUME IInv, NEW u \in Users, NEW hard \in BOOLEAN,
         Register(u) \/ RestoreUser(u) \/ DeleteUser(u, hard)
  PROVE  IInv'
<1>1. account \in Accounts /\ members \in Memberships /\ profile \in Profiles
      /\ events \in [Users -> Seq({"registered", "deleted", "restored", "purged"})]
  BY DEF IInv, Typed
<1>2. CASE Register(u)
  <2>1. account' \in Accounts  BY <1>1, <1>2 DEF Register, Accounts
  <2>2. UNCHANGED <<members, profile>> /\ Tell(u, "registered") /\ Change /\ Witnessed
    BY <1>2 DEF Register
  <2> QED  BY <1>1, <2>1, <2>2, Telling, Changing, ServicesMove DEF Kept
<1>3. CASE RestoreUser(u)
  <2>1. account' \in Accounts  BY <1>1, <1>3 DEF RestoreUser, Accounts
  <2>2. UNCHANGED <<members, profile>> /\ Tell(u, "restored") /\ Change /\ Witnessed
    BY <1>3 DEF RestoreUser
  <2> QED  BY <1>1, <2>1, <2>2, Telling, Changing, ServicesMove DEF Kept
<1>4. CASE DeleteUser(u, hard)
  <2>1. account' \in Accounts  BY <1>1, <1>4 DEF DeleteUser, Accounts
  <2>2. members' \in Memberships  BY <1>1, <1>4 DEF DeleteUser, Memberships
  <2>3. UNCHANGED profile /\ Tell(u, IF hard THEN "purged" ELSE "deleted") /\ Change /\ Witnessed
    BY <1>4 DEF DeleteUser
  <2>4. events' \in [Users -> Seq({"registered", "deleted", "restored", "purged"})]
    BY <2>3, Telling
  <2> QED  BY <1>1, <2>1, <2>2, <2>3, <2>4, Changing, ServicesMove DEF Kept
<1> QED  BY <1>2, <1>3, <1>4

LEMMA MembershipsKeep ==
  ASSUME IInv, NEW u \in Users, NEW t \in Tenants, AddMember(t, u) \/ RemoveMember(t, u)
  PROVE  IInv'
<1>1. account \in Accounts /\ members \in Memberships /\ profile \in Profiles
      /\ events \in [Users -> Seq({"registered", "deleted", "restored", "purged"})]
  BY DEF IInv, Typed
<1>2. members' \in Memberships  BY <1>1 DEF AddMember, RemoveMember, Memberships
<1>3. UNCHANGED <<account, events, profile>> /\ Change /\ Witnessed
  BY DEF AddMember, RemoveMember
<1> QED  BY <1>1, <1>2, <1>3, Changing, ServicesMove DEF Kept

LEMMA DeliverKeeps ==
  ASSUME IInv, NEW u \in Users, Deliver(u)
  PROVE  IInv'
<1>1. account \in Accounts /\ members \in Memberships /\ profile \in Profiles
      /\ events \in [Users -> Seq({"registered", "deleted", "restored", "purged"})]
      /\ changes \in 0..MaxChanges /\ fails \in 0..MaxFails
  BY DEF IInv, Typed
<1>2. profile' \in Profiles
  <2> DEFINE was == profile[u]
             now == CASE Head(events[u]) = "registered" /\ was = "none" -> "live"
                      [] Head(events[u]) = "deleted" /\ was = "live" -> "hidden"
                      [] Head(events[u]) = "restored" /\ was = "hidden" -> "live"
                      [] Head(events[u]) = "purged" -> "none"
                      [] OTHER -> was
  <2>1. was \in {"none", "live", "hidden"}  BY <1>1 DEF Profiles
  <2>2. now \in {"none", "live", "hidden"}  BY <2>1
  <2>3. profile' = [profile EXCEPT ![u] = now]  BY DEF Deliver
  <2> HIDE DEF now
  <2> QED  BY <1>1, <2>2, <2>3 DEF Profiles
<1>3. events' \in [Users -> Seq({"registered", "deleted", "restored", "purged"})]
  <2>1. events[u] \in Seq({"registered", "deleted", "restored", "purged"}) /\ events[u] # <<>>
    BY <1>1 DEF Deliver
  <2>2. Tail(events[u]) \in Seq({"registered", "deleted", "restored", "purged"})  BY <2>1
  <2>3. events' = [events EXCEPT ![u] = Tail(events[u])] \/ events' = events  BY DEF Deliver
  <2> QED  BY <1>1, <2>2, <2>3
<1>4. UNCHANGED <<account, members, changes, fails>> /\ Witnessed  BY DEF Deliver
<1> QED  BY <1>1, <1>2, <1>3, <1>4, ServicesMove DEF Kept

--------------------------------------------------------------------------------
(* Requests that arrive *)

\* Of a request on its way only OnItsWay says anything.
LEMMA OnTheirWaySound ==
  ASSUME NEW q \in Requests, NEW mem, NEW prof, UnderWay(q), OnItsWay(q, mem, prof)
  PROVE  Sound(q, mem, prof)
BY DEF Sound, UnderWay, Scoped, Told, Joined

LEMMA ArriveMeKeeps ==
  ASSUME IInv, NEW r \in Reqs, NEW u \in Users, ArriveMe(r, u)
  PROVE  IInv'
<1> DEFINE q == [Idle EXCEPT !.step = "profile", !.op = "getMe", !.user = u]
<1>1. "profile" \in Steps /\ "getMe" \in Ops /\ Idle \in Requests
  BY IdleSound DEF Steps, Ops
<1>2. q \in Requests  BY <1>1 DEF Requests
<1>3. /\ q.step = "profile" /\ q.op = "getMe" /\ q.user = u /\ q.status = 0
      /\ q.rows = NoRows
  BY DEF Idle
<1> HIDE DEF q
<1>4. UnderWay(q) /\ OnItsWay(q, members, profile)
  BY <1>3, NoRowsTyped DEF UnderWay, OnItsWay, Directories
<1>5. request' = [request EXCEPT ![r] = q] /\ UNCHANGED <<auth, profile, bounds>>
  BY DEF ArriveMe, Begin, q
<1> QED  BY <1>2, <1>4, <1>5, OnTheirWaySound, RequestMoves

\* What the histories of a request begin with is what the services know then.
LEMMA AskedTyped ==
  ASSUME IInv, NEW op \in Directories, NEW t \in Tenants
  PROVE  LET q == Asked(op, t)
         IN  /\ q \in Requests
             /\ q.step = "members" /\ q.op = op /\ q.tenant = t /\ q.status = 0
             /\ q.rows = NoRows /\ q.user = Nobody
             /\ q.ever = members[t] /\ q.kept = members[t] \cap Live(profile)
<1> DEFINE live == members[t] \cap Live(profile)
           soft == Soft(account)
<1>1. "members" \in Steps /\ op \in Ops /\ Idle \in Requests
  BY IdleSound DEF Steps, Ops, Directories
<1>2. members[t] \in SUBSET Users /\ live \in SUBSET Users /\ soft \in SUBSET Users
  BY DEF IInv, Typed, Memberships, Live, Soft
<1>3. Asked(op, t) = [Idle EXCEPT !.step = "members", !.op = op, !.tenant = t,
                                  !.ever = members[t], !.kept = live, !.softly = soft]
  BY DEF Asked
<1> HIDE DEF live, soft
<1>4. Asked(op, t) \in Requests  BY <1>1, <1>2, <1>3 DEF Requests
<1> QED  BY <1>3, <1>4 DEF Idle, live

LEMMA AskedSound ==
  ASSUME NEW q \in Requests, NEW t \in Tenants, q.step = "members", q.tenant = t,
         (q.op = "getUser" /\ q.user \in Users) \/ q.op = "listUsers",
         q.status = 0, q.rows = NoRows, q.ever = members[t],
         q.kept = members[t] \cap Live(profile)
  PROVE  Sound(q, members, profile)
<1>1. UnderWay(q)  BY DEF UnderWay
<1>2. OnItsWay(q, members, profile)  BY NoRowsTyped DEF OnItsWay, Directories, Live
<1> QED  BY <1>1, <1>2, OnTheirWaySound

LEMMA ArriveUserKeeps ==
  ASSUME IInv, NEW r \in Reqs, NEW t \in Tenants, NEW u \in Users, ArriveUser(r, t, u)
  PROVE  IInv'
<1> DEFINE a == Asked("getUser", t)
           q == [a EXCEPT !.user = u]
<1>1. /\ a \in Requests
      /\ a.step = "members" /\ a.op = "getUser" /\ a.tenant = t /\ a.status = 0
      /\ a.rows = NoRows /\ a.ever = members[t] /\ a.kept = members[t] \cap Live(profile)
  BY AskedTyped DEF Directories
<1>2. request' = [request EXCEPT ![r] = q] /\ UNCHANGED <<auth, profile, bounds>>
  BY DEF ArriveUser, Begin
<1> HIDE DEF a
<1>3. /\ q \in Requests
      /\ q.step = a.step /\ q.op = a.op /\ q.user = u /\ q.tenant = a.tenant
      /\ q.status = a.status /\ q.rows = a.rows /\ q.ever = a.ever /\ q.kept = a.kept
  BY <1>1 DEF Requests
<1> HIDE DEF q
<1>4. Sound(q, members, profile)  BY <1>1, <1>3, AskedSound
<1> QED  BY <1>2, <1>3, <1>4, RequestMoves

LEMMA ArriveListKeeps ==
  ASSUME IInv, NEW r \in Reqs, NEW t \in Tenants, NEW gone \in BOOLEAN, ArriveList(r, t, gone)
  PROVE  IInv'
<1> DEFINE a == Asked("listUsers", t)
           q == [a EXCEPT !.gone = gone]
<1>1. /\ a \in Requests
      /\ a.step = "members" /\ a.op = "listUsers" /\ a.tenant = t /\ a.status = 0
      /\ a.rows = NoRows /\ a.ever = members[t] /\ a.kept = members[t] \cap Live(profile)
  BY AskedTyped DEF Directories
<1>2. request' = [request EXCEPT ![r] = q] /\ UNCHANGED <<auth, profile, bounds>>
  BY DEF ArriveList, Begin
<1> HIDE DEF a
<1>3. gone \in Flags  BY DEF Flags
<1>4. /\ q \in Requests
      /\ q.step = a.step /\ q.op = a.op /\ q.tenant = a.tenant
      /\ q.status = a.status /\ q.rows = a.rows /\ q.ever = a.ever /\ q.kept = a.kept
  BY <1>1, <1>3 DEF Requests
<1> HIDE DEF q
<1>5. Sound(q, members, profile)  BY <1>1, <1>4, AskedSound
<1> QED  BY <1>2, <1>4, <1>5, RequestMoves

--------------------------------------------------------------------------------
(* Answers of the services *)

\* What the invariant gives a handler that waits for an answer.
LEMMA AtStep ==
  ASSUME IInv, NEW r \in Reqs, NEW step \in Steps \ {"idle", "answered"}, At(r, step)
  PROVE  /\ request[r] \in Requests /\ request[r].step = step /\ UnderWay(request[r])
         /\ Sound(request[r], members, profile)
BY DEF IInv, Typed, At, UnderWay

\* Handlers answer with what fits, or go on as they should.
LEMMA AnswerKeeps ==
  ASSUME IInv, NEW r \in Reqs, UnderWay(request[r]), UNCHANGED <<auth, profile, bounds>>,
         NEW status \in {200, 404}, NEW text \in {"own", "service"}, NEW rows \in Rows,
         Answer(r, status, text, rows), Fits(request[r], status, text, rows)
  PROVE  IInv'
<1> DEFINE q == Answered(request[r], status, text, rows)
<1>1. request[r] \in Requests /\ Sound(request[r], members, profile)  BY DEF IInv, Typed
<1>2. q \in Requests /\ Sound(q, members, profile)  BY <1>1, Answering
<1>3. request' = [request EXCEPT ![r] = q]  BY DEF Answer
<1> QED  BY <1>2, <1>3, RequestMoves

LEMMA ContinueKeeps ==
  ASSUME IInv, NEW r \in Reqs, UnderWay(request[r]), UNCHANGED <<auth, profile, bounds>>,
         NEW step \in {"profile", "profiles", "create"}, NEW ids \in SUBSET Users,
         Continue(r, step, ids), GoesOn(request[r], step, ids)
  PROVE  IInv'
<1> DEFINE q == Going(request[r], step, ids)
<1>1. request[r] \in Requests /\ Sound(request[r], members, profile)  BY DEF IInv, Typed
<1>2. q \in Requests /\ Sound(q, members, profile)  BY <1>1, Continuing
<1>3. request' = [request EXCEPT ![r] = q]  BY DEF Continue
<1> QED  BY <1>2, <1>3, RequestMoves

\* getUser goes on with a member only, and listUsers with the members.
LEMMA ListMembersKeeps ==
  ASSUME IInv, NEW r \in Reqs, ListMembers(r)
  PROVE  IInv'
<1> DEFINE q == request[r]
           ids == members[q.tenant]
<1>1. /\ q \in Requests /\ q.step = "members" /\ UnderWay(q)
      /\ Sound(q, members, profile)
  BY AtStep DEF ListMembers, Steps
<1>2. /\ q.op \in Directories /\ q.tenant \in Tenants
      /\ q.op = "getUser" => q.user \in Users
      /\ ids \subseteq q.ever /\ q.kept \subseteq ids
  BY <1>1 DEF Sound, OnItsWay, Directories
<1>3. ids \in SUBSET Users  BY <1>2 DEF IInv, Typed, Memberships
<1>4. AfterMembers(r, ids) /\ UNCHANGED <<auth, profile, bounds>>  BY DEF ListMembers
<1>5. NoRows \in Rows /\ DOMAIN NoRows = {}  BY NoRowsTyped
<1> HIDE DEF ids
<1>6. CASE q.op = "getUser" /\ q.user \notin ids
  <2>1. Answer(r, 404, "own", NoRows)  BY <1>4, <1>6 DEF AfterMembers
  <2> QED  BY <1>1, <1>2, <1>4, <1>5, <1>6, <2>1, AnswerKeeps DEF Fits
<1>7. CASE q.op = "getUser" /\ q.user \in ids
  <2>1. Continue(r, "profile", ids)  BY <1>4, <1>7 DEF AfterMembers
  <2> QED  BY <1>1, <1>2, <1>3, <1>4, <1>7, <2>1, ContinueKeeps DEF GoesOn
<1>8. CASE q.op = "listUsers" /\ ids = {}
  <2>1. Answer(r, 200, "own", NoRows)  BY <1>4, <1>8 DEF AfterMembers
  <2>2. q.kept = {}  BY <1>2, <1>8
  <2> QED  BY <1>1, <1>2, <1>4, <1>5, <1>8, <2>1, <2>2, AnswerKeeps DEF Fits
<1>9. CASE q.op = "listUsers" /\ ids # {}
  <2>1. Continue(r, "profiles", ids)  BY <1>4, <1>9 DEF AfterMembers
  <2> QED  BY <1>1, <1>2, <1>3, <1>4, <1>9, <2>1, ContinueKeeps DEF GoesOn
<1> QED  BY <1>2, <1>6, <1>7, <1>8, <1>9 DEF Directories

\* Whoever is shown or refused a profile here has passed the members' list.
LEMMA GetProfileKeeps ==
  ASSUME IInv, NEW r \in Reqs, GetProfile(r)
  PROVE  IInv'
<1> DEFINE q == request[r]
           u == q.user
<1>1. /\ q \in Requests /\ q.step = "profile" /\ UnderWay(q)
      /\ Sound(q, members, profile)
  BY AtStep DEF GetProfile, Steps
<1>2. /\ q.op \in {"getMe", "getUser"} /\ u \in Users
      /\ q.op = "getUser" => u \in q.ever
      /\ q.op = "getUser" => \A v \in q.kept : profile[v] = "live"
  BY <1>1 DEF Sound, OnItsWay, Directories
<1>3. UNCHANGED <<auth, profile, bounds>>  BY DEF GetProfile
<1>4. CASE profile[u] = "live"
  <2>1. Answer(r, 200, "own", Only(u))  BY <1>4 DEF GetProfile
  <2>2. Only(u) \in Rows /\ DOMAIN Only(u) = {u} /\ Only(u)[u] = u  BY <1>2, OnlyTyped
  <2>3. Fits(q, 200, "own", Only(u))  BY <1>2, <2>2 DEF Fits, Directories
  <2> QED  BY <1>1, <1>3, <2>1, <2>2, <2>3, AnswerKeeps
<1>5. CASE profile[u] # "live" /\ q.op = "getMe"
  <2>1. Continue(r, "create", {})  BY <1>5 DEF GetProfile, WithoutProfile
  <2>2. GoesOn(q, "create", {})  BY <1>5 DEF GoesOn
  <2> QED  BY <1>1, <1>3, <2>1, <2>2, ContinueKeeps
<1>6. CASE profile[u] # "live" /\ q.op = "getUser"
  <2>1. Answer(r, 404, "service", NoRows)  BY <1>6 DEF GetProfile, WithoutProfile
  <2>2. Fits(q, 404, "service", NoRows)  BY <1>2, <1>6, NoRowsTyped DEF Fits, Directories
  <2> QED  BY <1>1, <1>3, <2>1, <2>2, NoRowsTyped, AnswerKeeps
<1> QED  BY <1>2, <1>4, <1>5, <1>6

\* Only getMe gets here, and its answer names the caller alone.
LEMMA CreateProfileKeeps ==
  ASSUME IInv, NEW r \in Reqs, CreateProfile(r)
  PROVE  IInv'
<1> DEFINE f == [s \in Reqs |-> Observe(request[s], account, members, profile')]
           q == f[r]
           u == request[r].user
<1>1. /\ request[r].step = "create" /\ UnderWay(request[r])
      /\ Sound(request[r], members, profile)
  BY AtStep DEF CreateProfile, Steps
<1>2. request[r].op = "getMe" /\ u \in Users  BY <1>1 DEF Sound, OnItsWay
<1>3. q = request[r]  BY <1>2 DEF Observe
<1>4. Kept' /\ UNCHANGED members
  BY DEF CreateProfile, IInv, Typed, Kept, Profiles, auth, bounds
<1>5. q \in Requests /\ Sound(q, members, profile')
  BY <1>4, Observed DEF Kept
<1>6. Only(u) \in Rows /\ DOMAIN Only(u) = {u} /\ Only(u)[u] = u  BY <1>2, OnlyTyped
<1>7. \/ request' = [f EXCEPT ![r] = Answered(q, 200, "own", Only(u))]
      \/ request' = [f EXCEPT ![r] = Answered(q, 404, "service", NoRows)]
  BY DEF CreateProfile
<1>8. Fits(q, 200, "own", Only(u)) /\ Fits(q, 404, "service", NoRows)
  BY <1>2, <1>3, <1>6, NoRowsTyped DEF Fits, Directories
<1>9. UnderWay(q)  BY <1>1, <1>3
<1> HIDE DEF q
<1>10. /\ Answered(q, 200, "own", Only(u)) \in Requests
       /\ Sound(Answered(q, 200, "own", Only(u)), members, profile')
  BY <1>5, <1>6, <1>8, <1>9, Answering
<1>11. /\ Answered(q, 404, "service", NoRows) \in Requests
       /\ Sound(Answered(q, 404, "service", NoRows), members, profile')
  BY <1>5, <1>8, <1>9, NoRowsTyped, Answering
<1> QED  BY <1>4, <1>7, <1>10, <1>11, RequestWrites

\* The profiles are joined to the members that were listed, id by id.
LEMMA GetProfilesKeeps ==
  ASSUME IInv, NEW r \in Reqs, GetProfiles(r)
  PROVE  IInv'
<1> DEFINE q == request[r]
           found == q.ids \cap Live(profile)
           rows == Join(q.ids, found)
<1>1. /\ q \in Requests /\ q.step = "profiles" /\ UnderWay(q)
      /\ Sound(q, members, profile)
  BY AtStep DEF GetProfiles, Steps
<1>2. /\ q.op = "listUsers" /\ q.ids \subseteq q.ever /\ q.kept \subseteq q.ids
      /\ \A u \in q.kept : profile[u] = "live"
  BY <1>1 DEF Sound, OnItsWay, Directories
<1>3. q.ids \in SUBSET Users /\ q.kept \subseteq found  BY <1>1, <1>2 DEF Requests, Live
<1>4. /\ rows \in Rows /\ DOMAIN rows = q.ids
      /\ \A id \in q.ids : rows[id] = IF id \in found THEN id ELSE Nobody
  BY <1>3, JoinTyped
<1>5. Answer(r, 200, "own", rows) /\ UNCHANGED <<auth, profile, bounds>>  BY DEF GetProfiles
<1> HIDE DEF rows, found
<1>6. Fits(q, 200, "own", rows)  BY <1>2, <1>3, <1>4 DEF Fits, Directories
<1> QED  BY <1>1, <1>4, <1>5, <1>6, AnswerKeeps

\* A failed call: the handler answers an error, and CreateProfile may have written.
LEMMA BreakKeeps ==
  ASSUME IInv, NEW r \in Reqs, Break(r)
  PROVE  IInv'
<1> DEFINE f == [s \in Reqs |-> Observe(request[s], account, members, profile')]
           q == f[r]
           q2 == IF At(r, "create") THEN Broken(q, 404, "service") ELSE Broken(q, 500, "own")
<1>1. profile' \in Profiles  BY DEF Break, IInv, Typed, Profiles
<1>2. fails' \in 0..MaxFails  BY BoundAssumption DEF Break, IInv, Typed
<1>3. Kept' /\ UNCHANGED members  BY <1>1, <1>2 DEF Break, IInv, Typed, Kept, auth
<1>4. q \in Requests  BY <1>3, Observed DEF Kept
<1>5. request' = [f EXCEPT ![r] = q2]  BY DEF Break
<1> HIDE DEF q
<1>6. q2 \in Requests /\ Sound(q2, members, profile')  BY <1>4, Breaking
<1> QED  BY <1>3, <1>5, <1>6, RequestWrites

--------------------------------------------------------------------------------
(* The specification *)

\* Every step of the services and of the handlers.
LEMMA Stepping == IInv /\ [Next]_vars => IInv'
<1> SUFFICES ASSUME IInv, [Next]_vars PROVE IInv'  OBVIOUS
<1>1. CASE \E u \in Users, hard \in BOOLEAN : Register(u) \/ RestoreUser(u) \/ DeleteUser(u, hard)
  BY <1>1, AccountsKeep
<1>2. CASE \E t \in Tenants, u \in Users : AddMember(t, u) \/ RemoveMember(t, u)
  BY <1>2, MembershipsKeep
<1>3. CASE \E u \in Users : Deliver(u)
  BY <1>3, DeliverKeeps
<1>4. CASE \E r \in Reqs, u \in Users : ArriveMe(r, u)
  BY <1>4, ArriveMeKeeps
<1>5. CASE \E r \in Reqs, t \in Tenants, u \in Users : ArriveUser(r, t, u)
  BY <1>5, ArriveUserKeeps
<1>6. CASE \E r \in Reqs, t \in Tenants, gone \in BOOLEAN : ArriveList(r, t, gone)
  BY <1>6, ArriveListKeeps
<1>7. CASE \E r \in Reqs : Handle(r)
  BY <1>7, ListMembersKeeps, GetProfileKeeps, CreateProfileKeeps, GetProfilesKeeps, BreakKeeps
     DEF Handle
<1>8. CASE UNCHANGED vars
  BY <1>8 DEF IInv, Typed, vars, auth, bounds
<1> QED  BY <1>1, <1>3, <1>4, <1>5, <1>6, <1>7, <1>8, <1>2 DEF Next

\* In every behaviour of the handlers of two calls all requests stay sound.
THEOREM Invariance == Spec => []IInv
BY Initially, Stepping, PTL DEF Spec

\* Directory is type correct, and getMe alone heals: only it reaches "create".
THEOREM TypeCorrect == Spec => []TypeOK
<1>1. IInv => TypeOK
  <2> SUFFICES ASSUME IInv PROVE TypeOK  OBVIOUS
  <2>1. ASSUME NEW r \in Reqs
        PROVE  LET q == request[r] IN
               /\ q.step \in Steps /\ q.op \in Ops /\ q.user \in Users \cup {Nobody}
               /\ q.tenant \in Tenants \cup {Nobody} /\ q.status \in Statuses /\ q.text \in Texts
               /\ UNION {q.ids, q.ever, q.kept, q.softly} \subseteq Users
               /\ DOMAIN q.rows \subseteq Users
               /\ \A id \in DOMAIN q.rows : q.rows[id] \in Users \cup {Nobody}
               /\ {q.gone, q.broken} \subseteq Flags
               /\ q.step = "create" => q.op = "getMe" /\ q.user \in Users
               /\ q.step = "answered" <=> q.status # 0
    <3> DEFINE q == request[r]
    <3>1. q \in Requests /\ Sound(q, members, profile)  BY DEF IInv, Typed
    <3>2. q.rows \in Rows  BY <3>1 DEF Requests
    <3>3. PICK S \in SUBSET Users : q.rows \in [S -> Users \cup {Nobody}]  BY <3>2 DEF Rows
    <3>4. UNION {q.ids, q.ever, q.kept, q.softly} \subseteq Users /\ {q.gone, q.broken} \subseteq Flags
      BY <3>1 DEF Requests
    <3>5. q.step = "create" => q.op = "getMe" /\ q.user \in Users
      BY <3>1 DEF Sound, OnItsWay, UnderWay
    <3>6. q.step \in Steps  BY <3>1 DEF Requests
    <3>7. q.step = "answered" <=> q.status # 0
      BY <3>1, <3>6 DEF Sound, OnItsWay, UnderWay, Steps
    <3>8. /\ q.op \in Ops /\ q.user \in Users \cup {Nobody}
          /\ q.tenant \in Tenants \cup {Nobody} /\ q.status \in Statuses /\ q.text \in Texts
      BY <3>1 DEF Requests
    <3> QED  BY <3>3, <3>4, <3>5, <3>6, <3>7, <3>8
  <2> QED  BY <2>1 DEF TypeOK, IInv, Typed, Accounts, Memberships, Profiles, Steps, Ops,
                       Statuses, Texts, Flags
<1> QED  BY <1>1, Invariance, PTL

\* "a tenant admin never sees other tenants' users": getUser and listUsers name
\* only who has been a member of the asking tenant since the request came.
THEOREM AnswersScoped == Spec => []TenantScoped
<1>1. IInv => TenantScoped
  BY DEF IInv, TenantScoped, Sound, Scoped, At, Directories
<1> QED  BY <1>1, Invariance, PTL

\* "an id outside it returns 404 rather than leaking another tenant's user":
\* getUser answers about strangers as if there were no such user.
THEOREM StrangersUntold == Spec => []NothingTold
<1>1. IInv => NothingTold
  BY DEF IInv, NothingTold, Sound, Told, At
<1> QED  BY <1>1, Invariance, PTL

\* "its members (from auth) joined with their profiles": listUsers and getUser
\* pair ids with their own profiles and miss no member who has had one throughout.
THEOREM JoinCorrect == Spec => []DirectoryJoined
<1>1. IInv => DirectoryJoined
  BY DEF IInv, DirectoryJoined, Sound, Joined, At
<1> QED  BY <1>1, Invariance, PTL

--------------------------------------------------------------------------------
(* Users who are gone *)

Gone(u) == account[u] = "purged" /\ events[u] = <<>> /\ profile[u] = "none" /\ ~Reading(u)

\* A request on its way for the same page of the same user as before, if at all.
SameReading(q, q2) ==
  UnderWay(q2) => UnderWay(q) /\ q2.op = q.op /\ q2.user = q.user

LEMMA ObserveSame ==
  ASSUME NEW q \in Requests, NEW acc, NEW mem, NEW prof
  PROVE  SameReading(q, Observe(q, acc, mem, prof))
<1> DEFINE q2 == Observe(q, acc, mem, prof)
<1>1. q2.step = q.step /\ q2.op = q.op /\ q2.user = q.user
  BY DEF Observe, Requests
<1> HIDE DEF q2
<1>2. SameReading(q, q2)  BY <1>1 DEF SameReading, UnderWay
<1> QED  BY <1>2 DEF q2

\* A handler that goes on, answers or fails asks for nobody else.
LEMMA HandledSame ==
  ASSUME NEW q \in Requests, UnderWay(q), NEW step, NEW ids, NEW status, NEW text, NEW rows
  PROVE  /\ SameReading(q, Going(q, step, ids))
         /\ SameReading(q, Answered(q, status, text, rows))
         /\ SameReading(q, Broken(q, status, text))
<1>1. Going(q, step, ids).op = q.op /\ Going(q, step, ids).user = q.user
  BY DEF Going, Requests
<1>2. Answered(q, status, text, rows).step = "answered"  BY DEF Answered, Requests
<1>3. Broken(q, status, text).step = "answered"  BY DEF Broken, Answered, Requests
<1> QED  BY <1>1, <1>2, <1>3 DEF SameReading, UnderWay

\* Nobody starts to read the page of a user of whom all requests are over.
LEMMA StaysUnread ==
  ASSUME NEW u, ~Reading(u), \A r \in Reqs : SameReading(request[r], request'[r])
  PROVE  ~Reading(u)'
BY DEF Reading, SameReading

\* What a request with its next call does to the requests: at most it goes on.
LEMMA CallsSame ==
  ASSUME IInv, NEW r \in Reqs, Handle(r)
  PROVE  \A s \in Reqs : SameReading(request[s], request'[s])
<1> DEFINE q == request[r]
<1>1. q \in Requests /\ \A s \in Reqs : request[s] \in Requests  BY DEF IInv, Typed
<1>2. \A s \in Reqs : SameReading(request[s], request[s])  BY DEF SameReading
<1>3. \A s \in Reqs : SameReading(request[s], Observe(request[s], account, members, profile'))
  BY <1>1, ObserveSame
<1>4. request \in [Reqs -> Requests]  BY DEF IInv, Typed
<1>5. ASSUME NEW step, NEW ids, UnderWay(q), Continue(r, step, ids)
      PROVE  \A s \in Reqs : SameReading(request[s], request'[s])
  <2>1. \A s \in Reqs : request'[s] = IF s = r THEN Going(q, step, ids) ELSE request[s]
    BY <1>4, <1>5 DEF Continue
  <2>2. SameReading(q, Going(q, step, ids))  BY <1>1, <1>5, HandledSame
  <2> QED  BY <1>2, <2>1, <2>2
<1>6. ASSUME NEW status, NEW text, NEW rows, UnderWay(q), Answer(r, status, text, rows)
      PROVE  \A s \in Reqs : SameReading(request[s], request'[s])
  <2>1. \A s \in Reqs :
          request'[s] = IF s = r THEN Answered(q, status, text, rows) ELSE request[s]
    BY <1>4, <1>6 DEF Answer
  <2>2. SameReading(q, Answered(q, status, text, rows))  BY <1>1, <1>6, HandledSame
  <2> QED  BY <1>2, <2>1, <2>2
<1>7. CASE ListMembers(r)
  <2>1. UnderWay(q)  BY <1>7 DEF ListMembers, At, UnderWay
  <2> QED  BY <1>5, <1>6, <1>7, <2>1 DEF ListMembers, AfterMembers
<1>8. CASE GetProfile(r)
  <2>1. UnderWay(q)  BY <1>8 DEF GetProfile, At, UnderWay
  <2> QED  BY <1>5, <1>6, <1>8, <2>1 DEF GetProfile, WithoutProfile
<1>9. CASE GetProfiles(r)
  <2>1. UnderWay(q)  BY <1>9 DEF GetProfiles, At, UnderWay
  <2> QED  BY <1>6, <1>9, <2>1 DEF GetProfiles
<1>10. CASE CreateProfile(r)
  <2> DEFINE f == [s \in Reqs |-> Observe(request[s], account, members, profile')]
  <2>1. UnderWay(q)  BY <1>10 DEF CreateProfile, At, UnderWay
  <2>3. \E status, text, rows : request' = [f EXCEPT ![r] = Answered(@, status, text, rows)]
    <3> DEFINE To(status, text, rows) ==
                 request' = [f EXCEPT ![r] = Answered(@, status, text, rows)]
    <3>1. To(200, "own", Only(q.user)) \/ To(404, "service", NoRows)  BY <1>10 DEF CreateProfile
    <3> HIDE DEF To
    <3>2. \E status, text, rows : To(status, text, rows)  BY <3>1
    <3> QED  BY <3>2 DEF To
  <2>2. PICK status, text, rows : request' = [f EXCEPT ![r] = Answered(@, status, text, rows)]
    BY <2>3
  <2>4. \A s \in Reqs : s # r => request'[s] = f[s]  BY <2>2
  <2>5. request'[r] = Answered(f[r], status, text, rows)  BY <2>2
  <2>6. f[r].step = q.step /\ "step" \in DOMAIN f[r]  BY <1>1 DEF Observe, Requests
  <2>7. request'[r].step = "answered"  BY <2>5, <2>6 DEF Answered
  <2>8. SameReading(q, request'[r])  BY <2>7 DEF SameReading, UnderWay
  <2> QED  BY <1>3, <2>4, <2>8
<1>11. CASE Break(r)
  <2> DEFINE f == [s \in Reqs |-> Observe(request[s], account, members, profile')]
  <2>1. PICK status, text : request' = [f EXCEPT ![r] = Broken(@, status, text)]
    <3>1. request' = [f EXCEPT ![r] = IF At(r, "create") THEN Broken(@, 404, "service")
                                                        ELSE Broken(@, 500, "own")]
      BY <1>11 DEF Break
    <3>2. CASE At(r, "create")  BY <3>1, <3>2
    <3>3. CASE ~At(r, "create")  BY <3>1, <3>3
    <3> QED  BY <3>2, <3>3
  <2>2. \A s \in Reqs : s # r => request'[s] = f[s]  BY <2>1
  <2>3. request'[r] = Broken(f[r], status, text)  BY <2>1
  <2>4. "step" \in DOMAIN f[r]  BY <1>1 DEF Observe, Requests
  <2>5. request'[r].step = "answered"  BY <2>3, <2>4 DEF Broken, Answered
  <2>6. SameReading(q, request'[r])  BY <2>5 DEF SameReading, UnderWay
  <2> QED  BY <1>3, <2>2, <2>6
<1> QED  BY <1>7, <1>8, <1>9, <1>10, <1>11 DEF Handle

\* Only who reads their own page has a profile made; a call that fails may have.
LEMMA CallsMakeNone ==
  ASSUME IInv, NEW u \in Users, Gone(u), NEW r \in Reqs, Handle(r)
  PROVE  Gone(u)'
<1>1. account' = account /\ events' = events
  BY DEF Handle, ListMembers, GetProfile, CreateProfile, GetProfiles, Break, auth
<1>2. ~Reading(u)'  BY CallsSame, StaysUnread DEF Gone
<1>3. At(r, "create") => request[r].user # u
  <2>1. OnItsWay(request[r], members, profile)  BY DEF IInv, Sound
  <2> QED  BY <2>1 DEF At, OnItsWay, UnderWay, Gone, Reading
<1>4. profile'[u] = profile[u]
  BY <1>3 DEF Handle, ListMembers, GetProfile, CreateProfile, GetProfiles, Break, At, IInv, Typed, Profiles
<1> QED  BY <1>1, <1>2, <1>4 DEF Gone

\* Whoever is gone stays gone, whatever happens next.
LEMMA StaysGone ==
  ASSUME IInv, NEW u \in Users, Gone(u), [Next]_vars
  PROVE  Gone(u)'
<1>1. \A r \in Reqs : request[r] \in Requests  BY DEF IInv, Typed
<1>2. ASSUME Witnessed PROVE ~Reading(u)'
  <2>1. \A r \in Reqs : SameReading(request[r], request'[r])
    BY <1>1, <1>2, ObserveSame DEF Witnessed
  <2> QED  BY <2>1, StaysUnread DEF Gone
<1>3. CASE \E v \in Users, hard \in BOOLEAN : Register(v) \/ RestoreUser(v) \/ DeleteUser(v, hard)
  <2>1. PICK v \in Users, hard \in BOOLEAN : Register(v) \/ RestoreUser(v) \/ DeleteUser(v, hard)
    BY <1>3
  <2>2. v # u  BY <2>1 DEF Gone, Register, RestoreUser, DeleteUser
  <2>3. account'[u] = account[u] /\ events'[u] = events[u] /\ profile' = profile
    BY <2>1, <2>2 DEF Register, RestoreUser, DeleteUser, Tell, IInv, Typed, Accounts
  <2> QED  BY <1>2, <2>1, <2>3 DEF Gone, Register, RestoreUser, DeleteUser
<1>4. CASE \E t \in Tenants, v \in Users : AddMember(t, v) \/ RemoveMember(t, v)
  BY <1>2, <1>4 DEF Gone, AddMember, RemoveMember
<1>5. CASE \E v \in Users : Deliver(v)
  <2>1. PICK v \in Users : Deliver(v)  BY <1>5
  <2>2. v # u  BY <2>1 DEF Gone, Deliver
  <2>3. profile'[u] = profile[u]  BY <2>1, <2>2 DEF Deliver, IInv, Typed, Profiles
  <2>4. events'[u] = events[u]  BY <2>1, <2>2 DEF Deliver, IInv, Typed
  <2>5. account' = account /\ Witnessed  BY <2>1 DEF Deliver
  <2> QED  BY <1>2, <2>3, <2>4, <2>5 DEF Gone
<1>6. ASSUME NEW r \in Reqs, NEW q, Begin(r, q), q.op # "getMe" \/ q.user # u
      PROVE  Gone(u)'
  <2>1. UNCHANGED <<account, events, profile>>  BY <1>6 DEF Begin, auth
  <2>2. \A s \in Reqs : request'[s] = IF s = r THEN q ELSE request[s]
    BY <1>6 DEF Begin, IInv, Typed
  <2>3. ~Reading(u)'  BY <1>6, <2>2 DEF Gone, Reading
  <2> QED  BY <2>1, <2>3 DEF Gone
<1>7. CASE \E r \in Reqs, v \in Users : ArriveMe(r, v)
  <2>1. PICK r \in Reqs, v \in Users : ArriveMe(r, v)  BY <1>7
  <2>2. v # u  BY <2>1 DEF Gone, ArriveMe, Accepted
  <2> DEFINE q == [Idle EXCEPT !.step = "profile", !.op = "getMe", !.user = v]
  <2>3. q.user = v  BY DEF Idle
  <2>4. Begin(r, q)  BY <2>1 DEF ArriveMe
  <2> HIDE DEF q
  <2> QED  BY <1>6, <2>2, <2>3, <2>4
<1>8. CASE \E r \in Reqs, t \in Tenants, v \in Users : ArriveUser(r, t, v)
  <2>1. PICK r \in Reqs, t \in Tenants, v \in Users : ArriveUser(r, t, v)  BY <1>8
  <2> DEFINE q == [Asked("getUser", t) EXCEPT !.user = v]
  <2>2. q.op = "getUser"  BY DEF Asked, Idle
  <2>3. Begin(r, q)  BY <2>1 DEF ArriveUser
  <2> HIDE DEF q
  <2> QED  BY <1>6, <2>2, <2>3
<1>9. CASE \E r \in Reqs, t \in Tenants, gone \in BOOLEAN : ArriveList(r, t, gone)
  <2>1. PICK r \in Reqs, t \in Tenants, gone \in BOOLEAN : ArriveList(r, t, gone)  BY <1>9
  <2> DEFINE q == [Asked("listUsers", t) EXCEPT !.gone = gone]
  <2>2. q.op = "listUsers"  BY DEF Asked, Idle
  <2>3. Begin(r, q)  BY <2>1 DEF ArriveList
  <2> HIDE DEF q
  <2> QED  BY <1>6, <2>2, <2>3
<1>10. CASE \E r \in Reqs : Handle(r)
  BY <1>10, CallsMakeNone
<1>11. CASE UNCHANGED vars
  BY <1>11 DEF Gone, Reading, vars
<1> QED  BY <1>3, <1>4, <1>5, <1>7, <1>8, <1>9, <1>10, <1>11 DEF Next

\* Healing makes no profile for a user who is gone, however often and by whom
\* pages are asked for, and however many events about others are repeated.
THEOREM NoneAgain == Spec => GoneForGood
<1> SUFFICES ASSUME NEW u \in Users
             PROVE  Spec => [](Gone(u) => [](profile[u] = "none"))
  BY DEF GoneForGood, Gone
<1>1. IInv /\ Gone(u) /\ [Next]_vars => Gone(u)'  BY StaysGone
<1>2. Gone(u) => profile[u] = "none"  BY DEF Gone
<1> QED  BY <1>1, <1>2, Invariance, PTL DEF Spec
================================================================================
