-------------------------- MODULE RequestPipelineProofs --------------------------
(***************************************************************************)
(* Type correctness of RequestPipeline and its invariants AuthorizedCalls, *)
(* SharedBudget, NoDetailLeaks and FirstErrorTold, for any number of       *)
(* requests, tokens and routes exercised.  Two arguments: what a request   *)
(* has passed of its middlewares it has been entitled to (one request at a *)
(* time), and every request past the limiter that has a call in Throttled  *)
(* to make holds a ticket for it (all of them together).                   *)
(***************************************************************************)
EXTENDS RouteTableProofs, FiniteSets, FiniteSetTheorems

States == {"idle", "chain", "calling", "answered"}
Routes == Exercised \cup {None}
Chains == {<<>>} \cup UNION {Seq(Elements(route.chain)) : route \in Table}
CallLists == {<<>>} \cup UNION {Seq(Elements(route.calls)) : route \in Table}
Bearers == Tokens \cup {NoToken}
Grants == Rights \cup {{}}
Powers == SUBSET UNION Rights
Statuses == Int
Texts == {"own", "service", "Require"}
Flags == BOOLEAN
Errors == Codes \cup {"none"}

Requests ==
  [state : States, route : Routes, chain : Chains, calls : CallLists, token : Bearers,
   own : Flags, id : Grants, status : Statuses, text : Texts, err : Errors,
   held : Powers, valid : Flags, dead : Flags]

Roles == [Tokens -> Rights]

Typed ==
  /\ live \in SUBSET Tokens
  /\ rights \in Roles
  /\ spent \in 0..Limit
  /\ windows \in 1..MaxWindows
  /\ guesses \in Nat
  /\ request \in [Reqs -> Requests]

UnderWay(q) == q.state \in {"chain", "calling"}

\* What is known of a request that has passed a middleware of its route.
Cleared(q, m) ==
  /\ m = "Require" => q.valid
  /\ m \notin Plain /\ Permission(m, q.own) \in Needed(q) => Permission(m, q.own) \in q.held

\* Of the calls left only the first may be in Throttled, and one that heals is the
\* first of getMe's.
Ordered(calls) ==
  \A i \in DOMAIN calls :
    /\ i > 1 => calls[i].rpc \notin Throttled
    /\ calls[i].heals => i = 1 /\ calls = MeCalls

\* An error is kept while getMe creates a profile.
Kept(q) ==
  q.err # "none" => q.state = "calling" /\ q.calls = <<Healing>> /\ q.route.ok = 200

\* What a request has left is of its route, and all that is gone is cleared.
OnItsWay(q) ==
  UnderWay(q) =>
    /\ q.route \in Exercised /\ q.status = 0
    /\ q.chain \in Seq(Elements(q.route.chain))
    /\ q.calls \in Seq(Elements(q.route.calls))
    /\ Ordered(q.calls) /\ Kept(q)
    /\ \A m \in Elements(q.route.chain) : m \in Elements(q.chain) \/ Cleared(q, m)
    /\ q.state = "calling" => q.chain = <<>> /\ q.calls # <<>>
    /\ q.id \cap Needed(q) \subseteq q.held

\* The histories keep up with the auth service.
UpToDate(q, alive, may) ==
  UnderWay(q) /\ q.token \in alive => q.valid /\ may[q.token] \cap Needed(q) \subseteq q.held

\* The error that getMe's GetProfile leaves for later.
MayKeep(q, err) == err # "none" => Tail(q.calls) = <<Healing>> /\ q.route.ok = 200

\* What may be answered once an error has been kept.
MayTell(err, status, text) == status = 200 \/ (status = HttpStatus(err) /\ text = TextOf(err))

\* What an answer tells of errors.
Tactful(q) ==
  /\ q.status >= 500 => q.text = "own"
  /\ q.state = "answered" /\ q.err # "none" => MayTell(q.err, q.status, q.text)

Sound(q, alive, may) == OnItsWay(q) /\ UpToDate(q, alive, may) /\ Tactful(q)

\* A request that the limiter has let through and that has a call in Throttled to
\* make.
Ticket(q) ==
  /\ q.state = "chain"
  /\ "authLimit" \notin Elements(q.chain)
  /\ \E i \in DOMAIN q.calls : q.calls[i].rpc \in Throttled

Tickets == {r \in Reqs : Ticket(request[r])}

\* The calls in Throttled, made or still to be made, have been admitted.
Budget ==
  /\ IsFiniteSet(Tickets)
  /\ guesses + Cardinality(Tickets) <= Limit * (windows - 1) + spent

IInv == Typed /\ (\A r \in Reqs : Sound(request[r], live, rights)) /\ Budget

--------------------------------------------------------------------------------
(* What is left of a chain or of the calls *)

LEMMA SequenceStep ==
  ASSUME NEW S, NEW s \in Seq(S), s # <<>>
  PROVE  /\ Head(s) \in S /\ Head(s) = s[1] /\ Head(s) \in Elements(s)
         /\ Tail(s) \in Seq(S)
         /\ \A i \in DOMAIN Tail(s) : i \in 1..Len(s) /\ i + 1 \in DOMAIN s /\ Tail(s)[i] = s[i + 1]
         /\ \A e \in Elements(s) : e = Head(s) \/ e \in Elements(Tail(s))
         /\ Elements(Tail(s)) \subseteq Elements(s)
         /\ Len(s) > 1 => Tail(s) # <<>>
<1>1. Len(s) \in Nat /\ Len(s) >= 1 /\ DOMAIN s = 1..Len(s)  OBVIOUS
<1>2. /\ Tail(s) \in Seq(S) /\ Len(Tail(s)) = Len(s) - 1 /\ DOMAIN Tail(s) = 1..(Len(s) - 1)
      /\ \A i \in 1..(Len(s) - 1) : Tail(s)[i] = s[i + 1]
  BY <1>1
<1>3. Head(s) = s[1] /\ s[1] \in S  BY <1>1
<1>4. ASSUME NEW i \in DOMAIN s, i # 1 PROVE s[i] \in Elements(Tail(s))
  <2>1. i - 1 \in DOMAIN Tail(s) /\ Tail(s)[i - 1] = s[i]  BY <1>1, <1>2, <1>4
  <2> QED  BY <2>1 DEF Elements
<1>5. \A i \in DOMAIN Tail(s) : i \in 1..Len(s) /\ i + 1 \in DOMAIN s /\ Tail(s)[i] = s[i + 1]
  BY <1>1, <1>2
<1>6. Elements(Tail(s)) \subseteq Elements(s)  BY <1>5 DEF Elements
<1>7. Head(s) \in Elements(s)  BY <1>1, <1>3 DEF Elements
<1>8. \A e \in Elements(s) : e = Head(s) \/ e \in Elements(Tail(s))
  BY <1>3, <1>4 DEF Elements
<1>9. Len(s) > 1 => Tail(s) # <<>>
  <2>1. Len(s) > 1 => 1 \in DOMAIN Tail(s)  BY <1>1, <1>2
  <2>2. DOMAIN <<>> = {}  OBVIOUS
  <2>3. ASSUME Tail(s) = <<>> PROVE DOMAIN Tail(s) = DOMAIN <<>>  BY <2>3, Zenon
  <2> QED  BY <2>1, <2>2, <2>3
<1> QED  BY <1>2, <1>3, <1>5, <1>6, <1>7, <1>8, <1>9

LEMMA ExercisedFit ==
  ASSUME NEW route \in Exercised
  PROVE  /\ Fit(route) /\ route \in Table
         /\ Seq(Elements(route.chain)) \subseteq Chains
         /\ Seq(Elements(route.calls)) \subseteq CallLists
BY TableFit DEF Exercised, Chains, CallLists

--------------------------------------------------------------------------------
(* One request *)

LEMMA IdleTyped == Idle \in Requests /\ ~UnderWay(Idle) /\ Tactful(Idle)
<1>1. /\ "idle" \in States /\ None \in Routes /\ <<>> \in Chains /\ <<>> \in CallLists
      /\ NoToken \in Bearers /\ {} \in Grants /\ 0 \in Statuses /\ "own" \in Texts
      /\ {} \in Powers /\ FALSE \in Flags /\ "none" \in Errors
  BY DEF States, Routes, Chains, CallLists, Bearers, Grants, Statuses, Texts, Powers, Flags, Errors
<1>2. Idle \in Requests  BY <1>1 DEF Idle, Requests
<1> QED  BY <1>2 DEF Idle, UnderWay, Tactful

\* What Answer leaves of a request.
Done(q, status, text) ==
  [Idle EXCEPT !.state = "answered", !.status = status, !.text = text,
               !.err = q.err, !.dead = q.dead]

LEMMA Answering ==
  ASSUME NEW q \in Requests, NEW status \in Int, NEW text \in Texts,
         status >= 500 => text = "own", q.err = "none" \/ MayTell(q.err, status, text),
         NEW alive, NEW may
  PROVE  LET q2 == Done(q, status, text)
         IN  q2 \in Requests /\ Sound(q2, alive, may) /\ ~Ticket(q2)
<1> DEFINE q2 == Done(q, status, text)
<1>1. "answered" \in States /\ status \in Statuses /\ q.dead \in Flags /\ q.err \in Errors
  BY DEF States, Statuses, Requests
<1>2. q2 \in Requests  BY <1>1, IdleTyped DEF Done, Requests
<1>3. q2.state = "answered" /\ q2.status = status /\ q2.text = text /\ q2.err = q.err
  BY IdleTyped DEF Done, Requests
<1> QED  BY <1>2, <1>3 DEF Sound, OnItsWay, UpToDate, Tactful, UnderWay, Ticket

\* The auth service has moved on, and the histories with it.
LEMMA Observing ==
  ASSUME NEW q \in Requests, OnItsWay(q), Tactful(q),
         NEW alive \in SUBSET Tokens, NEW may \in Roles
  PROVE  LET q2 == Observe(q, alive, may)
         IN  q2 \in Requests /\ Sound(q2, alive, may) /\ (Ticket(q2) <=> Ticket(q))
<1> DEFINE q2 == Observe(q, alive, may)
<1>1. CASE ~UnderWay(q)
  <2>1. q2 = q  BY <1>1 DEF Observe, UnderWay, Requests, States
  <2> QED  BY <1>1, <2>1 DEF Sound, UpToDate
<1>2. CASE UnderWay(q)
  <2> DEFINE held == IF q.token \in alive THEN q.held \cup (may[q.token] \cap Needed(q)) ELSE q.held
             valid == q.valid \/ q.token \in alive
             dead == q.dead \/ q.token \notin alive
  <2>1. q2 = [q EXCEPT !.held = held, !.valid = valid, !.dead = dead]
    BY <1>2 DEF Observe, UnderWay
  <2>2. held \in Powers
    <3>1. q.token \in alive => may[q.token] \in Rights  BY DEF Roles
    <3>2. q.held \in Powers  BY DEF Requests
    <3> QED  BY <3>1, <3>2 DEF Powers
  <2>3. valid \in Flags /\ dead \in Flags  BY DEF Flags, Requests
  <2>4. q.held \subseteq held /\ (q.valid => valid)  OBVIOUS
  <2>5. q.token \in alive => valid /\ may[q.token] \cap Needed(q) \subseteq held  OBVIOUS
  <2> HIDE DEF held, valid, dead
  <2>6. q2 \in Requests  BY <2>1, <2>2, <2>3 DEF Requests
  <2>7. /\ q2.state = q.state /\ q2.route = q.route /\ q2.chain = q.chain /\ q2.calls = q.calls
        /\ q2.token = q.token /\ q2.own = q.own /\ q2.id = q.id /\ q2.status = q.status
        /\ q2.text = q.text /\ q2.err = q.err /\ q2.held = held /\ q2.valid = valid
    BY <2>1 DEF Requests
  <2>8. Needed(q2) = Needed(q)  BY <2>7 DEF Needed
  <2> HIDE DEF q2
  <2>9. \A m : Cleared(q, m) => Cleared(q2, m)  BY <2>4, <2>7, <2>8 DEF Cleared
  <2>10. OnItsWay(q2)  BY <1>2, <2>4, <2>7, <2>8, <2>9 DEF OnItsWay, UnderWay, Kept
  <2>11. UpToDate(q2, alive, may)  BY <2>5, <2>7, <2>8 DEF UpToDate
  <2>12. Tactful(q2) /\ (Ticket(q2) <=> Ticket(q))  BY <2>7 DEF Tactful, Ticket
  <2> QED  BY <2>6, <2>10, <2>11, <2>12 DEF q2, Sound
<1> QED  BY <1>1, <1>2

\* A request passes a middleware, with the permissions Require has read if it is
\* that one.
LEMMA Passing ==
  ASSUME NEW q \in Requests, NEW alive, NEW may, Sound(q, alive, may),
         q.state = "chain", q.chain # <<>>, Cleared(q, Head(q.chain)),
         NEW id \in Grants, id \cap Needed(q) \subseteq q.held
  PROVE  LET q2 == [q EXCEPT !.chain = Tail(@), !.id = id]
         IN  /\ q2 \in Requests /\ Sound(q2, alive, may)
             /\ Ticket(q2) => Ticket(q) \/ Head(q.chain) = "authLimit"
<1> DEFINE q2 == [q EXCEPT !.chain = Tail(@), !.id = id]
<1>1. /\ OnItsWay(q) /\ UnderWay(q) /\ Tactful(q) /\ q.route \in Exercised
      /\ q.chain \in Seq(Elements(q.route.chain))
  BY DEF Sound, OnItsWay, UnderWay
<1>2. /\ Tail(q.chain) \in Seq(Elements(q.route.chain))
      /\ \A m \in Elements(q.chain) : m = Head(q.chain) \/ m \in Elements(Tail(q.chain))
  BY <1>1, SequenceStep
<1>3. Tail(q.chain) \in Chains  BY <1>1, <1>2, ExercisedFit
<1>4. q2 \in Requests  BY <1>3 DEF Requests
<1>5. /\ q2.state = q.state /\ q2.route = q.route /\ q2.chain = Tail(q.chain)
      /\ q2.calls = q.calls /\ q2.token = q.token /\ q2.own = q.own /\ q2.id = id
      /\ q2.status = q.status /\ q2.text = q.text /\ q2.err = q.err
      /\ q2.held = q.held /\ q2.valid = q.valid
  BY DEF Requests
<1>6. Needed(q2) = Needed(q)  BY <1>5 DEF Needed
<1> HIDE DEF q2
<1>7. \A m : Cleared(q, m) => Cleared(q2, m)  BY <1>5, <1>6 DEF Cleared
<1>8. \A m \in Elements(q2.route.chain) : m \in Elements(q2.chain) \/ Cleared(q2, m)
  BY <1>1, <1>2, <1>5, <1>7 DEF OnItsWay
<1>9. OnItsWay(q2)  BY <1>1, <1>2, <1>5, <1>6, <1>8 DEF OnItsWay, UnderWay, Kept
<1>10. UpToDate(q2, alive, may)  BY <1>5, <1>6 DEF Sound, UpToDate, UnderWay
<1>11. Tactful(q2)  BY <1>1, <1>5 DEF Tactful
<1>12. Ticket(q2) => Ticket(q) \/ Head(q.chain) = "authLimit"
  BY <1>2, <1>5 DEF Ticket
<1> QED  BY <1>4, <1>9, <1>10, <1>11, <1>12 DEF q2, Sound

\* The handler sends its first call: one in Throttled only with a ticket, which is
\* gone.
LEMMA Calling ==
  ASSUME NEW q \in Requests, NEW alive, NEW may, Sound(q, alive, may),
         q.state = "chain", q.chain = <<>>, q.calls # <<>>
  PROVE  LET q2 == [q EXCEPT !.state = "calling"]
         IN  /\ q2 \in Requests /\ Sound(q2, alive, may) /\ ~Ticket(q2)
             /\ Head(q.calls).rpc \in Throttled => Ticket(q)
<1> DEFINE q2 == [q EXCEPT !.state = "calling"]
<1>1. OnItsWay(q) /\ UnderWay(q) /\ Tactful(q)  BY DEF Sound, UnderWay
<1>2. q2 \in Requests  BY DEF Requests, States
<1>3. /\ q2.state = "calling" /\ q2.route = q.route /\ q2.chain = q.chain
      /\ q2.calls = q.calls /\ q2.token = q.token /\ q2.own = q.own /\ q2.id = q.id
      /\ q2.status = q.status /\ q2.text = q.text /\ q2.err = q.err
      /\ q2.held = q.held /\ q2.valid = q.valid
  BY DEF Requests
<1>4. Needed(q2) = Needed(q)  BY <1>3 DEF Needed
<1> HIDE DEF q2
<1>5. \A m : Cleared(q, m) => Cleared(q2, m)  BY <1>3, <1>4 DEF Cleared
<1>6. OnItsWay(q2)  BY <1>1, <1>3, <1>4, <1>5 DEF OnItsWay, UnderWay, Kept
<1>7. UpToDate(q2, alive, may)  BY <1>1, <1>3, <1>4 DEF Sound, UpToDate, UnderWay
<1>8. Tactful(q2) /\ ~Ticket(q2)  BY <1>1, <1>3 DEF Tactful, Ticket
<1>9. ASSUME Head(q.calls).rpc \in Throttled PROVE Ticket(q)
  <2>1. q.calls \in Seq(Elements(q.route.calls))  BY <1>1 DEF OnItsWay
  <2>2. Head(q.calls) \in Elements(q.calls)  BY <2>1, SequenceStep
  <2>3. Elements(q.chain) = {}  BY ChainElements
  <2> QED  BY <1>9, <2>2, <2>3 DEF Ticket, Elements
<1> QED  BY <1>2, <1>6, <1>7, <1>8, <1>9 DEF q2, Sound

\* Its next call is never in Throttled.
LEMMA CallingOn ==
  ASSUME NEW q \in Requests, NEW alive, NEW may, Sound(q, alive, may),
         q.state = "calling", Tail(q.calls) # <<>>,
         NEW err \in Errors, MayKeep(q, err)
  PROVE  LET q2 == [q EXCEPT !.calls = Tail(@), !.err = err]
         IN  /\ q2 \in Requests /\ Sound(q2, alive, may) /\ ~Ticket(q2)
             /\ Head(Tail(q.calls)).rpc \notin Throttled
<1> DEFINE q2 == [q EXCEPT !.calls = Tail(@), !.err = err]
<1>1. /\ OnItsWay(q) /\ UnderWay(q) /\ Tactful(q) /\ q.route \in Exercised
      /\ q.calls \in Seq(Elements(q.route.calls)) /\ q.calls # <<>> /\ Ordered(q.calls)
  BY DEF Sound, UnderWay, OnItsWay
<1>2. /\ Tail(q.calls) \in Seq(Elements(q.route.calls))
      /\ \A i \in DOMAIN Tail(q.calls) :
           i \in 1..Len(q.calls) /\ i + 1 \in DOMAIN q.calls /\ Tail(q.calls)[i] = q.calls[i + 1]
  BY <1>1, SequenceStep
<1>3. Len(Tail(q.calls)) = Len(q.calls) - 1 /\ Len(q.calls) \in Nat  BY <1>1
<1>4. Ordered(Tail(q.calls))  BY <1>1, <1>2, <1>3 DEF Ordered
<1>5. 1 \in DOMAIN Tail(q.calls) /\ Head(Tail(q.calls)) = Tail(q.calls)[1]  BY <1>2
<1>6. Head(Tail(q.calls)).rpc \notin Throttled  BY <1>1, <1>2, <1>5 DEF Ordered
<1>7. Tail(q.calls) \in CallLists  BY <1>1, <1>2, ExercisedFit
<1>8. q2 \in Requests  BY <1>7 DEF Requests
<1>9. /\ q2.state = "calling" /\ q2.route = q.route /\ q2.chain = q.chain
      /\ q2.calls = Tail(q.calls) /\ q2.token = q.token /\ q2.own = q.own /\ q2.id = q.id
      /\ q2.status = q.status /\ q2.text = q.text /\ q2.err = err
      /\ q2.held = q.held /\ q2.valid = q.valid
  BY DEF Requests
<1>10. Needed(q2) = Needed(q)  BY <1>9 DEF Needed
<1> HIDE DEF q2
<1>11. \A m : Cleared(q, m) => Cleared(q2, m)  BY <1>9, <1>10 DEF Cleared
<1>12. OnItsWay(q2)
  <2>1. Kept(q2)  BY <1>9 DEF Kept, MayKeep
  <2> QED  BY <1>1, <1>2, <1>4, <1>9, <1>10, <1>11, <2>1 DEF OnItsWay, UnderWay
<1>13. UpToDate(q2, alive, may)  BY <1>1, <1>9, <1>10 DEF Sound, UpToDate, UnderWay
<1>14. Tactful(q2) /\ ~Ticket(q2)  BY <1>1, <1>9 DEF Tactful, Ticket
<1> QED  BY <1>6, <1>8, <1>12, <1>13, <1>14 DEF q2, Sound

\* A request has just come.
LEMMA Arriving ==
  ASSUME NEW route \in Exercised, NEW token \in Bearers, NEW own \in BOOLEAN,
         NEW alive \in SUBSET Tokens, NEW may \in Roles
  PROVE  LET q2 == Observe([Idle EXCEPT !.state = "chain", !.route = route,
                                        !.chain = route.chain, !.calls = route.calls,
                                        !.token = token, !.own = own], alive, may)
         IN  q2 \in Requests /\ Sound(q2, alive, may) /\ ~Ticket(q2)
<1> DEFINE q == [Idle EXCEPT !.state = "chain", !.route = route, !.chain = route.chain,
                             !.calls = route.calls, !.token = token, !.own = own]
<1>1. /\ Fit(route) /\ route.chain \in Seq(Elements(route.chain))
      /\ route.calls \in Seq(Elements(route.calls))
      /\ route.chain \in Chains /\ route.calls \in CallLists
  BY ExercisedFit DEF Fit
<1>2. "chain" \in States /\ route \in Routes /\ own \in Flags  BY DEF States, Routes, Flags
<1>3. q \in Requests  BY <1>1, <1>2, IdleTyped DEF Requests
<1>4. /\ q.state = "chain" /\ q.route = route /\ q.chain = route.chain /\ q.calls = route.calls
      /\ q.id = {} /\ q.status = 0 /\ q.err = "none"
  BY DEF Idle
<1> HIDE DEF q
<1>5. Ordered(q.calls)  BY <1>1, <1>4 DEF Fit, Ordered
<1>6. OnItsWay(q)  BY <1>1, <1>4, <1>5 DEF OnItsWay, UnderWay, Kept
<1>7. Tactful(q)  BY <1>4 DEF Tactful
<1>8. ~Ticket(q)  BY <1>1, <1>4 DEF Ticket, Fit, Guarded
<1> QED  BY <1>3, <1>6, <1>7, <1>8, Observing DEF q

--------------------------------------------------------------------------------
(* All requests *)

Weight(q) == IF Ticket(q) THEN 1 ELSE 0

LEMMA SetsDiffer ==
  ASSUME NEW S, NEW T, NEW r, IsFiniteSet(S), T \ {r} = S \ {r}
  PROVE  /\ IsFiniteSet(T) /\ Cardinality(S) \in Nat
         /\ Cardinality(T) = Cardinality(S) - (IF r \in S THEN 1 ELSE 0) + (IF r \in T THEN 1 ELSE 0)
<1>1. Cardinality(S) \in Nat  BY FS_CardinalityType
<1>2. CASE (r \in S) <=> (r \in T)
  <2>1. T = S  BY <1>2
  <2> QED  BY <1>1, <1>2, <2>1
<1>3. CASE r \in S /\ r \notin T
  <2>1. T = S \ {r}  BY <1>3
  <2> QED  BY <1>1, <1>3, <2>1, FS_RemoveElement
<1>4. CASE r \notin S /\ r \in T
  <2>1. T = S \cup {r}  BY <1>4
  <2> QED  BY <1>1, <1>4, <2>1, FS_AddElement
<1> QED  BY <1>2, <1>3, <1>4

\* A step of one request keeps the invariant if what it becomes is sound and it
\* spends no more of the budget than it has taken.
LEMMA RequestMoves ==
  ASSUME IInv, NEW r \in Reqs, NEW q2 \in Requests, Sound(q2, live, rights),
         request' = [request EXCEPT ![r] = q2], UNCHANGED <<live, rights, windows>>,
         spent' \in 0..Limit, guesses' \in Nat,
         guesses' + Weight(q2) <= guesses + Weight(request[r]) + (spent' - spent)
  PROVE  IInv'
<1>1. Typed /\ (\A p \in Reqs : Sound(request[p], live, rights)) /\ Budget  BY DEF IInv
<1>2. \A p \in Reqs : request'[p] = IF p = r THEN q2 ELSE request[p]  BY <1>1 DEF Typed
<1>3. Typed'  BY <1>1 DEF Typed
<1>4. \A p \in Reqs : Sound(request'[p], live', rights')  BY <1>1, <1>2
<1>5. Tickets' \ {r} = Tickets \ {r} /\ (r \in Tickets' <=> Ticket(q2))
      /\ (r \in Tickets <=> Ticket(request[r]))
  BY <1>2 DEF Tickets
<1>6. /\ IsFiniteSet(Tickets') /\ Cardinality(Tickets) \in Nat
      /\ Cardinality(Tickets') = Cardinality(Tickets) - Weight(request[r]) + Weight(q2)
  BY <1>1, <1>5, SetsDiffer DEF Budget, Weight
<1>7. Budget'
  <2>1. Weight(q2) \in Nat /\ Weight(request[r]) \in Nat  BY DEF Weight
  <2> DEFINE admitted == Limit * (windows - 1)
  <2>2. admitted \in Int  BY <1>1, LimitAssumption DEF Typed
  <2>3. spent \in Int /\ spent' \in Int /\ guesses \in Int /\ guesses' \in Int
    BY <1>1 DEF Typed
  <2>4. guesses + Cardinality(Tickets) <= admitted + spent  BY <1>1 DEF Budget
  <2> HIDE DEF admitted
  <2>5. guesses' + Cardinality(Tickets') <= admitted + spent'
    BY <1>6, <2>1, <2>2, <2>3, <2>4
  <2>6. Limit * (windows' - 1) = admitted  BY DEF admitted
  <2> QED  BY <1>6, <2>5, <2>6 DEF Budget
<1> QED  BY <1>3, <1>4, <1>7 DEF IInv

LEMMA ArriveKeeps ==
  ASSUME IInv, NEW r \in Reqs, NEW route \in Exercised, NEW t \in Tokens \cup {NoToken},
         NEW own \in BOOLEAN, Arrive(r, route, t, own)
  PROVE  IInv'
<1> DEFINE q2 == Observe([Idle EXCEPT !.state = "chain", !.route = route,
                                      !.chain = route.chain, !.calls = route.calls,
                                      !.token = t, !.own = own], live, rights)
<1>1. live \in SUBSET Tokens /\ rights \in Roles /\ spent \in 0..Limit /\ guesses \in Nat
  BY DEF IInv, Typed
<1>2. q2 \in Requests /\ Sound(q2, live, rights) /\ ~Ticket(q2)
  BY <1>1, Arriving DEF Bearers
<1>3. /\ request' = [request EXCEPT ![r] = q2] /\ request[r].state \in {"idle", "answered"}
      /\ UNCHANGED <<live, rights, windows, spent, guesses>>
  BY DEF Arrive
<1> HIDE DEF q2
<1>4. ~Ticket(request[r])  BY <1>3 DEF Ticket
<1>5. guesses' + Weight(q2) <= guesses + Weight(request[r]) + (spent' - spent)
  BY <1>1, <1>2, <1>3, <1>4 DEF Weight
<1> QED  BY <1>1, <1>2, <1>3, <1>5, RequestMoves

LEMMA AuthChangesKeep ==
  ASSUME IInv, NEW t \in Tokens, NEW may \in Rights, NEW alive \in {{}, {t}},
         AuthChanges(t, alive, may)
  PROVE  IInv'
<1>1. live' \in SUBSET Tokens /\ rights' \in Roles
  BY DEF AuthChanges, IInv, Typed, Roles
<1>2. request \in [Reqs -> Requests] /\ request' = [r \in Reqs |-> Observe(request[r], live', rights')]
  BY DEF AuthChanges, IInv, Typed
<1>3. ASSUME NEW r \in Reqs
      PROVE  /\ request'[r] \in Requests /\ Sound(request'[r], live', rights')
             /\ Ticket(request'[r]) <=> Ticket(request[r])
  <2>1. request[r] \in Requests /\ OnItsWay(request[r]) /\ Tactful(request[r])
    BY <1>2 DEF IInv, Sound
  <2> QED  BY <1>1, <1>2, <2>1, Observing
<1>4. UNCHANGED <<spent, windows, guesses>>  BY DEF AuthChanges
<1>5. request' \in [Reqs -> Requests]  BY <1>2, <1>3
<1>6. Typed'  BY <1>1, <1>4, <1>5 DEF IInv, Typed
<1>7. Tickets' = Tickets  BY <1>3 DEF Tickets
<1>8. Budget'  BY <1>4, <1>7 DEF IInv, Budget
<1> QED  BY <1>3, <1>6, <1>8 DEF IInv

LEMMA NewWindowKeeps == ASSUME IInv, NewWindow PROVE IInv'
<1>1. /\ windows < MaxWindows /\ windows' = windows + 1 /\ spent' = 0
      /\ UNCHANGED <<live, rights, guesses, request>>
  BY DEF NewWindow
<1>2. Typed'  BY <1>1, LimitAssumption, WindowsAssumption DEF IInv, Typed
<1>3. \A r \in Reqs : Sound(request'[r], live', rights')  BY <1>1 DEF IInv
<1>4. Tickets' = Tickets  BY <1>1 DEF Tickets
<1>5. Limit * (windows - 1) + spent <= Limit * (windows' - 1)
  <2>1. Limit \in Nat /\ windows \in Nat /\ spent \in 0..Limit
    BY LimitAssumption DEF IInv, Typed
  <2>2. Limit * windows = Limit * (windows - 1) + Limit  BY <2>1
  <2>3. windows' - 1 = windows  BY <1>1, <2>1
  <2>4. Limit * (windows' - 1) = Limit * windows  BY <2>3
  <2> QED  BY <2>1, <2>2, <2>4
<1>6. Budget'
  <2> DEFINE before == Limit * (windows - 1)
             after == Limit * (windows' - 1)
  <2>1. before \in Int /\ after \in Int
    BY <1>1, LimitAssumption DEF IInv, Typed
  <2>2. IsFiniteSet(Tickets) /\ guesses + Cardinality(Tickets) <= before + spent
    BY DEF IInv, Budget
  <2>3. Cardinality(Tickets) \in Nat /\ guesses \in Nat /\ spent \in Nat
    BY <2>2, FS_CardinalityType DEF IInv, Typed
  <2>4. before + spent <= after  BY <1>5
  <2> HIDE DEF before, after
  <2>5. guesses + Cardinality(Tickets) <= after + 0  BY <2>1, <2>2, <2>3, <2>4
  <2> QED  BY <1>1, <1>4, <2>2, <2>5 DEF Budget, after
<1> QED  BY <1>2, <1>3, <1>6 DEF IInv

--------------------------------------------------------------------------------
(* One step of a request *)

\* The gateway or a service has the last word.
LEMMA AnswerKeeps ==
  ASSUME IInv, NEW r \in Reqs, NEW status \in Int, NEW text \in Texts,
         status >= 500 => text = "own", Answer(r, status, text),
         request[r].err = "none" \/ MayTell(request[r].err, status, text),
         UNCHANGED <<live, rights, spent, windows, guesses>>
  PROVE  IInv'
<1> DEFINE q2 == Done(request[r], status, text)
<1>1. request[r] \in Requests /\ spent \in 0..Limit /\ guesses \in Nat  BY DEF IInv, Typed
<1>2. q2 \in Requests /\ Sound(q2, live, rights) /\ ~Ticket(q2)  BY <1>1, Answering
<1>3. request' = [request EXCEPT ![r] = q2]  BY DEF Answer, Done
<1> HIDE DEF q2
<1>4. guesses' + Weight(q2) <= guesses + Weight(request[r]) + (spent' - spent)
  BY <1>1, <1>2 DEF Weight
<1> QED  BY <1>1, <1>2, <1>3, <1>4, RequestMoves

LEMMA NothingKept ==
  ASSUME IInv, NEW r \in Reqs, request[r].state = "chain"
  PROVE  request[r].err = "none"
BY DEF IInv, Sound, OnItsWay, UnderWay, Kept

\* c.Next(), after a middleware that takes nothing from the budget.
LEMMA PassKeeps ==
  ASSUME IInv, NEW r \in Reqs, request[r].state = "chain", request[r].chain # <<>>,
         Head(request[r].chain) # "authLimit", Cleared(request[r], Head(request[r].chain)),
         NEW id \in Grants, id \cap Needed(request[r]) \subseteq request[r].held,
         NEW q2, q2 = [request[r] EXCEPT !.chain = Tail(@), !.id = id],
         request' = [request EXCEPT ![r] = q2],
         UNCHANGED <<live, rights, spent, windows, guesses>>
  PROVE  IInv'
<1> DEFINE q == request[r]
<1>1. q \in Requests /\ Sound(q, live, rights) /\ spent \in 0..Limit /\ guesses \in Nat
  BY DEF IInv, Typed
<1>2. q2 \in Requests /\ Sound(q2, live, rights) /\ (Ticket(q2) => Ticket(q))
  BY <1>1, Passing
<1>3. guesses' + Weight(q2) <= guesses + Weight(q) + (spent' - spent)
  BY <1>1, <1>2 DEF Weight
<1> QED  BY <1>1, <1>2, <1>3, RequestMoves

LEMMA ThrottleKeeps == ASSUME IInv, NEW r \in Reqs, Throttle(r) PROVE IInv'
<1> DEFINE q == request[r]
           q2 == [q EXCEPT !.chain = Tail(@), !.id = q.id]
<1>1. /\ q \in Requests /\ Sound(q, live, rights) /\ request \in [Reqs -> Requests]
      /\ spent \in 0..Limit /\ guesses \in Nat
  BY DEF IInv, Typed
<1>2. /\ q.state = "chain" /\ q.chain # <<>> /\ Head(q.chain) = "authLimit"
      /\ UNCHANGED <<live, rights, windows, guesses>>
  BY DEF Throttle, AtMiddleware
<1>3. CASE spent < Limit /\ spent' = spent + 1 /\ Pass(r)
  <2>1. Cleared(q, Head(q.chain))  BY <1>2 DEF Cleared, Plain
  <2>2. q.id \in Grants /\ q.id \cap Needed(q) \subseteq q.held
    BY <1>1, <1>2 DEF Requests, Sound, OnItsWay, UnderWay
  <2>3. q2 \in Requests /\ Sound(q2, live, rights)  BY <1>1, <1>2, <2>1, <2>2, Passing
  <2>4. q2 = [q EXCEPT !.chain = Tail(@)]  BY <1>1 DEF Requests
  <2>5. request' = [request EXCEPT ![r] = q2]  BY <1>1, <1>3, <2>4 DEF Pass
  <2> HIDE DEF q, q2
  <2>6. spent' \in 0..Limit /\ spent' - spent = 1 /\ guesses' = guesses
    BY <1>1, <1>2, <1>3, LimitAssumption
  <2>7. guesses' + Weight(q2) <= guesses + Weight(q) + (spent' - spent)
    <3>1. Weight(q) \in 0..1 /\ Weight(q2) \in 0..1  BY DEF Weight
    <3>2. spent \in Int /\ spent' = spent + 1 /\ guesses \in Int /\ guesses' = guesses
      BY <1>1, <1>3, <2>6, LimitAssumption
    <3> QED  BY <3>1, <3>2
  <2> QED  BY <1>1, <1>2, <2>3, <2>5, <2>6, <2>7, RequestMoves DEF q
<1>4. CASE spent = Limit /\ UNCHANGED spent /\ Answer(r, 429, "own")
  <2>1. 429 \in Int /\ "own" \in Texts  BY DEF Texts
  <2> QED  BY <1>2, <1>4, <2>1, NothingKept, AnswerKeeps
<1> QED  BY <1>3, <1>4 DEF Throttle

LEMMA RequireKeeps == ASSUME IInv, NEW r \in Reqs, Require(r) PROVE IInv'
<1> DEFINE q == request[r]
<1>1. q \in Requests /\ Sound(q, live, rights) /\ request \in [Reqs -> Requests]
      /\ rights \in Roles /\ live \in SUBSET Tokens
  BY DEF IInv, Typed
<1>2. /\ q.state = "chain" /\ q.chain # <<>> /\ Head(q.chain) = "Require"
      /\ UNCHANGED <<live, rights, spent, windows, guesses>>
  BY DEF Require, AtMiddleware
<1>3. CASE /\ q.token # NoToken /\ q.token \in live
           /\ request' = [request EXCEPT ![r].chain = Tail(@), ![r].id = rights[q.token]]
  <2>1. q.valid /\ rights[q.token] \cap Needed(q) \subseteq q.held
    BY <1>1, <1>2, <1>3 DEF Sound, UpToDate, UnderWay
  <2>2. rights[q.token] \in Grants  BY <1>1, <1>3 DEF Roles, Grants
  <2>3. Cleared(q, Head(q.chain))  BY <1>2, <2>1 DEF Cleared, Plain
  <2> DEFINE q2 == [q EXCEPT !.chain = Tail(@), !.id = rights[q.token]]
  <2>4. request' = [request EXCEPT ![r] = q2]  BY <1>1, <1>3
  <2> QED  BY <1>2, <2>1, <2>2, <2>3, <2>4, PassKeeps
<1>4. CASE Answer(r, 401, "Require")
  <2>1. 401 \in Int /\ "Require" \in Texts /\ ~(401 >= 500)  BY DEF Texts
  <2> QED  BY <1>2, <1>4, <2>1, NothingKept, AnswerKeeps
<1> QED  BY <1>3, <1>4 DEF Require

LEMMA RequirePermissionKeeps == ASSUME IInv, NEW r \in Reqs, RequirePermission(r) PROVE IInv'
<1> DEFINE q == request[r]
<1>1. q \in Requests /\ Sound(q, live, rights) /\ request \in [Reqs -> Requests]
  BY DEF IInv, Typed
<1>2. /\ q.state = "chain" /\ q.chain # <<>> /\ Head(q.chain) \notin Plain
      /\ UNCHANGED <<live, rights, spent, windows, guesses>>
  BY DEF RequirePermission, Plain
<1>3. CASE Wanted(r) \in q.id /\ Pass(r)
  <2>1. q.id \in Grants /\ q.id \cap Needed(q) \subseteq q.held
    BY <1>1, <1>2 DEF Requests, Sound, OnItsWay, UnderWay
  <2>2. Wanted(r) = Permission(Head(q.chain), q.own)  BY DEF Wanted, Permission
  <2>3. Cleared(q, Head(q.chain))  BY <1>2, <1>3, <2>1, <2>2 DEF Cleared, Plain
  <2> DEFINE q2 == [q EXCEPT !.chain = Tail(@), !.id = q.id]
  <2>4. q2 = [q EXCEPT !.chain = Tail(@)]  BY <1>1 DEF Requests
  <2>5. request' = [request EXCEPT ![r] = q2]  BY <1>1, <1>3, <2>4 DEF Pass
  <2>6. Head(q.chain) # "authLimit"  BY <1>2 DEF Plain
  <2> QED  BY <1>2, <2>1, <2>3, <2>5, <2>6, PassKeeps
<1>4. CASE Answer(r, 403, "own")
  <2>1. 403 \in Int /\ "own" \in Texts  BY DEF Texts
  <2> QED  BY <1>2, <1>4, <2>1, NothingKept, AnswerKeeps
<1> QED  BY <1>3, <1>4 DEF RequirePermission

\* What a call under way is followed by.
LEMMA NextCallKeeps ==
  ASSUME IInv, NEW r \in Reqs, request[r].state = "calling", Tail(request[r].calls) # <<>>,
         NEW err \in Errors, MayKeep(request[r], err),
         NextCall(r, err), UNCHANGED <<live, rights, spent, windows>>
  PROVE  IInv'
<1> DEFINE q == request[r]
           q2 == [q EXCEPT !.calls = Tail(@), !.err = err]
<1>1. /\ q \in Requests /\ Sound(q, live, rights) /\ request \in [Reqs -> Requests]
      /\ spent \in 0..Limit /\ guesses \in Nat
  BY DEF IInv, Typed
<1>2. /\ q2 \in Requests /\ Sound(q2, live, rights) /\ ~Ticket(q2)
      /\ Head(Tail(q.calls)).rpc \notin Throttled
  BY <1>1, CallingOn
<1>3. request' = [request EXCEPT ![r] = q2] /\ guesses' = guesses
  <2>1. request' = [request EXCEPT ![r].calls = Tail(@), ![r].err = err]  BY DEF NextCall
  <2>2. request' = [request EXCEPT ![r] = q2]  BY <1>1, <2>1
  <2>3. guesses' = guesses  BY <1>1, <1>2 DEF NextCall, Count
  <2> QED  BY <2>2, <2>3
<1> HIDE DEF q2
<1>4. guesses' + Weight(q2) <= guesses + Weight(q) + (spent' - spent)
  BY <1>1, <1>2, <1>3, LimitAssumption DEF Weight
<1> QED  BY <1>1, <1>2, <1>3, <1>4, RequestMoves

LEMMA HandleKeeps == ASSUME IInv, NEW r \in Reqs, Handle(r) PROVE IInv'
<1> DEFINE q == request[r]
           q2 == [q EXCEPT !.state = "calling"]
<1>1. /\ q \in Requests /\ Sound(q, live, rights) /\ request \in [Reqs -> Requests]
      /\ spent \in 0..Limit /\ guesses \in Nat
  BY DEF IInv, Typed
<1>2. /\ q.state = "chain" /\ q.chain = <<>> /\ UNCHANGED <<live, rights, spent, windows>>
  BY DEF Handle
<1>3. CASE Answer(r, 400, "own") /\ UNCHANGED guesses
  <2>1. 400 \in Int /\ "own" \in Texts  BY DEF Texts
  <2> QED  BY <1>2, <1>3, <2>1, NothingKept, AnswerKeeps
<1>4. CASE Answer(r, q.route.ok, "own") /\ UNCHANGED guesses
  <2>1. q.route.ok \in Int
    BY <1>1, <1>2, ExercisedFit DEF Sound, OnItsWay, UnderWay, Fit
  <2>2. "own" \in Texts  BY DEF Texts
  <2> QED  BY <1>2, <1>4, <2>1, <2>2, NothingKept, AnswerKeeps
<1>5. CASE /\ q.calls # <<>> /\ request' = [request EXCEPT ![r].state = "calling"]
           /\ Count(Head(q.calls))
  <2>1. /\ q2 \in Requests /\ Sound(q2, live, rights) /\ ~Ticket(q2)
        /\ Head(q.calls).rpc \in Throttled => Ticket(q)
    BY <1>1, <1>2, <1>5, Calling
  <2>2. request' = [request EXCEPT ![r] = q2]  BY <1>1, <1>5
  <2> HIDE DEF q2
  <2>3. guesses' \in Nat /\ guesses' <= guesses + Weight(q)
    BY <1>1, <1>5, <2>1 DEF Count, Weight
  <2>4. guesses' + Weight(q2) <= guesses + Weight(q) + (spent' - spent)
    BY <1>1, <1>2, <2>1, <2>3, LimitAssumption DEF Weight
  <2> QED  BY <1>1, <1>2, <2>1, <2>2, <2>3, <2>4, RequestMoves
<1> QED  BY <1>3, <1>4, <1>5 DEF Handle

\* The call under way is one of its route's.
LEMMA CallUnderWay ==
  ASSUME IInv, NEW r \in Reqs, request[r].state = "calling"
  PROVE  LET q == request[r]
             call == Head(q.calls)
         IN  /\ q.route \in Table /\ q.route.ok \in Int /\ q.calls # <<>> /\ Ordered(q.calls)
             /\ \E i \in DOMAIN q.route.calls : call = q.route.calls[i]
             /\ Discreet(call) /\ Guarded(call, Elements(q.route.chain))
             /\ call = q.calls[1]
             /\ call.heals => Tail(q.calls) = <<Healing>> /\ q.route.ok = 200
             /\ Kept(q)
<1> DEFINE q == request[r]
           call == Head(q.calls)
<1>1. /\ q.route \in Exercised /\ q.calls \in Seq(Elements(q.route.calls))
      /\ q.calls # <<>> /\ Ordered(q.calls) /\ Kept(q)
  BY DEF IInv, Sound, OnItsWay, UnderWay
<1>2. Fit(q.route) /\ q.route \in Table  BY <1>1, ExercisedFit
<1>3. call \in Elements(q.route.calls) /\ call = q.calls[1]  BY <1>1, SequenceStep
<1>4. \E i \in DOMAIN q.route.calls : call = q.route.calls[i]  BY <1>3 DEF Elements
<1>5. /\ Discreet(call) /\ Guarded(call, Elements(q.route.chain)) /\ q.route.ok \in Int
  BY <1>2, <1>4 DEF Fit
<1>6. call.heals => Tail(q.calls) = <<Healing>> /\ q.route.ok = 200
  <2>1. 1 \in DOMAIN q.calls  BY <1>1
  <2>2. call.heals => q.calls = MeCalls  BY <1>1, <1>3, <2>1 DEF Ordered
  <2>3. Tail(MeCalls) = <<Healing>>  BY DEF MeCalls
  <2>4. call.heals => q.route.ok = 200  BY <1>2, <1>4 DEF Fit
  <2> QED  BY <2>2, <2>3, <2>4
<1> QED  BY <1>1, <1>2, <1>3, <1>4, <1>5, <1>6

\* What the profile that getMe creates is answered with.
LEMMA OneHealing ==
  /\ Healing.stops = {} /\ Healing.onError.status = 0 /\ ~Healing.heals
  /\ Head(<<Healing>>) = Healing /\ Tail(<<Healing>>) = <<>>
BY DEF Healing, Do

LEMMA SucceedKeeps == ASSUME IInv, NEW r \in Reqs, Succeed(r) PROVE IInv'
<1> DEFINE q == request[r]
           call == Head(q.calls)
<1>1. q.state = "calling" /\ UNCHANGED <<live, rights, spent, windows>>  BY DEF Succeed
<1>2. q.route.ok \in Int /\ call.stops \subseteq Int /\ "own" \in Texts
  BY <1>1, CallUnderWay DEF Discreet, Texts
<1>3. q.err # "none" => call.stops = {} /\ q.route.ok = 200 /\ Tail(q.calls) = <<>>
  BY <1>1, CallUnderWay, OneHealing DEF Kept
<1>4. q.err = "none" \/ MayTell(q.err, q.route.ok, "own")  BY <1>3 DEF MayTell
<1>5. CASE (\E s \in call.stops : Answer(r, s, "own")) /\ UNCHANGED guesses
  BY <1>1, <1>2, <1>3, <1>5, AnswerKeeps
<1>6. CASE Answer(r, q.route.ok, "own") /\ UNCHANGED guesses
  BY <1>1, <1>2, <1>4, <1>6, AnswerKeeps
<1>7. CASE Tail(q.calls) # <<>> /\ NextCall(r, q.err)
  <2>1. q.err \in Errors /\ q.err = "none" /\ MayKeep(q, q.err)
    BY <1>3, <1>7 DEF Errors, MayKeep
  <2> QED  BY <1>1, <1>7, <2>1, NextCallKeeps
<1> QED  BY <1>5, <1>6, <1>7 DEF Succeed

LEMMA FailKeeps == ASSUME IInv, NEW r \in Reqs, NEW code \in Codes, Fail(r, code) PROVE IInv'
<1> DEFINE q == request[r]
           call == Head(q.calls)
           told == Told(r, code)
<1>1. q.state = "calling" /\ UNCHANGED <<live, rights, spent, windows>>  BY DEF Fail
<1>2. Discreet(call) /\ (call.heals => Tail(q.calls) = <<Healing>> /\ q.route.ok = 200)
  BY <1>1, CallUnderWay
<1>3. CASE call.heals /\ NextCall(r, code)
  <2>1. code \in Errors /\ Tail(q.calls) # <<>> /\ MayKeep(q, code)
    BY <1>2, <1>3 DEF Errors, MayKeep
  <2> QED  BY <1>1, <1>2, <1>3, <2>1, NextCallKeeps
<1>4. CASE call.onError.status # 0 /\ Answer(r, call.onError.status, call.onError.text) /\ UNCHANGED guesses
  <2>1. /\ call.onError.status \in Int /\ call.onError.text \in Texts
        /\ call.onError.status >= 500 => call.onError.text = "own"
    BY <1>2 DEF Discreet, Authors, Texts
  <2>2. q.err = "none"  BY <1>1, <1>4, CallUnderWay, OneHealing DEF Kept
  <2> QED  BY <1>1, <1>4, <2>1, <2>2, AnswerKeeps
<1>5. CASE Answer(r, HttpStatus(told), TextOf(told)) /\ UNCHANGED guesses
  <2>1. told \in Codes /\ (q.err # "none" => told = q.err)
    BY DEF IInv, Typed, Requests, Errors, Told
  <2> HIDE DEF told
  <2>2. HttpStatus(told) \in {400, 401, 403, 404, 409, 500}  BY DEF HttpStatus
  <2>3. HttpStatus(told) \in Int /\ (HttpStatus(told) >= 500 => HttpStatus(told) = 500)
    BY <2>2
  <2>4. TextOf(told) \in Texts /\ (HttpStatus(told) = 500 => TextOf(told) = "own")
    BY DEF TextOf, Texts
  <2>5. q.err = "none" \/ MayTell(q.err, HttpStatus(told), TextOf(told))
    BY <2>1 DEF MayTell
  <2> QED  BY <1>1, <1>5, <2>3, <2>4, <2>5, AnswerKeeps
<1> QED  BY <1>3, <1>4, <1>5 DEF Fail

--------------------------------------------------------------------------------
(* Every step *)

LEMMA Initially == Init => IInv
<1> SUFFICES ASSUME Init PROVE IInv  OBVIOUS
<1>1. Typed  BY IdleTyped, LimitAssumption, WindowsAssumption DEF Init, Typed, Roles
<1>2. \A r \in Reqs : request[r] = Idle  BY DEF Init
<1>3. Sound(Idle, live, rights)  BY IdleTyped DEF Sound, OnItsWay, UpToDate
<1>4. Tickets = {}  BY <1>2 DEF Tickets, Ticket, Idle
<1>5. Budget
  <2>1. IsFiniteSet(Tickets) /\ Cardinality(Tickets) = 0  BY <1>4, FS_EmptySet
  <2>2. Limit * (windows - 1) = 0  BY LimitAssumption DEF Init
  <2> QED  BY <2>1, <2>2 DEF Init, Budget
<1> QED  BY <1>1, <1>2, <1>3, <1>5 DEF IInv

LEMMA Stepping == IInv /\ [Next]_vars => IInv'
<1> SUFFICES ASSUME IInv, [Next]_vars PROVE IInv'  OBVIOUS
<1>1. ASSUME NEW r \in Reqs, NEW route \in Exercised, NEW t \in Tokens \cup {NoToken},
             NEW own \in BOOLEAN, Arrive(r, route, t, own)
      PROVE  IInv'
  BY <1>1, ArriveKeeps
<1>2. ASSUME NEW t \in Tokens, NEW may \in Rights, NEW alive \in {{}, {t}},
             AuthChanges(t, alive, may)
      PROVE  IInv'
  BY <1>2, AuthChangesKeep
<1>3. CASE NewWindow  BY <1>3, NewWindowKeeps
<1>4. ASSUME NEW r \in Reqs, Progress(r) PROVE IInv'
  BY <1>4, ThrottleKeeps, RequireKeeps, RequirePermissionKeeps, HandleKeeps, SucceedKeeps,
     FailKeeps DEF Progress
<1>5. CASE UNCHANGED vars
  BY <1>5 DEF vars, IInv, Typed, Sound, UpToDate, Budget, Tickets
<1> QED  BY <1>1, <1>2, <1>3, <1>4, <1>5 DEF Next

\* The invariant the theorems below rest on.
THEOREM Invariance == Spec => []IInv
BY Initially, Stepping, PTL DEF Spec

\* The types of the state, in particular that an answer's text is the gateway's,
\* a service's or that of Require.
THEOREM TypeCorrect == Spec => []TypeOK
<1>1. IInv => TypeOK
  BY DEF IInv, Typed, TypeOK, Roles, Requests, States, Routes, Bearers, Grants, Powers, Flags,
     Texts, Errors
<1> QED  BY <1>1, Invariance, PTL

\* No handler's call (router.go) is under way that its caller was not entitled to at some
\* moment since the request arrived, however tokens and permissions change meanwhile.
THEOREM CallsAuthorized == Spec => []AuthorizedCalls
<1>1. IInv => AuthorizedCalls
  <2> SUFFICES ASSUME IInv, NEW r \in Reqs, request[r].state = "calling"
               PROVE  LET q == request[r]
                          any == Licences(Head(q.calls), q.own)
                      IN  /\ q.valid \/ Head(q.calls).rpc \in Public
                          /\ any = {} \/ any \cap q.held # {}
    BY DEF AuthorizedCalls
  <2> DEFINE q == request[r]
             call == Head(q.calls)
             mws == Elements(q.route.chain)
  <2>1. /\ Guarded(call, mws)
        /\ \E i \in DOMAIN q.route.calls : call = q.route.calls[i]
    BY CallUnderWay
  <2>2. \A m \in mws : Cleared(q, m)
    <3>1. Elements(q.chain) = {}
      BY ChainElements DEF IInv, Sound, OnItsWay, UnderWay
    <3> QED  BY <3>1 DEF IInv, Sound, OnItsWay, UnderWay
  <2>3. q.own \in BOOLEAN  BY DEF IInv, Typed, Requests, Flags
  <2>4. Licences(call, q.own) \subseteq Needed(q)  BY <2>1 DEF Needed
  <2> HIDE DEF q, call, mws
  <2>5. q.valid \/ call.rpc \in Public  BY <2>1, <2>2 DEF Guarded, Cleared
  <2>6. ASSUME Licences(call, q.own) # {} PROVE Licences(call, q.own) \cap q.held # {}
    <3>1. PICK m \in mws \ Plain : Permission(m, q.own) \in Licences(call, q.own)
      BY <2>1, <2>3, <2>6 DEF Guarded
    <3>2. Permission(m, q.own) \in q.held  BY <2>2, <2>4, <3>1 DEF Cleared
    <3> QED  BY <3>1, <3>2
  <2> QED  BY <2>5, <2>6 DEF q, call
<1> QED  BY <1>1, Invariance, PTL

\* The login pages, the public auth endpoints and the change of password draw on the
\* one limiter of New: the calls in Throttled that are made never exceed what its
\* windows have admitted.
THEOREM GuessesBounded == Spec => []SharedBudget
<1>1. IInv => SharedBudget
  <2> SUFFICES ASSUME IInv PROVE guesses <= Limit * windows  BY DEF SharedBudget
  <2>1. /\ Limit \in Nat /\ windows \in Nat /\ spent \in 0..Limit /\ guesses \in Nat
    BY LimitAssumption DEF IInv, Typed
  <2>2. Cardinality(Tickets) \in Nat  BY FS_CardinalityType DEF IInv, Budget
  <2>3. guesses + Cardinality(Tickets) <= Limit * (windows - 1) + spent
    BY DEF IInv, Budget
  <2>4. Limit * windows = Limit * (windows - 1) + Limit  BY <2>1
  <2> QED  BY <2>1, <2>2, <2>3, <2>4
<1> QED  BY <1>1, Invariance, PTL

\* A 5xx never carries a service's text, whichever call failed with whichever code
\* (writeGRPCError and the handlers' own messages).
THEOREM DetailsKept == Spec => []NoDetailLeaks
<1>1. IInv => NoDetailLeaks  BY DEF IInv, Sound, Tactful, NoDetailLeaks
<1> QED  BY <1>1, Invariance, PTL

\* Whatever its second call says, getMe answers 200 or with the error of the first
\* (router.go, writeGRPCError(c, err)).
THEOREM KeptErrorTold == Spec => []FirstErrorTold
<1>1. IInv => FirstErrorTold
  BY DEF IInv, Sound, Tactful, MayTell, FirstErrorTold
<1> QED  BY <1>1, Invariance, PTL
================================================================================
