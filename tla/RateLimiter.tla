------------------------------ MODULE RateLimiter ------------------------------
(***************************************************************************)
(* internal/middleware/ratelimit.go: the in-memory per-IP limiter of one   *)
(* gateway process, hit by concurrent requests.  A request reads the clock *)
(* BEFORE it takes rl.mu, so the `now' it works with under the lock may be *)
(* older than the clock, and requests may take the lock in another order   *)
(* than they read the clock.  Everything between Lock and Unlock touches   *)
(* hits and lastSwip only there, so it is one action.                      *)
(***************************************************************************)
EXTENDS LimiterCore

CONSTANTS
  Ips,        \* client addresses
  Reqs,       \* names for the requests waiting for rl.mu at one time
  Limits,     \* the values AUTH_RATE_LIMIT may have
  MaxDelay,   \* longest time, in ticks, between reading the clock and holding rl.mu
  MaxCount,   \* bound: no new request of an IP whose count has reached it
  MaxTime     \* bound: the clock stops here

ASSUME DelayAssumption == MaxDelay \in Nat /\ MaxDelay <= Window
ASSUME LimitAssumption == Limits \subseteq Int
ASSUME BoundAssumption == MaxCount \in Nat /\ MaxTime \in Nat

VARIABLES
  limit,      \* rl.limit
  clock,
  hits,       \* rl.hits
  lastSwip,   \* rl.lastSwip
  waiting,    \* requests before Lock: the ip and the clock each has read
  answer      \* the latest decision of this tick, a set of at most one record

vars == <<limit, clock, hits, lastSwip, waiting, answer>>

Readings == [ip : Ips, now : Nat]
Answers == [ip : Ips, verdict : {"admitted", "rejected"}, retry : Nat]

TypeOK ==
  /\ limit \in Limits
  /\ clock \in Nat
  /\ IsTable(hits, Ips)
  /\ lastSwip \in Int
  /\ DOMAIN waiting \subseteq Reqs
  /\ waiting \in [DOMAIN waiting -> Readings]
  /\ \A a \in answer : a \in Answers

\* NewRateLimiter.  The zero time.Time of lastSwip is further than any window
\* in the past; -Window is the latest value with which a first sweep is due.
Init ==
  /\ limit \in Limits
  /\ clock = 0
  /\ hits = [ip \in {} |-> [count |-> 0, reset |-> 0]]
  /\ lastSwip = -Window
  /\ waiting = [r \in {} |-> [ip |-> 0, now |-> 0]]
  /\ answer = {}

Decision(ip, verdict, retry) ==
  answer' = {[ip |-> ip, verdict |-> verdict, retry |-> retry]}

--------------------------------------------------------------------------------
\* Limit() with a limit of zero or less: straight to c.Next().
Bypass(ip) ==
  /\ limit <= 0
  /\ Decision(ip, "admitted", 0)
  /\ UNCHANGED <<limit, clock, hits, lastSwip, waiting>>

\* Limit() up to rl.mu.Lock(): the ip and the time are in local variables.
Receive(r, ip) ==
  /\ limit > 0
  /\ r \notin DOMAIN waiting
  /\ ip \in DOMAIN hits => hits[ip].count < MaxCount
  /\ waiting' = [q \in DOMAIN waiting \cup {r} |->
                   IF q = r THEN [ip |-> ip, now |-> clock] ELSE waiting[q]]
  /\ UNCHANGED <<limit, clock, hits, lastSwip, answer>>

\* From Lock to the answer: sweep, find or start the window, count, decide.
Count(r) ==
  /\ r \in DOMAIN waiting
  /\ LET ip   == waiting[r].ip
         now  == waiting[r].now
         due  == SweepDue(lastSwip, now)
         kept == IF due THEN Sweep(hits, now) ELSE hits
         w    == CountHit(kept, ip, now)
     IN  /\ lastSwip' = IF due THEN now ELSE lastSwip
         /\ hits' = Store(kept, ip, w)
         /\ \/ /\ w.count > limit
               /\ Decision(ip, "rejected", RetryAfter(w.reset - clock))
            \/ /\ w.count <= limit
               /\ Decision(ip, "admitted", 0)
  /\ waiting' = [q \in DOMAIN waiting \ {r} |-> waiting[q]]
  /\ UNCHANGED <<limit, clock>>

\* Time passes, but no request waits for rl.mu longer than MaxDelay.
Tick ==
  /\ clock < MaxTime
  /\ \A r \in DOMAIN waiting : clock - waiting[r].now < MaxDelay
  /\ clock' = clock + 1
  /\ answer' = {}
  /\ UNCHANGED <<limit, hits, lastSwip, waiting>>

\* The bounds are reached and every request has been answered.
Horizon ==
  /\ clock = MaxTime
  /\ DOMAIN waiting = {}
  /\ UNCHANGED vars

Next ==
  \/ \E ip \in Ips : Bypass(ip)
  \/ \E r \in Reqs, ip \in Ips : Receive(r, ip)
  \/ \E r \in Reqs : Count(r)
  \/ Tick
  \/ Horizon

Spec == Init /\ [][Next]_vars

--------------------------------------------------------------------------------
(* Properties *)

\* The remembered windows as FixedWindow sees them: rejected hits go on
\* counting in the code but do not pass.
PromisedWindows ==
  [ip \in DOMAIN hits |->
     [end    |-> hits[ip].reset,
      passed |-> IF hits[ip].count < limit THEN hits[ip].count ELSE limit]]

Promise == INSTANCE FixedWindow WITH windows <- PromisedWindows, Slack <- MaxDelay

\* "NewRateLimiter allows `limit` requests per `window` per IP" holds window
\* by window, with no unjust refusal, although requests take rl.mu with stale
\* clocks and the sweep deletes other requests' windows.
ImplementsFixedWindow == Promise!Spec

\* "sweep drops expired windows occasionally to bound memory": after every
\* decision the table holds no window that ended more than a window (and a
\* lock delay) earlier, so it never outgrows the IPs seen in two windows.
MemoryBound ==
  limit > 0 /\ answer # {} =>
    \A ip \in DOMAIN hits : hits[ip].reset + Window + MaxDelay > clock
================================================================================
