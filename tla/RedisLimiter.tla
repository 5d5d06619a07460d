------------------------------ MODULE RedisLimiter ------------------------------
(***************************************************************************)
(* internal/middleware/ratelimit_redis.go: the limiter of several replicas *)
(* of the gateway.  Hits are counted in Redis under a key made of the IP   *)
(* and the number of the current bucket by the replica's own wall clock;   *)
(* a replica whose script fails asks an in-memory limiter of its own.      *)
(* The fallback works on LimiterCore; here its request reads the clock and *)
(* holds the lock in the same tick, RateLimiter has it wait.               *)
(***************************************************************************)
EXTENDS LimiterCore, FiniteSets

CONSTANTS
  Replicas,
  Ips,
  Reqs,       \* names for the requests waiting for Redis at one time
  Limits,     \* the values AUTH_RATE_LIMIT may have
  MaxDelay,   \* longest time between reading the clock and the script's run
  MaxSkew,    \* how far the wall clock of a replica may be ahead of another's
  MaxCount,   \* bound: no new request of an IP with a counter that has reached it
  MaxFails,   \* bound: script calls that fail
  MaxRestarts,\* bound: replicas that are started anew
  MaxTime     \* bound: the clock stops here

ASSUME DelayAssumption == {MaxDelay, MaxSkew, MaxCount, MaxFails, MaxRestarts, MaxTime} \subseteq Nat
ASSUME LimitAssumption == Limits \subseteq Int

\* The deployment has finitely many replicas.
ASSUME ReplicasAssumption == IsFiniteSet(Replicas)

\* AUTH_RATE_WINDOW_SECONDS is a number of seconds.
ASSUME WindowInSeconds == Window % Second = 0

\* Whole seconds of the window, at least one.
Secs == IF Window \div Second < 1 THEN 1 ELSE Window \div Second

\* EXPIRE's argument in ticks, which is the length of a bucket too.
Bucket == Secs * Second

\* Redis answers, and clocks agree, to within a bucket's length.
ASSUME BucketAssumption == MaxDelay + MaxSkew <= Bucket

VARIABLES
  limit,      \* rl.limit, the same on every replica
  clock,
  skew,       \* replica -> how far ahead its wall clock is
  counters,   \* Redis: <<ip, bucket>> -> [count, expires]
  local,      \* replica -> the fallback's table and last sweep
  waiting,    \* requests before the script: replica, ip, bucket, and when it was read
  passed,     \* history: <<ip, bucket>> -> requests admitted by Redis, for as long
              \* as requests may come
  byRedis,    \* history: what Redis has admitted in the last Window ticks
  byReplica,  \* history: what the fallbacks have admitted in the last Window ticks
  fails,      \* script calls that have failed
  restarts    \* replicas started anew

vars == <<limit, clock, skew, counters, local, waiting, passed, byRedis, byReplica, fails, restarts>>

(***************************************************************************)
(* The histories name an admission after the count it was given: Redis     *)
(* gives n to one hit of a key, and a limiter to one hit of a window.      *)
(* began is when that key or window began, at is when the request passed,  *)
(* end tells which restart ended the limiter, 0 if none has.               *)
(***************************************************************************)
RedisAdmission == [ip : Ips, bucket : Nat, began : Int, n : Nat \ {0}, at : Nat]
ReplicaAdmission == [rep : Replicas, ip : Ips, began : Int, n : Nat \ {0}, at : Nat, end : Nat]

BucketOf(rep) == (clock + skew[rep]) \div Bucket

TypeOK ==
  /\ limit \in Limits
  /\ clock \in Nat
  /\ skew \in [Replicas -> 0..MaxSkew]
  /\ DOMAIN counters \subseteq Ips \X Nat
  /\ counters \in [DOMAIN counters -> [count : Nat \ {0}, expires : Nat]]
  /\ \A rep \in Replicas : IsTable(local[rep].hits, Ips) /\ local[rep].lastSwip \in Int
  /\ DOMAIN waiting \subseteq Reqs
  /\ waiting \in [DOMAIN waiting -> [rep : Replicas, ip : Ips, bucket : Nat, read : Nat]]
  /\ DOMAIN passed \subseteq Ips \X Nat
  /\ byRedis \subseteq RedisAdmission
  /\ byReplica \subseteq ReplicaAdmission
  /\ fails \in 0..MaxFails /\ restarts \in 0..MaxRestarts

\* The fallback of a replica that has just started.
NewRateLimiter == [hits |-> [ip \in {} |-> [count |-> 0, reset |-> 0]], lastSwip |-> -Window]

Init ==
  /\ limit \in Limits
  /\ clock = 0
  /\ skew \in [Replicas -> 0..MaxSkew]
  /\ counters = [k \in {} |-> [count |-> 0, expires |-> 0]]
  /\ local = [rep \in Replicas |-> NewRateLimiter]
  /\ waiting = [r \in {} |-> [rep |-> 0, ip |-> 0, bucket |-> 0, read |-> 0]]
  /\ passed = [k \in {} |-> 0]
  /\ byRedis = {} /\ byReplica = {}
  /\ fails = 0 /\ restarts = 0

At(f, x, default) == IF x \in DOMAIN f THEN f[x] ELSE default
Set(f, x, v) == [y \in DOMAIN f \cup {x} |-> IF y = x THEN v ELSE f[y]]

\* A hit is let through that Redis, or a replica's own limiter, has just counted.
RedisAdmits(key, e) ==
  byRedis' = byRedis \cup {[ip |-> key[1], bucket |-> key[2], began |-> e.expires - Bucket,
                            n |-> e.count, at |-> clock]}

ReplicaAdmits(rep, ip, w) ==
  byReplica' = byReplica \cup {[rep |-> rep, ip |-> ip, began |-> w.reset - Window,
                                n |-> w.count, at |-> clock, end |-> 0]}

Done(r) == waiting' = Restrict(waiting, DOMAIN waiting \ {r})

--------------------------------------------------------------------------------
\* A limit of zero or less admits everything and counts nothing.
Bypass == limit <= 0 /\ UNCHANGED vars

\* Limit() up to the call of the script.
Receive(r, rep, ip) ==
  /\ limit > 0
  /\ r \notin DOMAIN waiting
  /\ At(counters, <<ip, BucketOf(rep)>>, [count |-> 0]).count < MaxCount
  /\ At(local[rep].hits, ip, [count |-> 0]).count < MaxCount
  /\ waiting' = Set(waiting, r, [rep |-> rep, ip |-> ip, bucket |-> BucketOf(rep), read |-> clock])
  /\ UNCHANGED <<limit, clock, skew, counters, local, passed, byRedis, byReplica, fails, restarts>>

\* Mutated forms of IncrExpire.
IncrNoExpire(key, n) ==
  IF key \in DOMAIN counters THEN [counters[key] EXCEPT !.count = @ + n]
                             ELSE [count |-> n, expires |-> MaxTime + Bucket + 1]

IncrExpireSoon(key, n) ==
  IF key \in DOMAIN counters THEN [counters[key] EXCEPT !.count = @ + n]
                             ELSE [count |-> n, expires |-> clock + 1]

IncrFromZero(key, n) ==
  IF key \in DOMAIN counters THEN [counters[key] EXCEPT !.count = @ + n]
                             ELSE [count |-> n - 1, expires |-> clock + Bucket]

\* What n runs of the script leave of a key: each INCRs, and the one that finds
\* the key at its first hit EXPIREs it.
IncrExpire(key, n) ==
  IF key \in DOMAIN counters THEN [counters[key] EXCEPT !.count = @ + n]
                             ELSE [count |-> n, expires |-> clock + Bucket]

KeyOf(r) == <<waiting[r].ip, waiting[r].bucket>>

\* The scripts of some requests run.
Ran(run) ==
  LET keys    == {KeyOf(r) : r \in run}
      hits(k) == Cardinality({r \in run : KeyOf(r) = k})
  IN  counters' = [k \in DOMAIN counters \cup keys |->
                     IF k \in keys THEN IncrExpire(k, hits(k)) ELSE counters[k]]

\* The script has run and its answer has arrived.
Run(r) ==
  /\ r \in DOMAIN waiting
  /\ LET key == KeyOf(r)
     IN  /\ Ran({r})
         /\ \/ /\ counters'[key].count > limit
               /\ UNCHANGED <<passed, byRedis>>
            \/ /\ counters'[key].count <= limit
               /\ passed' = Set(passed, key, At(passed, key, 0) + 1)
               /\ RedisAdmits(key, counters'[key])
  /\ Done(r)
  /\ UNCHANGED <<limit, clock, skew, local, byReplica, fails, restarts>>

\* A mutated form of Fallback.
FallbackOpen(rep, ip) ==
  /\ ReplicaAdmits(rep, ip, [count |-> Cardinality(byReplica) + 1, reset |-> clock + Window])
  /\ UNCHANGED local

\* rl.fallback(c)
Fallback(rep, ip) ==
  LET mine == local[rep]
      due  == SweepDue(mine.lastSwip, clock)
      kept == IF due THEN Sweep(mine.hits, clock) ELSE mine.hits
      w    == CountHit(kept, ip, clock)
  IN  /\ local' = [local EXCEPT ![rep] = [hits     |-> Store(kept, ip, w),
                                          lastSwip |-> IF due THEN clock ELSE mine.lastSwip]]
      /\ IF w.count > limit THEN UNCHANGED byReplica ELSE ReplicaAdmits(rep, ip, w)

\* The call fails, before or after the script has run: Redis is down, the answer
\* is lost, or the client has gone and its context is cancelled.
Fail(r) ==
  /\ r \in DOMAIN waiting
  /\ fails < MaxFails
  /\ fails' = fails + 1
  /\ \/ UNCHANGED counters
     \/ Ran({r})
  /\ Fallback(waiting[r].rep, waiting[r].ip)
  /\ Done(r)
  /\ UNCHANGED <<limit, clock, skew, passed, byRedis, restarts>>

\* The limiter of rep ends, and with it the life its admissions belong to.
Ending(rep, a) == IF a.rep = rep /\ a.end = 0 THEN [a EXCEPT !.end = restarts + 1] ELSE a

\* A replica dies and is started again: its limiter and the requests it was
\* serving are gone, and their scripts may have run or not; Redis keeps its keys.
Restart(rep) ==
  /\ restarts < MaxRestarts
  /\ restarts' = restarts + 1
  /\ local' = [local EXCEPT ![rep] = NewRateLimiter]
  /\ LET lost == {r \in DOMAIN waiting : waiting[r].rep = rep}
     IN  /\ waiting' = Restrict(waiting, DOMAIN waiting \ lost)
         /\ \E run \in SUBSET lost : Ran(run)
  /\ byReplica' = {Ending(rep, a) : a \in byReplica}
  /\ UNCHANGED <<limit, clock, skew, passed, byRedis, fails>>

\* Time passes, and Redis drops the keys whose time has come.
Tick ==
  /\ clock < MaxTime
  /\ \A r \in DOMAIN waiting : clock - waiting[r].read < MaxDelay
  /\ clock' = clock + 1
  /\ counters' = Restrict(counters, {k \in DOMAIN counters : counters[k].expires > clock + 1})
  /\ byRedis' = {a \in byRedis : clock + 1 < a.at + Window}
  /\ byReplica' = {a \in byReplica : clock + 1 < a.at + Window}
  /\ passed' = Restrict(passed, {k \in DOMAIN passed : (clock + 1 - MaxDelay) \div Bucket <= k[2]})
  /\ UNCHANGED <<limit, skew, local, waiting, fails, restarts>>

\* The bounds are reached and every request has been answered.
Horizon == clock = MaxTime /\ DOMAIN waiting = {} /\ UNCHANGED vars

Next ==
  \/ \E r \in Reqs, rep \in Replicas, ip \in Ips : Receive(r, rep, ip)
  \/ \E r \in Reqs : Run(r) \/ Fail(r)
  \/ \E rep \in Replicas : Restart(rep)
  \/ Bypass
  \/ Tick
  \/ Horizon

Spec == Init /\ [][Next]_vars

--------------------------------------------------------------------------------
(* Properties *)

\* "the limit is enforced consistently no matter which replica serves a request":
\* of the requests of an IP that fall into one bucket Redis admits at most limit.
BucketLimit == \A k \in DOMAIN passed : passed[k] <= limit

\* A request may reach Redis when the key of its bucket has already expired, and
\* is counted from one again; but no bucket is ever counted under a third key.
SharedBound == \A k \in DOMAIN passed : passed[k] <= 2 * limit

\* "atomic INCR + first-write EXPIRE": no key is left behind.  Every key expires
\* within a bucket's length, so that an IP has few however many replicas, late
\* requests and lost answers there are.
KeysExpire ==
  /\ \A k \in DOMAIN counters : counters[k].expires \in (clock + 1)..(clock + Bucket)
  /\ \A ip \in Ips : Cardinality({k \in DOMAIN counters : k[1] = ip}) <= 3

\* "a Redis outage degrades to per-instance limiting instead of disabling limiting
\* entirely -- a brute-force can't ride out a Redis blip": however calls fail and
\* whoever serves them, what passes in a window's time is bounded by what Redis
\* and each replica's own limiter admit.  Redis admits in that time under at most
\* five keys: three begun in it, one of a bucket, and two begun before, whose first
\* hit was earlier.  A limiter has two windows in it, one of them begun before.  A
\* replica that starts anew adds one allowance of its own, and none of Redis'.
OutageBound ==
  limit > 0 => \A ip \in Ips :
    Cardinality({a \in byRedis : a.ip = ip}) + Cardinality({a \in byReplica : a.ip = ip})
      <= 5 * limit - 2 + Cardinality(Replicas) * (2 * limit - 1) + restarts * limit
================================================================================
