--------------------------- MODULE RedisLimiterProofs ---------------------------
(***************************************************************************)
(* RedisLimiter for every number of replicas, addresses and waiting        *)
(* requests, every limit, window, delay and skew: a bucket is counted      *)
(* under two keys at most, no address ever has more than three, and what   *)
(* passes of an address in a window's time, Redis up or down, is bounded.  *)
(*                                                                         *)
(* The first argument is about when a key may come to be.  The requests of *)
(* a bucket reach Redis within two of its lengths from the earliest moment *)
(* at which a replica may read it (Base): time for two keys, one after the *)
(* other, and not for a third.  The second one counts: the admissions of a *)
(* window's time have names, and each name gets a slot of its own.         *)
(***************************************************************************)
EXTENDS RedisLimiter, FiniteSetTheorems, TLAPS

Keys == Ips \X Nat
Entries == [count : Nat \ {0}, expires : Nat]
Waiters == [rep : Replicas, ip : Ips, bucket : Nat, read : Nat]
Tables == UNION {[ips -> IpWindow] : ips \in SUBSET Ips}
Limiters == [hits : Tables, lastSwip : Int]

Typed ==
  /\ limit \in Limits
  /\ clock \in Nat
  /\ skew \in [Replicas -> 0..MaxSkew]
  /\ DOMAIN counters \subseteq Keys /\ counters \in [DOMAIN counters -> Entries]
  /\ local \in [Replicas -> Limiters]
  /\ DOMAIN waiting \subseteq Reqs /\ waiting \in [DOMAIN waiting -> Waiters]
  /\ IsFiniteSet(DOMAIN waiting)
  /\ DOMAIN passed \subseteq Keys /\ passed \in [DOMAIN passed -> Nat]
  /\ byRedis \subseteq RedisAdmission /\ byReplica \subseteq ReplicaAdmission
  /\ fails \in 0..MaxFails /\ restarts \in 0..MaxRestarts

--------------------------------------------------------------------------------
(* The inductive invariant *)

\* The earliest moment at which a replica's clock may show bucket b.
Base(b) == b * Bucket - MaxSkew

\* A waiting request has read the clock a while ago, while its bucket lasted.
Fresh ==
  \A r \in DOMAIN waiting :
    LET q == waiting[r]
    IN  /\ q.read <= clock /\ clock <= q.read + MaxDelay
        /\ Base(q.bucket) <= q.read /\ q.read < Base(q.bucket) + Bucket + MaxSkew

\* A key was set within two lengths of its bucket from the bucket's base.
Lives(k, e, now) ==
  /\ e.expires \in (now + 1)..(now + Bucket)
  /\ Base(k[2]) + Bucket <= e.expires /\ e.expires < Base(k[2]) + 3 * Bucket

Living == \A k \in DOMAIN counters : Lives(k, counters[k], clock)

\* What Redis may have admitted of bucket b: under the keys that have gone by
\* now, and under a key that is there.
GoneBy(b, now) ==
  IF now < Base(b) + Bucket THEN 0 ELSE IF now < Base(b) + 2 * Bucket THEN limit ELSE 2 * limit

Under(b, e) ==
  (IF e.count < limit THEN e.count ELSE limit)
    + (IF e.expires < Base(b) + 2 * Bucket THEN 0 ELSE limit)

Cap(k) == IF k \in DOMAIN counters THEN Under(k[2], counters[k]) ELSE GoneBy(k[2], clock)

Shared == limit > 0 => \A k \in Keys : At(passed, k, 0) <= Cap(k)

\* A limit of zero or less asks Redis nothing.
Unasked == limit <= 0 => DOMAIN waiting = {} /\ DOMAIN passed = {}

IInv == Typed /\ Fresh /\ Living /\ Shared /\ Unasked

--------------------------------------------------------------------------------
(* Numbers *)

LEMMA BucketFacts ==
  /\ Window \in Nat \ {0} /\ Second \in Nat \ {0} /\ Bucket \in Nat \ {0}
  /\ MaxDelay \in Nat /\ MaxSkew \in Nat /\ MaxDelay + MaxSkew <= Bucket
<1>1. Window \in Nat \ {0} /\ Second \in Nat \ {0} /\ MaxDelay \in Nat /\ MaxSkew \in Nat
  BY WindowAssumption, SecondAssumption, DelayAssumption
<1>2. Secs \in Nat \ {0}
  BY <1>1 DEF Secs
<1>3. Secs * Second \in Nat \ {0}
  BY <1>1, <1>2
<1> QED
  BY <1>1, <1>3, BucketAssumption DEF Bucket

LEMMA Division ==
  ASSUME NEW x \in Nat, NEW d \in Nat \ {0}
  PROVE  x \div d \in Nat /\ (x \div d) * d <= x /\ x < (x \div d) * d + d
OBVIOUS

LEMMA BaseInt == ASSUME NEW b \in Nat PROVE Base(b) \in Int
BY BucketFacts DEF Base

\* The buckets that replicas may read at one moment.
LEMMA ReadInTime ==
  ASSUME Typed, NEW rep \in Replicas
  PROVE  LET b == BucketOf(rep)
         IN  b \in Nat /\ Base(b) <= clock /\ clock < Base(b) + Bucket + MaxSkew
<1> DEFINE now == clock + skew[rep]
           b == now \div Bucket
<1>1. clock \in Nat /\ skew[rep] \in 0..MaxSkew /\ now \in Nat
  BY BucketFacts DEF Typed
<1>2. b \in Nat /\ b * Bucket <= now /\ now < b * Bucket + Bucket
  BY <1>1, BucketFacts, Division
<1>3. b = BucketOf(rep)
  BY DEF BucketOf
<1> HIDE DEF b
<1>4. Base(b) = b * Bucket - MaxSkew /\ b * Bucket \in Int
  BY <1>2, BucketFacts DEF Base
<1>5. Base(b) <= clock /\ clock < Base(b) + Bucket + MaxSkew
  BY <1>1, <1>2, <1>4, BucketFacts
<1> QED
  BY <1>2, <1>3, <1>5

--------------------------------------------------------------------------------
(* Scripts *)

\* A request whose script runs: its key, and how late it may be.
LEMMA InTime ==
  ASSUME IInv, NEW r \in DOMAIN waiting
  PROVE  /\ waiting[r] \in Waiters /\ KeyOf(r) \in Keys /\ KeyOf(r)[2] = waiting[r].bucket
         /\ Base(KeyOf(r)[2]) <= clock /\ clock < Base(KeyOf(r)[2]) + 2 * Bucket
<1>1. waiting[r] \in Waiters /\ clock \in Nat
  BY DEF IInv, Typed
<1>2. KeyOf(r) \in Keys /\ KeyOf(r)[2] = waiting[r].bucket
  BY <1>1 DEF KeyOf, Keys, Waiters
<1>3. waiting[r].bucket \in Nat /\ waiting[r].read \in Nat
  BY <1>1 DEF Waiters
<1>4. Base(waiting[r].bucket) \in Int
  BY <1>3, BaseInt
<1>5. /\ waiting[r].read <= clock /\ clock <= waiting[r].read + MaxDelay
      /\ Base(waiting[r].bucket) <= waiting[r].read
      /\ waiting[r].read < Base(waiting[r].bucket) + Bucket + MaxSkew
  BY DEF IInv, Fresh
<1>6. Base(waiting[r].bucket) <= clock /\ clock < Base(waiting[r].bucket) + 2 * Bucket
  BY <1>1, <1>3, <1>4, <1>5, BucketFacts
<1> QED
  BY <1>1, <1>2, <1>6

\* What scripts leave in Redis: keys stay, with more hits and the same end, and
\* a new one starts now.
LEMMA ScriptsRun ==
  ASSUME IInv, NEW run \in SUBSET DOMAIN waiting, Ran(run)
  PROVE  /\ DOMAIN counters' = DOMAIN counters \cup {KeyOf(r) : r \in run}
         /\ DOMAIN counters' \subseteq Keys /\ counters' \in [DOMAIN counters' -> Entries]
         /\ \A k \in DOMAIN counters :
              /\ counters'[k].expires = counters[k].expires
              /\ counters'[k].count >= counters[k].count
         /\ \A k \in DOMAIN counters' \ DOMAIN counters :
              /\ counters'[k].expires = clock + Bucket
              /\ Base(k[2]) <= clock /\ clock < Base(k[2]) + 2 * Bucket
<1> DEFINE keys == {KeyOf(r) : r \in run}
           of(k) == {r \in run : KeyOf(r) = k}
           hits(k) == Cardinality(of(k))
<1>1. Typed
  BY DEF IInv
<1>2. counters' = [k \in DOMAIN counters \cup keys |->
                     IF k \in keys THEN IncrExpire(k, hits(k)) ELSE counters[k]]
  BY DEF Ran
<1>3. \A r \in run : KeyOf(r) \in Keys
  BY InTime
<1>4. \A k \in keys : hits(k) \in Nat \ {0}
  <2>1. SUFFICES ASSUME NEW k \in keys PROVE hits(k) \in Nat \ {0}
    OBVIOUS
  <2>2. of(k) \subseteq DOMAIN waiting /\ of(k) # {}
    OBVIOUS
  <2>3. IsFiniteSet(of(k))
    BY <1>1, <2>2, FS_Subset DEF Typed
  <2> QED
    BY <2>2, <2>3, FS_CardinalityType, FS_EmptySet
<1> HIDE DEF hits
<1>5. DOMAIN counters' = DOMAIN counters \cup keys /\ DOMAIN counters' \subseteq Keys
  BY <1>1, <1>2, <1>3 DEF Typed
<1>6. ASSUME NEW k \in DOMAIN counters
      PROVE  /\ counters'[k] \in Entries /\ counters'[k].expires = counters[k].expires
             /\ counters'[k].count >= counters[k].count
  <2>1. counters[k] \in Entries /\ counters[k].count \in Nat \ {0}
    BY <1>1 DEF Typed, Entries
  <2>2. CASE k \in keys
    <3>1. counters'[k] = [counters[k] EXCEPT !.count = counters[k].count + hits(k)]
      BY <1>2, <2>2 DEF IncrExpire
    <3>2. counters[k].count + hits(k) \in Nat \ {0} /\ counters[k].count + hits(k) >= counters[k].count
      BY <1>4, <2>1, <2>2
    <3> QED
      BY <2>1, <3>1, <3>2 DEF Entries
  <2>3. CASE k \notin keys
    BY <1>2, <2>1, <2>3
  <2> QED
    BY <2>2, <2>3
<1>7. ASSUME NEW k \in DOMAIN counters' \ DOMAIN counters
      PROVE  /\ counters'[k] \in Entries /\ counters'[k].expires = clock + Bucket
             /\ Base(k[2]) <= clock /\ clock < Base(k[2]) + 2 * Bucket
  <2>1. k \in keys
    BY <1>5
  <2>2. counters'[k] = [count |-> hits(k), expires |-> clock + Bucket]
    BY <1>2, <2>1, <1>7 DEF IncrExpire
  <2>3. clock + Bucket \in Nat
    BY <1>1, BucketFacts DEF Typed
  <2> QED
    BY <1>4, <2>1, <2>2, <2>3, InTime DEF Entries
<1>8. counters' \in [DOMAIN counters' -> Entries]
  BY <1>2, <1>5, <1>6, <1>7
<1> QED
  BY <1>5, <1>6, <1>7, <1>8

LEMMA LivingKept ==
  ASSUME IInv, NEW run \in SUBSET DOMAIN waiting, Ran(run), UNCHANGED clock
  PROVE  Living'
<1>1. SUFFICES ASSUME NEW k \in DOMAIN counters' PROVE Lives(k, counters'[k], clock)
  BY DEF Living
<1>2. clock \in Nat /\ k \in Keys /\ Base(k[2]) \in Int
  BY ScriptsRun, BaseInt DEF IInv, Typed, Keys
<1>3. CASE k \in DOMAIN counters
  <2>1. Lives(k, counters[k], clock) /\ counters'[k].expires = counters[k].expires
    BY <1>3, ScriptsRun DEF IInv, Living
  <2> QED
    BY <2>1 DEF Lives
<1>4. CASE k \notin DOMAIN counters
  <2>1. /\ counters'[k].expires = clock + Bucket
        /\ Base(k[2]) <= clock /\ clock < Base(k[2]) + 2 * Bucket
    BY <1>4, ScriptsRun
  <2>2. /\ clock + Bucket \in (clock + 1)..(clock + Bucket)
        /\ Base(k[2]) + Bucket <= clock + Bucket
        /\ clock + Bucket < Base(k[2]) + 3 * Bucket
    BY <1>2, <2>1, BucketFacts
  <2> QED
    BY <2>1, <2>2 DEF Lives
<1> QED
  BY <1>3, <1>4

\* Runs of scripts lower no bucket's cap.
LEMMA CapGrows ==
  ASSUME IInv, limit > 0, NEW run \in SUBSET DOMAIN waiting, Ran(run),
         UNCHANGED <<limit, clock>>, NEW k \in Keys
  PROVE  Cap(k)' \in Int /\ Cap(k) \in Int /\ Cap(k) <= Cap(k)'
<1>1. clock \in Nat /\ limit \in Int /\ Base(k[2]) \in Int /\ Bucket \in Nat \ {0}
  BY LimitAssumption, BaseInt, BucketFacts DEF IInv, Typed, Keys
<1>2. ASSUME NEW e \in Entries PROVE Under(k[2], e) \in Int
  BY <1>1 DEF Under, Entries
<1>3. GoneBy(k[2], clock) \in Int
  BY <1>1 DEF GoneBy
<1>4. CASE k \in DOMAIN counters
  <2>1. k \in DOMAIN counters' /\ counters[k] \in Entries /\ counters'[k] \in Entries
        /\ counters'[k].expires = counters[k].expires /\ counters'[k].count >= counters[k].count
    BY <1>4, ScriptsRun DEF IInv, Typed
  <2>2. Cap(k) = Under(k[2], counters[k]) /\ Cap(k)' = Under(k[2], counters'[k])
    BY <1>4, <2>1 DEF Cap, Under, Base
  <2>3. Under(k[2], counters[k]) <= Under(k[2], counters'[k])
    BY <1>1, <2>1 DEF Under, Entries
  <2> QED
    BY <1>2, <2>1, <2>2, <2>3
<1>5. CASE k \notin DOMAIN counters /\ k \in DOMAIN counters'
  <2>1. /\ counters'[k] \in Entries /\ counters'[k].expires = clock + Bucket
        /\ clock < Base(k[2]) + 2 * Bucket
    BY <1>5, ScriptsRun
  <2>2. Cap(k) = GoneBy(k[2], clock) /\ Cap(k)' = Under(k[2], counters'[k])
    BY <1>5 DEF Cap, Under, Base
  <2>3. GoneBy(k[2], clock) <= Under(k[2], counters'[k])
    BY <1>1, <2>1 DEF Under, GoneBy, Entries
  <2> QED
    BY <1>2, <1>3, <2>1, <2>2, <2>3
<1>6. CASE k \notin DOMAIN counters /\ k \notin DOMAIN counters'
  <2>1. Cap(k) = GoneBy(k[2], clock) /\ Cap(k)' = GoneBy(k[2], clock)
    BY <1>6 DEF Cap, GoneBy, Base
  <2> QED
    BY <1>1, <1>3, <2>1
<1>7. k \in DOMAIN counters => k \in DOMAIN counters'
  BY ScriptsRun
<1> QED
  BY <1>4, <1>5, <1>6, <1>7

\* The script of one request counts one hit.
LEMMA OneScript ==
  ASSUME IInv, NEW r \in DOMAIN waiting, Ran({r}), NEW k, k = KeyOf(r)
  PROVE  counters'[k].count = IF k \in DOMAIN counters THEN counters[k].count + 1 ELSE 1
<1>1. {q \in {r} : KeyOf(q) = k} = {r}
  OBVIOUS
<1>2. Cardinality({q \in {r} : KeyOf(q) = k}) = 1
  BY <1>1, FS_Singleton
<1>3. {r} \in SUBSET DOMAIN waiting
  OBVIOUS
<1>4. DOMAIN counters' = DOMAIN counters \cup {KeyOf(q) : q \in {r}}
  BY <1>3, ScriptsRun
<1>5. k \in DOMAIN counters'
  BY <1>4
<1>6. counters'[k] = IncrExpire(k, 1)
  BY <1>2, <1>4, <1>5 DEF Ran
<1>7. k \in DOMAIN counters => counters[k] \in Entries
  BY DEF IInv, Typed
<1> QED
  BY <1>6, <1>7 DEF IncrExpire, Entries

\* Redis admits a hit: one more of its bucket, and the cap allows it.
LEMMA CapOfAdmitted ==
  ASSUME IInv, limit > 0, NEW r \in DOMAIN waiting, Ran({r}), UNCHANGED <<limit, clock>>,
         NEW k, k = KeyOf(r), counters'[k].count <= limit
  PROVE  Cap(k) + 1 <= Cap(k)'
<1>1. k \in Keys /\ {r} \in SUBSET DOMAIN waiting
  BY InTime
<1>2. clock \in Nat /\ limit \in Int /\ Base(k[2]) \in Int /\ Bucket \in Nat \ {0}
  BY <1>1, LimitAssumption, BaseInt, BucketFacts DEF IInv, Typed, Keys
<1>3. k \in DOMAIN counters' /\ counters'[k] \in Entries
  BY <1>1, ScriptsRun
<1>4. Cap(k)' = Under(k[2], counters'[k])
  BY <1>3 DEF Cap, Under, Base
<1>5. CASE k \in DOMAIN counters
  <2>1. counters[k] \in Entries /\ counters'[k].expires = counters[k].expires
    BY <1>1, <1>5, ScriptsRun DEF IInv, Typed
  <2>2. counters'[k].count = counters[k].count + 1
    BY <1>5, OneScript
  <2>3. Cap(k) = Under(k[2], counters[k])
    BY <1>5 DEF Cap
  <2> QED
    BY <1>2, <1>3, <1>4, <2>1, <2>2, <2>3 DEF Under, Entries
<1>6. CASE k \notin DOMAIN counters
  <2>1. counters'[k].expires = clock + Bucket /\ clock < Base(k[2]) + 2 * Bucket
    BY <1>1, <1>3, <1>6, ScriptsRun
  <2>2. Cap(k) = GoneBy(k[2], clock)
    BY <1>6 DEF Cap
  <2> QED
    BY <1>2, <1>3, <1>4, <2>1, <2>2 DEF Under, GoneBy, Entries
<1> QED
  BY <1>5, <1>6

--------------------------------------------------------------------------------
(* The fallback *)

LEMMA TableFacts ==
  ASSUME NEW table \in Tables, NEW now \in Nat, NEW ip \in Ips
  PROVE  /\ Sweep(table, now) \in Tables
         /\ CountHit(table, ip, now) \in IpWindow
         /\ CountHit(table, ip, now).count # 0
<1>1. DOMAIN table \subseteq Ips /\ table \in [DOMAIN table -> IpWindow]
  BY DEF Tables
<1> DEFINE kept == {i \in DOMAIN table : now <= table[i].reset}
<1>2. Sweep(table, now) \in [kept -> IpWindow] /\ kept \in SUBSET Ips
  BY <1>1 DEF Sweep, Restrict
<1> DEFINE first == [count |-> 1, reset |-> now + Window]
           next == [table[ip] EXCEPT !.count = table[ip].count + 1]
<1>3. first \in IpWindow /\ first.count # 0
  BY BucketFacts DEF IpWindow
<1>4. ip \in DOMAIN table => next \in IpWindow /\ next.count # 0
  BY <1>1 DEF IpWindow
<1>5. CountHit(table, ip, now) \in {first, next} /\ (ip \notin DOMAIN table => CountHit(table, ip, now) = first)
  BY DEF CountHit
<1> HIDE DEF kept, first, next
<1> QED
  BY <1>2, <1>3, <1>4, <1>5 DEF Tables

LEMMA StoreTyped ==
  ASSUME NEW table \in Tables, NEW ip \in Ips, NEW w \in IpWindow
  PROVE  Store(table, ip, w) \in Tables
<1>1. DOMAIN table \subseteq Ips /\ table \in [DOMAIN table -> IpWindow]
  BY DEF Tables
<1>2. Store(table, ip, w) \in [DOMAIN table \cup {ip} -> IpWindow]
  BY <1>1 DEF Store
<1>3. DOMAIN table \cup {ip} \in SUBSET Ips
  BY <1>1
<1> QED
  BY <1>2, <1>3 DEF Tables

LEMMA RedisAdmitsTyped ==
  ASSUME Typed, NEW key \in Keys, NEW e \in Entries, RedisAdmits(key, e)
  PROVE  byRedis' \subseteq RedisAdmission
<1> DEFINE a == [ip |-> key[1], bucket |-> key[2], began |-> e.expires - Bucket,
                 n |-> e.count, at |-> clock]
<1>1. byRedis' = byRedis \cup {a}
  BY DEF RedisAdmits
<1>2. e.expires - Bucket \in Int
  BY BucketFacts DEF Entries
<1>3. a \in RedisAdmission
  BY <1>2 DEF Typed, Keys, Entries, RedisAdmission
<1> QED
  BY <1>1, <1>3 DEF Typed

LEMMA ReplicaAdmitsTyped ==
  ASSUME Typed, NEW rep \in Replicas, NEW ip \in Ips, NEW w \in IpWindow, w.count # 0,
         ReplicaAdmits(rep, ip, w)
  PROVE  byReplica' \subseteq ReplicaAdmission
<1> DEFINE a == [rep |-> rep, ip |-> ip, began |-> w.reset - Window,
                 n |-> w.count, at |-> clock, end |-> 0]
<1>1. byReplica' = byReplica \cup {a}
  BY DEF ReplicaAdmits
<1>2. w.reset - Window \in Int /\ w.count \in Nat \ {0}
  BY BucketFacts DEF IpWindow
<1>3. a \in ReplicaAdmission
  BY <1>2 DEF Typed, ReplicaAdmission
<1> QED
  BY <1>1, <1>3 DEF Typed

LEMMA FallbackTyped ==
  ASSUME Typed, NEW rep \in Replicas, NEW ip \in Ips, Fallback(rep, ip)
  PROVE  local' \in [Replicas -> Limiters] /\ byReplica' \subseteq ReplicaAdmission
<1> DEFINE mine == local[rep]
           due  == SweepDue(mine.lastSwip, clock)
           kept == IF due THEN Sweep(mine.hits, clock) ELSE mine.hits
           w    == CountHit(kept, ip, clock)
           then == [hits     |-> Store(kept, ip, w),
                    lastSwip |-> IF due THEN clock ELSE mine.lastSwip]
<1>1. local \in [Replicas -> Limiters] /\ clock \in Nat
  BY DEF Typed
<1>2. mine.hits \in Tables /\ mine.lastSwip \in Int
  BY <1>1 DEF Limiters
<1>3. kept \in Tables
  BY <1>1, <1>2, TableFacts
<1>4. w \in IpWindow /\ w.count # 0 /\ Store(kept, ip, w) \in Tables
  <2> HIDE DEF kept
  <2> QED
    BY <1>1, <1>3, TableFacts, StoreTyped
<1>5. then \in Limiters
  BY <1>1, <1>2, <1>4 DEF Limiters
<1>6. local' = [local EXCEPT ![rep] = then]
  BY DEF Fallback
<1>7. UNCHANGED byReplica \/ ReplicaAdmits(rep, ip, w)
  BY DEF Fallback
<1> HIDE DEF then, w
<1> QED
  BY <1>1, <1>4, <1>5, <1>6, <1>7, ReplicaAdmitsTyped DEF Typed

LEMMA NewRateLimiterTyped == NewRateLimiter \in Limiters
<1>1. [ip \in {} |-> [count |-> 0, reset |-> 0]] \in [{} -> IpWindow] /\ {} \in SUBSET Ips
  OBVIOUS
<1>2. -Window \in Int
  BY BucketFacts
<1> QED
  BY <1>1, <1>2 DEF NewRateLimiter, Limiters, Tables

--------------------------------------------------------------------------------
(* The steps *)

LEMMA InitInvariant == Init => IInv
<1> SUFFICES ASSUME Init PROVE IInv
  OBVIOUS
<1>1. Typed
  <2>1. local \in [Replicas -> Limiters]
    BY NewRateLimiterTyped DEF Init
  <2>2. DOMAIN counters = {} /\ counters \in [DOMAIN counters -> Entries]
    BY DEF Init
  <2>3. DOMAIN waiting = {} /\ waiting \in [DOMAIN waiting -> Waiters]
    BY DEF Init
  <2>4. DOMAIN passed = {} /\ passed \in [DOMAIN passed -> Nat]
    BY DEF Init
  <2>5. byRedis \subseteq RedisAdmission /\ byReplica \subseteq ReplicaAdmission
    BY DEF Init
  <2>6. /\ limit \in Limits /\ clock \in Nat /\ skew \in [Replicas -> 0..MaxSkew]
        /\ fails \in 0..MaxFails /\ restarts \in 0..MaxRestarts
    BY DelayAssumption DEF Init
  <2> QED
    BY <2>1, <2>2, <2>3, <2>4, <2>5, <2>6, FS_EmptySet DEF Typed
<1>2. Fresh /\ Living /\ Unasked
  BY DEF Init, Fresh, Living, Unasked
<1>3. Shared
  <2>1. SUFFICES ASSUME limit > 0, NEW k \in Keys PROVE At(passed, k, 0) <= Cap(k)
    BY DEF Shared
  <2>2. At(passed, k, 0) = 0 /\ Cap(k) = GoneBy(k[2], clock)
    BY DEF Init, At, Cap
  <2>3. limit \in Int
    BY <1>1, LimitAssumption DEF Typed
  <2> QED
    BY <2>1, <2>2, <2>3 DEF GoneBy
<1> QED
  BY <1>1, <1>2, <1>3 DEF IInv

LEMMA UnchangedKeeps == ASSUME IInv, UNCHANGED vars PROVE IInv'
<1>1. Typed' /\ Fresh'
  BY DEF vars, IInv, Typed, Fresh
<1>2. Living' /\ Unasked'
  BY DEF vars, IInv, Living, Unasked
<1>3. Shared'
  BY DEF vars, IInv, Shared, Cap, Under, GoneBy
<1> QED
  BY <1>1, <1>2, <1>3 DEF IInv

LEMMA ReceiveKeeps ==
  ASSUME IInv, NEW r \in Reqs, NEW rep \in Replicas, NEW ip \in Ips, Receive(r, rep, ip)
  PROVE  IInv'
<1> DEFINE b == BucketOf(rep)
           q == [rep |-> rep, ip |-> ip, bucket |-> b, read |-> clock]
<1>1. /\ waiting' = Set(waiting, r, q) /\ limit > 0
      /\ UNCHANGED <<limit, clock, skew, counters, local, passed, byRedis, byReplica, fails, restarts>>
  BY DEF Receive
<1>2. Typed /\ Fresh /\ Living /\ Shared
  BY DEF IInv
<1>3. b \in Nat /\ Base(b) <= clock /\ clock < Base(b) + Bucket + MaxSkew
  BY <1>2, ReadInTime
<1> HIDE DEF b
<1>4. q \in Waiters /\ q.bucket = b /\ q.read = clock
  BY <1>2, <1>3 DEF Waiters, Typed
<1> HIDE DEF q
<1>5. /\ DOMAIN waiting' = DOMAIN waiting \cup {r}
      /\ \A o \in DOMAIN waiting' : waiting'[o] = IF o = r THEN q ELSE waiting[o]
      /\ waiting' \in [DOMAIN waiting' -> Waiters]
  BY <1>1, <1>2, <1>4 DEF Set, Typed
<1>6. IsFiniteSet(DOMAIN waiting')
  BY <1>2, <1>5, FS_AddElement DEF Typed
<1>7. Typed'
  BY <1>1, <1>2, <1>5, <1>6 DEF Typed
<1>8. Fresh'
  <2>1. SUFFICES ASSUME NEW o \in DOMAIN waiting'
                 PROVE  LET p == waiting'[o]
                        IN  /\ p.read <= clock /\ clock <= p.read + MaxDelay
                            /\ Base(p.bucket) <= p.read /\ p.read < Base(p.bucket) + Bucket + MaxSkew
    BY <1>1 DEF Fresh, Base
  <2>2. CASE o = r
    BY <1>2, <1>3, <1>4, <1>5, <2>2, BucketFacts DEF Typed
  <2>3. CASE o # r
    BY <1>2, <1>5, <2>3 DEF Fresh
  <2> QED
    BY <2>2, <2>3
<1>9. Living' /\ Shared'
  BY <1>1, <1>2 DEF Living, Shared, Cap, Under, GoneBy
<1>10. Unasked'
  BY <1>1, <1>7, LimitAssumption DEF Unasked, Typed
<1> QED
  BY <1>7, <1>8, <1>9, <1>10 DEF IInv

\* Some requests have been answered, or lost.
LEMMA Answered ==
  ASSUME IInv, NEW gone, waiting' = Restrict(waiting, DOMAIN waiting \ gone), UNCHANGED clock
  PROVE  /\ DOMAIN waiting' \subseteq DOMAIN waiting /\ waiting' \in [DOMAIN waiting' -> Waiters]
         /\ IsFiniteSet(DOMAIN waiting') /\ Fresh'
<1>1. Typed /\ Fresh
  BY DEF IInv
<1>2. /\ DOMAIN waiting' = DOMAIN waiting \ gone
      /\ \A r \in DOMAIN waiting' : waiting'[r] = waiting[r]
      /\ waiting' \in [DOMAIN waiting' -> Waiters]
  BY <1>1 DEF Restrict, Typed
<1>3. IsFiniteSet(DOMAIN waiting')
  BY <1>1, <1>2, FS_Subset DEF Typed
<1>4. Fresh'
  BY <1>1, <1>2 DEF Fresh, Base
<1> QED
  BY <1>2, <1>3, <1>4

\* Scripts run that admit nothing, or whose answers nobody awaits.
LEMMA SharedKept ==
  ASSUME IInv, NEW run \in SUBSET DOMAIN waiting, Ran(run), UNCHANGED <<limit, clock, passed>>
  PROVE  Shared'
<1>1. SUFFICES ASSUME limit > 0, NEW k \in Keys PROVE At(passed, k, 0) <= Cap(k)'
  BY DEF Shared
<1>2. At(passed, k, 0) <= Cap(k)
  BY <1>1 DEF IInv, Shared
<1>3. Cap(k) \in Int /\ Cap(k)' \in Int /\ Cap(k) <= Cap(k)'
  BY <1>1, CapGrows
<1>4. At(passed, k, 0) \in Nat
  BY DEF At, IInv, Typed
<1> QED
  BY <1>2, <1>3, <1>4

LEMMA AnyoneWaiting ==
  ASSUME IInv, NEW r \in DOMAIN waiting
  PROVE  limit > 0 /\ limit' = limit => Unasked'
BY LimitAssumption DEF IInv, Typed, Unasked

LEMMA RunKeeps == ASSUME IInv, NEW r \in Reqs, Run(r) PROVE IInv'
<1> DEFINE key == KeyOf(r)
<1>1. /\ r \in DOMAIN waiting /\ {r} \in SUBSET DOMAIN waiting /\ Ran({r})
      /\ UNCHANGED <<limit, clock, skew, local, byReplica, fails, restarts>>
  BY DEF Run
<1>2. Typed
  BY DEF IInv
<1>3. limit > 0 /\ limit \in Int
  BY <1>1, <1>2, LimitAssumption DEF IInv, Unasked, Typed
<1>4. waiting[r] \in Waiters /\ waiting[r].ip \in Ips /\ key \in Keys
  BY <1>1, InTime DEF Waiters
<1>5. waiting' = Restrict(waiting, DOMAIN waiting \ {r})
  BY DEF Run, Done
<1>6. /\ DOMAIN waiting' \subseteq DOMAIN waiting /\ waiting' \in [DOMAIN waiting' -> Waiters]
      /\ IsFiniteSet(DOMAIN waiting') /\ Fresh'
  BY <1>1, <1>5, Answered
<1>7. DOMAIN counters' \subseteq Keys /\ counters' \in [DOMAIN counters' -> Entries] /\ Living'
  BY <1>1, ScriptsRun, LivingKept
<1> HIDE DEF key
<1>8. CASE counters'[key].count > limit /\ UNCHANGED <<passed, byRedis>>
  <2>1. Typed'
    BY <1>1, <1>2, <1>6, <1>7, <1>8 DEF Typed
  <2>2. Shared'
    BY <1>1, <1>8, SharedKept
  <2>3. Unasked'
    BY <1>1, <1>3 DEF Unasked
  <2> QED
    BY <1>6, <1>7, <2>1, <2>2, <2>3 DEF IInv
<1>9. CASE /\ counters'[key].count <= limit
           /\ passed' = Set(passed, key, At(passed, key, 0) + 1)
           /\ RedisAdmits(key, counters'[key])
  <2>1. At(passed, key, 0) + 1 \in Nat
    BY <1>2 DEF At, Typed
  <2>2. /\ DOMAIN passed' \subseteq Keys /\ passed' \in [DOMAIN passed' -> Nat]
        /\ \A k \in Keys : At(passed', k, 0) = IF k = key THEN At(passed, k, 0) + 1
                                                          ELSE At(passed, k, 0)
    BY <1>2, <1>4, <1>9, <2>1 DEF Set, At, Typed
  <2>3. Typed'
    <3>1. key \in DOMAIN counters' /\ counters'[key] \in Entries
      BY <1>1, <1>7, ScriptsRun DEF key
    <3>2. byRedis' \subseteq RedisAdmission
      BY <1>2, <1>4, <1>9, <3>1, RedisAdmitsTyped
    <3> QED
      BY <1>1, <1>2, <1>6, <1>7, <2>2, <3>2 DEF Typed
  <2>4. Shared'
    <3>1. SUFFICES ASSUME NEW k \in Keys PROVE At(passed', k, 0) <= Cap(k)'
      BY DEF Shared
    <3>2. At(passed, k, 0) <= Cap(k) /\ At(passed, k, 0) \in Nat
      BY <1>2, <1>3 DEF IInv, Shared, At, Typed
    <3>3. Cap(k) \in Int /\ Cap(k)' \in Int /\ Cap(k) <= Cap(k)'
      BY <1>1, <1>3, CapGrows
    <3>4. k = key => Cap(k) + 1 <= Cap(k)'
      BY <1>1, <1>3, <1>9, CapOfAdmitted DEF key
    <3> QED
      BY <2>2, <3>2, <3>3, <3>4
  <2>5. Unasked'
    BY <1>1, <1>3 DEF Unasked
  <2> QED
    BY <1>6, <1>7, <2>3, <2>4, <2>5 DEF IInv
<1> QED
  BY <1>8, <1>9 DEF Run, key

LEMMA FailKeeps == ASSUME IInv, NEW r \in Reqs, Fail(r) PROVE IInv'
<1>1. /\ r \in DOMAIN waiting /\ {r} \in SUBSET DOMAIN waiting
      /\ Fallback(waiting[r].rep, waiting[r].ip)
      /\ UNCHANGED <<limit, clock, skew, passed, byRedis, restarts>>
  BY DEF Fail
<1>2. Typed /\ limit > 0 /\ limit \in Int
  BY <1>1, LimitAssumption DEF IInv, Unasked, Typed
<1>3. waiting[r].rep \in Replicas /\ waiting[r].ip \in Ips
  BY <1>1, InTime DEF Waiters
<1>4. waiting' = Restrict(waiting, DOMAIN waiting \ {r})
  BY DEF Fail, Done
<1>5. /\ DOMAIN waiting' \subseteq DOMAIN waiting /\ waiting' \in [DOMAIN waiting' -> Waiters]
      /\ IsFiniteSet(DOMAIN waiting') /\ Fresh'
  BY <1>1, <1>4, Answered
<1>6. local' \in [Replicas -> Limiters] /\ byReplica' \subseteq ReplicaAdmission
  BY <1>1, <1>2, <1>3, FallbackTyped
<1>7. fails' \in 0..MaxFails
  BY <1>2, DelayAssumption DEF Fail, Typed
<1>8. /\ DOMAIN counters' \subseteq Keys /\ counters' \in [DOMAIN counters' -> Entries]
      /\ Living' /\ Shared'
  <2>1. CASE UNCHANGED counters
    BY <1>1, <1>2, <2>1 DEF IInv, Typed, Living, Shared, Cap, Under, GoneBy
  <2>2. CASE Ran({r})
    BY <1>1, <2>2, ScriptsRun, LivingKept, SharedKept
  <2> QED
    BY <2>1, <2>2 DEF Fail
<1>9. Typed'
  BY <1>1, <1>2, <1>5, <1>6, <1>7, <1>8 DEF Typed
<1>10. Unasked'
  BY <1>1, <1>2 DEF Unasked
<1> QED
  BY <1>5, <1>8, <1>9, <1>10 DEF IInv

LEMMA RestartKeeps == ASSUME IInv, NEW rep \in Replicas, Restart(rep) PROVE IInv'
<1> DEFINE lost == {r \in DOMAIN waiting : waiting[r].rep = rep}
<1>1. PICK run \in SUBSET lost : Ran(run)
  BY DEF Restart
<1>2. /\ run \in SUBSET DOMAIN waiting /\ waiting' = Restrict(waiting, DOMAIN waiting \ lost)
      /\ UNCHANGED <<limit, clock, skew, passed, byRedis, fails>>
  BY DEF Restart
<1>3. Typed /\ Unasked
  BY DEF IInv
<1> HIDE DEF lost
<1>4. /\ DOMAIN waiting' \subseteq DOMAIN waiting /\ waiting' \in [DOMAIN waiting' -> Waiters]
      /\ IsFiniteSet(DOMAIN waiting') /\ Fresh'
  BY <1>2, Answered
<1>5. local' \in [Replicas -> Limiters]
  BY <1>3, NewRateLimiterTyped DEF Restart, Typed
<1>6. restarts' \in 0..MaxRestarts /\ byReplica' \subseteq ReplicaAdmission
  <2>1. restarts \in Nat /\ restarts' = restarts + 1 /\ restarts' \in 0..MaxRestarts
    BY <1>3, DelayAssumption DEF Restart, Typed
  <2>2. ASSUME NEW a \in byReplica PROVE Ending(rep, a) \in ReplicaAdmission
    BY <1>3, <2>1, <2>2 DEF Typed, ReplicaAdmission, Ending
  <2> QED
    BY <1>3, <2>1, <2>2 DEF Restart, Typed
<1>7. /\ DOMAIN counters' \subseteq Keys /\ counters' \in [DOMAIN counters' -> Entries]
      /\ Living' /\ Shared'
  BY <1>1, <1>2, ScriptsRun, LivingKept, SharedKept
<1>8. Typed'
  BY <1>2, <1>3, <1>4, <1>5, <1>6, <1>7 DEF Typed
<1>9. Unasked'
  BY <1>2, <1>3, <1>4 DEF Unasked
<1> QED
  BY <1>4, <1>7, <1>8, <1>9 DEF IInv

LEMMA TickKeeps == ASSUME IInv, Tick PROVE IInv'
<1>1. Typed /\ Fresh /\ Living /\ Shared /\ Unasked
  BY DEF IInv
<1> DEFINE alive == {k \in DOMAIN counters : counters[k].expires > clock + 1}
           known == {k \in DOMAIN passed : (clock + 1 - MaxDelay) \div Bucket <= k[2]}
<1>2. /\ clock' = clock + 1 /\ clock \in Nat /\ limit \in Int
      /\ counters' = Restrict(counters, alive) /\ passed' = Restrict(passed, known)
      /\ UNCHANGED <<limit, skew, local, waiting, fails, restarts>>
  BY <1>1, LimitAssumption DEF Tick, Typed
<1>3. /\ DOMAIN counters' \subseteq DOMAIN counters
      /\ \A k \in DOMAIN counters : k \in DOMAIN counters' <=> counters[k].expires > clock + 1
      /\ \A k \in DOMAIN counters' : counters'[k] = counters[k]
  BY <1>2 DEF Restrict
<1>4. DOMAIN counters' \subseteq Keys /\ counters' \in [DOMAIN counters' -> Entries]
  BY <1>1, <1>2 DEF Restrict, Typed
<1>5. /\ DOMAIN passed' \subseteq DOMAIN passed /\ passed' \in [DOMAIN passed' -> Nat]
      /\ \A k \in DOMAIN passed' : passed'[k] = passed[k]
  BY <1>1, <1>2 DEF Restrict, Typed
<1>6. byRedis' \subseteq RedisAdmission /\ byReplica' \subseteq ReplicaAdmission
  BY <1>1 DEF Tick, Typed
<1>7. Typed'
  BY <1>1, <1>2, <1>4, <1>5, <1>6 DEF Typed
<1>8. Fresh'
  <2>1. SUFFICES ASSUME NEW r \in DOMAIN waiting
                 PROVE  LET q == waiting[r]
                        IN  /\ q.read <= clock + 1 /\ clock + 1 <= q.read + MaxDelay
                            /\ Base(q.bucket) <= q.read /\ q.read < Base(q.bucket) + Bucket + MaxSkew
    BY <1>2 DEF Fresh, Base
  <2>2. waiting[r].read \in Nat /\ clock - waiting[r].read < MaxDelay
    BY <1>1 DEF Tick, Typed, Waiters
  <2> QED
    BY <1>1, <1>2, <2>2, BucketFacts DEF Fresh
<1>9. Living'
  <2>1. SUFFICES ASSUME NEW k \in DOMAIN counters' PROVE Lives(k, counters[k], clock + 1)
    BY <1>2, <1>3 DEF Living
  <2>2. Lives(k, counters[k], clock) /\ counters[k].expires > clock + 1
    BY <1>1, <1>3 DEF Living
  <2> QED
    BY <1>2, <2>2, BucketFacts DEF Lives
<1>10. Shared'
  <2>1. SUFFICES ASSUME limit > 0, NEW k \in Keys PROVE At(passed', k, 0) <= Cap(k)'
    BY <1>2 DEF Shared
  <2>2. At(passed, k, 0) <= Cap(k) /\ At(passed', k, 0) \in {0, At(passed, k, 0)}
        /\ At(passed, k, 0) \in Nat
    BY <1>1, <1>5, <2>1 DEF Shared, At, Typed
  <2>3. Base(k[2]) \in Int /\ Bucket \in Nat \ {0}
    BY BaseInt, BucketFacts DEF Keys
  <2>4. CASE k \in DOMAIN counters'
    <3>1. Cap(k) = Under(k[2], counters[k]) /\ Cap(k)' = Under(k[2], counters[k])
      BY <1>2, <1>3, <2>4 DEF Cap, Under, Base
    <3>2. counters[k] \in Entries
      BY <1>1, <1>3, <2>4 DEF Typed
    <3>3. Under(k[2], counters[k]) \in Nat
      BY <1>2, <2>1, <3>2 DEF Under, Entries
    <3> QED
      BY <2>2, <3>1, <3>3
  <2>5. CASE k \in DOMAIN counters \ DOMAIN counters'
    <3>1. Cap(k) = Under(k[2], counters[k]) /\ Cap(k)' = GoneBy(k[2], clock + 1)
      BY <1>2, <2>5 DEF Cap, GoneBy, Base
    <3>2. counters[k] \in Entries /\ Lives(k, counters[k], clock) /\ ~(counters[k].expires > clock + 1)
      BY <1>1, <1>3, <2>5 DEF Typed, Living
    <3>3. counters[k].expires = clock + 1 /\ Base(k[2]) + Bucket <= clock + 1
      BY <1>2, <3>2 DEF Lives, Entries
    <3>4. Under(k[2], counters[k]) \in Nat /\ GoneBy(k[2], clock + 1) \in Nat
          /\ Under(k[2], counters[k]) <= GoneBy(k[2], clock + 1)
      BY <1>2, <2>1, <2>3, <3>2, <3>3 DEF Under, GoneBy, Entries
    <3> QED
      BY <2>2, <3>1, <3>4
  <2>6. CASE k \notin DOMAIN counters
    <3>1. Cap(k) = GoneBy(k[2], clock) /\ Cap(k)' = GoneBy(k[2], clock + 1)
      BY <1>2, <1>3, <2>6 DEF Cap, GoneBy, Base
    <3>2. GoneBy(k[2], clock) \in Nat /\ GoneBy(k[2], clock + 1) \in Nat
          /\ GoneBy(k[2], clock) <= GoneBy(k[2], clock + 1)
      BY <1>2, <2>1, <2>3 DEF GoneBy
    <3> QED
      BY <2>2, <3>1, <3>2
  <2> QED
    BY <1>3, <2>4, <2>5, <2>6
<1>11. Unasked'
  BY <1>1, <1>2, <1>5 DEF Unasked
<1> QED
  BY <1>7, <1>8, <1>9, <1>10, <1>11 DEF IInv

LEMMA Stepping == IInv /\ [Next]_vars => IInv'
<1> SUFFICES ASSUME IInv, [Next]_vars PROVE IInv'
  OBVIOUS
<1>1. CASE \E r \in Reqs, rep \in Replicas, ip \in Ips : Receive(r, rep, ip)
  BY <1>1, ReceiveKeeps
<1>2. CASE \E r \in Reqs : Run(r) \/ Fail(r)
  BY <1>2, RunKeeps, FailKeeps
<1>3. CASE \E rep \in Replicas : Restart(rep)
  BY <1>3, RestartKeeps
<1>4. CASE Tick
  BY <1>4, TickKeeps
<1>5. CASE Bypass \/ Horizon \/ UNCHANGED vars
  BY <1>5, UnchangedKeeps DEF Bypass, Horizon
<1> QED
  BY <1>1, <1>2, <1>3, <1>4, <1>5 DEF Next

--------------------------------------------------------------------------------
(* The theorems *)

\* When keys come to be, and what Redis has admitted under them and before.
THEOREM Invariance == Spec => []IInv
BY InitInvariant, Stepping, PTL DEF Spec

\* Every variable keeps its type, whatever fails or is started anew.
THEOREM TypeCorrect == Spec => []TypeOK
<1>1. IInv => TypeOK
  <2> SUFFICES ASSUME IInv PROVE TypeOK
    OBVIOUS
  <2>1. Typed
    BY DEF IInv
  <2>2. ASSUME NEW rep \in Replicas
        PROVE  IsTable(local[rep].hits, Ips) /\ local[rep].lastSwip \in Int
    BY <2>1 DEF Typed, Limiters, Tables, IsTable
  <2> QED
    BY <2>1, <2>2 DEF Typed, TypeOK, Keys, Entries, Waiters
<1> QED
  BY <1>1, Invariance, PTL

\* Redis admits at most 2 * limit requests of a bucket, however late they come.
THEOREM SharedLimit == Spec => []SharedBound
<1>1. IInv => SharedBound
  <2> SUFFICES ASSUME IInv, NEW k \in DOMAIN passed PROVE passed[k] <= 2 * limit
    BY DEF SharedBound
  <2>1. /\ k \in Keys /\ passed[k] \in Nat /\ limit \in Int /\ clock \in Nat
        /\ limit > 0 /\ At(passed, k, 0) = passed[k]
    BY LimitAssumption DEF IInv, Typed, Unasked, At
  <2>2. passed[k] <= Cap(k)
    BY <2>1 DEF IInv, Shared
  <2>3. CASE k \in DOMAIN counters
    <3>1. counters[k] \in Entries /\ Cap(k) = Under(k[2], counters[k])
      BY <2>3 DEF IInv, Typed, Cap
    <3>2. Under(k[2], counters[k]) \in Int /\ Under(k[2], counters[k]) <= 2 * limit
      BY <2>1, <3>1 DEF Under, Entries
    <3> QED
      BY <2>1, <2>2, <3>1, <3>2
  <2>4. CASE k \notin DOMAIN counters
    <3>1. Cap(k) = GoneBy(k[2], clock)
      BY <2>4 DEF Cap
    <3>2. GoneBy(k[2], clock) \in Int /\ GoneBy(k[2], clock) <= 2 * limit
      BY <2>1 DEF GoneBy
    <3> QED
      BY <2>1, <2>2, <3>1, <3>2
  <2> QED
    BY <2>3, <2>4
<1> QED
  BY <1>1, Invariance, PTL

\* A bucket that began at most three lengths ago is one of three.
LEMMA NearBuckets ==
  ASSUME NEW x \in Nat, NEW d \in Nat \ {0}, NEW b \in Nat, b * d <= x, x < b * d + 3 * d
  PROVE  b \in {x \div d, x \div d - 1, x \div d - 2}
<1> DEFINE m == x \div d
<1>1. m \in Nat /\ m * d <= x /\ x < m * d + d
  BY Division
<1> HIDE DEF m
<1>2. ~(m + 1 <= b)
  <2>1. SUFFICES ASSUME m + 1 <= b PROVE FALSE
    OBVIOUS
  <2>2. (m + 1) * d <= b * d
    BY <1>1, <2>1
  <2> QED
    BY <1>1, <2>2
<1>3. ~(b + 3 <= m)
  <2>1. SUFFICES ASSUME b + 3 <= m PROVE FALSE
    OBVIOUS
  <2>2. (b + 3) * d <= m * d
    BY <1>1, <2>1
  <2> QED
    BY <1>1, <2>2
<1> QED
  BY <1>1, <1>2, <1>3 DEF m

LEMMA ThreeElements ==
  ASSUME NEW a, NEW b, NEW c, NEW S \in SUBSET {a, b, c}
  PROVE  IsFiniteSet(S) /\ Cardinality(S) <= 3
<1>1. IsFiniteSet({a}) /\ Cardinality({a}) = 1
  BY FS_Singleton
<1>2. IsFiniteSet({a} \cup {b}) /\ Cardinality({a} \cup {b}) \in {1, 2}
  BY <1>1, FS_AddElement
<1>3. IsFiniteSet(({a} \cup {b}) \cup {c}) /\ Cardinality(({a} \cup {b}) \cup {c}) \in {1, 2, 3}
  BY <1>2, FS_AddElement
<1>4. ({a} \cup {b}) \cup {c} = {a, b, c}
  OBVIOUS
<1>5. /\ IsFiniteSet(S) /\ Cardinality(S) <= Cardinality({a, b, c})
  BY <1>3, <1>4, FS_Subset
<1>6. Cardinality({a, b, c}) \in {1, 2, 3} /\ Cardinality(S) \in Nat
  BY <1>3, <1>4, <1>5, FS_CardinalityType
<1> DEFINE m == Cardinality(S)
           n == Cardinality({a, b, c})
<1> HIDE DEF m, n
<1>7. m \in Nat /\ n \in {1, 2, 3} /\ m <= n
  BY <1>5, <1>6 DEF m, n
<1>8. m <= 3
  BY <1>7
<1> QED
  BY <1>5, <1>8 DEF m

\* Every key expires within a bucket's length, and an IP never has more than three.
THEOREM KeysDoExpire == Spec => []KeysExpire
<1>1. IInv => KeysExpire
  <2> SUFFICES ASSUME IInv PROVE KeysExpire
    OBVIOUS
  <2>1. Typed /\ Living
    BY DEF IInv
  <2>2. \A k \in DOMAIN counters : counters[k].expires \in (clock + 1)..(clock + Bucket)
    BY <2>1 DEF Living, Lives
  <2>3. ASSUME NEW ip \in Ips PROVE Cardinality({k \in DOMAIN counters : k[1] = ip}) <= 3
    <3> DEFINE x == clock + MaxSkew
               m == x \div Bucket
    <3>1. x \in Nat /\ clock \in Nat
      BY <2>1, BucketFacts DEF Typed
    <3>2. ASSUME NEW k \in DOMAIN counters, k[1] = ip
          PROVE  k \in {<<ip, m>>, <<ip, m - 1>>, <<ip, m - 2>>}
      <4>1. k \in Keys /\ counters[k] \in Entries /\ Lives(k, counters[k], clock)
        BY <2>1 DEF Typed, Living
      <4>2. k[2] \in Nat /\ k = <<ip, k[2]>> /\ counters[k].expires \in Nat
        BY <3>2, <4>1 DEF Keys, Entries
      <4> DEFINE from == k[2] * Bucket
      <4>3. from \in Int /\ Base(k[2]) = from - MaxSkew
        BY <4>2, BucketFacts DEF Base
      <4> HIDE DEF from
      <4>4. from <= x /\ x < from + 3 * Bucket
        BY <3>1, <4>1, <4>2, <4>3, BucketFacts DEF Lives
      <4>5. k[2] \in {m, m - 1, m - 2}
        BY <3>1, <4>2, <4>4, NearBuckets, BucketFacts DEF from
      <4> QED
        BY <4>2, <4>5
    <3> HIDE DEF m
    <3>3. {k \in DOMAIN counters : k[1] = ip} \in SUBSET {<<ip, m>>, <<ip, m - 1>>, <<ip, m - 2>>}
      BY <3>2
    <3> QED
      BY <3>3, ThreeElements
  <2> QED
    BY <2>2, <2>3 DEF KeysExpire
<1> QED
  BY <1>1, Invariance, PTL

\* The history passed drops a bucket only when no request can be counted in it.
Remembered ==
  \A r \in DOMAIN waiting : (clock - MaxDelay) \div Bucket <= waiting[r].bucket

\* SharedBound misses no admission: Tick forgets the buckets before that of
\* clock - MaxDelay, and a request that still waits is of none of them.
THEOREM HistoryComplete == Spec => []Remembered
<1>1. IInv => Remembered
  <2> SUFFICES ASSUME IInv, NEW r \in DOMAIN waiting
               PROVE  (clock - MaxDelay) \div Bucket <= waiting[r].bucket
    BY DEF Remembered
  <2> DEFINE x == clock - MaxDelay
             m == x \div Bucket
             b == waiting[r].bucket
             until == b * Bucket + Bucket
  <2>1. waiting[r] \in Waiters /\ clock \in Nat
    BY DEF IInv, Typed
  <2>2. b \in Nat /\ waiting[r].read \in Nat /\ until \in Int
    BY <2>1, BucketFacts DEF Waiters
  <2>3. clock <= waiting[r].read + MaxDelay /\ waiting[r].read < Base(b) + Bucket + MaxSkew
    BY DEF IInv, Fresh
  <2>4. Base(b) + Bucket + MaxSkew = until /\ Base(b) \in Int
    BY <2>2, BucketFacts DEF Base
  <2> HIDE DEF until, b
  <2>5. x < until /\ x \in Int
    BY <2>1, <2>2, <2>3, <2>4, BucketFacts DEF b
  <2>6. m \in Int /\ m * Bucket <= x
    BY <2>5, BucketFacts
  <2> HIDE DEF m, x
  <2>7. ~(b + 1 <= m)
    <3>1. SUFFICES ASSUME b + 1 <= m PROVE FALSE
      OBVIOUS
    <3>2. (b + 1) * Bucket <= m * Bucket
      BY <2>2, <2>6, <3>1, BucketFacts
    <3>3. until = (b + 1) * Bucket
      BY <2>2, BucketFacts DEF until
    <3> QED
      BY <2>2, <2>5, <2>6, <3>2, <3>3, BucketFacts
  <2> QED
    BY <2>2, <2>6, <2>7 DEF m, x, b
<1> QED
  BY <1>1, Invariance, PTL

--------------------------------------------------------------------------------
(* The names of what has been admitted                                     *)
(*                                                                         *)
(* OutageBound counts the histories, and a set of admissions is counted by *)
(* giving each a slot of its own.  That needs their names to tell them     *)
(* apart: the keys of a bucket follow one another, and so do the windows   *)
(* of a limiter and the lives of a replica.                                *)

\* An admission of Redis is one of the last Window ticks, of a key that was there.
Counted(a, lim, now) ==
  /\ now < a.at + Window /\ a.at <= now
  /\ a.began <= a.at /\ a.at < a.began + Bucket
  /\ Base(a.bucket) <= a.began /\ a.at < Base(a.bucket) + 2 * Bucket
  /\ a.n <= lim /\ (a.n = 1 => a.at = a.began)

\* Its key stays for a bucket's length, and only then another one may begin.
Keyed(a, keys, now) ==
  LET k == <<a.ip, a.bucket>>
  IN  /\ now < a.began + Bucket => k \in DOMAIN keys
      /\ k \in DOMAIN keys =>
           \/ a.began + Bucket = keys[k].expires /\ a.n <= keys[k].count
           \/ a.began + 2 * Bucket <= keys[k].expires

\* Two admissions of one bucket are of one key, or of keys one after the other.
Apart(a, b) ==
  a.ip = b.ip /\ a.bucket = b.bucket =>
    \/ a.began = b.began /\ (a.n = b.n => a = b)
    \/ a.began + Bucket <= b.began
    \/ b.began + Bucket <= a.began

RedisNames ==
  \A a \in byRedis :
    /\ Counted(a, limit, clock) /\ Keyed(a, counters, clock)
    /\ \A b \in byRedis : Apart(a, b)

LEMMA RedisFields ==
  ASSUME Typed, NEW a \in byRedis
  PROVE  /\ a.ip \in Ips /\ a.bucket \in Nat /\ a.began \in Int /\ a.n \in Nat \ {0} /\ a.at \in Nat
         /\ <<a.ip, a.bucket>> \in Keys /\ Base(a.bucket) \in Int
<1>1. a \in RedisAdmission
  BY DEF Typed
<1> QED
  BY <1>1, BaseInt DEF RedisAdmission, Keys

\* Runs of scripts leave every admission its key.
LEMMA KeyedKept ==
  ASSUME IInv, NEW run \in SUBSET DOMAIN waiting, Ran(run), NEW a \in byRedis,
         Keyed(a, counters, clock)
  PROVE  Keyed(a, counters', clock)
<1> DEFINE k == <<a.ip, a.bucket>>
<1>1. Typed /\ clock \in Nat /\ Bucket \in Nat \ {0}
  BY BucketFacts DEF IInv, Typed
<1>2. a.began \in Int /\ a.n \in Nat /\ k \in Keys
  BY <1>1, RedisFields
<1> HIDE DEF k
<1>3. /\ clock < a.began + Bucket => k \in DOMAIN counters
      /\ k \in DOMAIN counters => \/ a.began + Bucket = counters[k].expires /\ a.n <= counters[k].count
                                  \/ a.began + 2 * Bucket <= counters[k].expires
  BY DEF Keyed, k
<1>4. DOMAIN counters \subseteq DOMAIN counters'
  BY ScriptsRun
<1>5. ASSUME k \in DOMAIN counters'
      PROVE  \/ a.began + Bucket = counters'[k].expires /\ a.n <= counters'[k].count
             \/ a.began + 2 * Bucket <= counters'[k].expires
  <2>1. counters'[k].count \in Nat
    BY <1>5, ScriptsRun DEF Entries
  <2>2. CASE k \in DOMAIN counters
    <3>1. counters'[k].expires = counters[k].expires /\ counters'[k].count >= counters[k].count
      BY <2>2, ScriptsRun
    <3>2. counters[k].count \in Nat
      BY <1>1, <2>2 DEF Typed, Entries
    <3> QED
      BY <1>2, <1>3, <2>1, <2>2, <3>1, <3>2
  <2>3. CASE k \notin DOMAIN counters
    <3>1. counters'[k].expires = clock + Bucket
      BY <1>5, <2>3, ScriptsRun
    <3> QED
      BY <1>1, <1>2, <1>3, <2>3, <3>1
  <2> QED
    BY <2>2, <2>3
<1> QED
  BY <1>3, <1>4, <1>5 DEF Keyed, k

\* What Redis admits has a name that no other admission has had.
LEMMA RedisNamesOne ==
  ASSUME IInv, RedisNames, limit > 0, NEW r \in DOMAIN waiting, Ran({r}),
         NEW k, k = KeyOf(r), counters'[k].count <= limit, RedisAdmits(k, counters'[k])
  PROVE  \E a : /\ a \notin byRedis /\ byRedis' = byRedis \cup {a}
                /\ Counted(a, limit, clock) /\ Keyed(a, counters', clock)
                /\ \A b \in byRedis : Apart(a, b) /\ Apart(b, a)
<1> DEFINE e == counters'[k]
           a == [ip |-> k[1], bucket |-> k[2], began |-> e.expires - Bucket,
                 n |-> e.count, at |-> clock]
<1>1. /\ Typed /\ Living /\ clock \in Nat /\ limit \in Int /\ Bucket \in Nat \ {0} /\ Window \in Nat \ {0}
      /\ {r} \in SUBSET DOMAIN waiting
  BY LimitAssumption, BucketFacts DEF IInv, Typed
<1>2. /\ k \in Keys /\ k \in DOMAIN counters' /\ e \in Entries
      /\ Base(k[2]) <= clock /\ clock < Base(k[2]) + 2 * Bucket
  BY <1>1, InTime, ScriptsRun
<1>3. k[2] \in Nat /\ Base(k[2]) \in Int /\ k = <<k[1], k[2]>> /\ e.expires \in Nat /\ e.count \in Nat \ {0}
  BY <1>2, BaseInt DEF Keys, Entries
<1>4. e.count = IF k \in DOMAIN counters THEN counters[k].count + 1 ELSE 1
  BY OneScript
<1>5. /\ k \in DOMAIN counters => e.expires = counters[k].expires
      /\ k \notin DOMAIN counters => e.expires = clock + Bucket
  BY <1>1, <1>2, ScriptsRun
<1>6. k \in DOMAIN counters => /\ counters[k].count \in Nat \ {0} /\ Lives(k, counters[k], clock)
  BY <1>1 DEF Typed, Entries, Living
<1>7. /\ a.ip = k[1] /\ a.bucket = k[2] /\ a.n = e.count /\ a.at = clock
      /\ a.began = e.expires - Bucket /\ byRedis' = byRedis \cup {a}
  BY DEF RedisAdmits
<1> HIDE DEF a, e
<1>8. Counted(a, limit, clock)
  <2>1. CASE k \in DOMAIN counters
    <3>1. /\ e.expires \in (clock + 1)..(clock + Bucket) /\ Base(k[2]) + Bucket <= e.expires
      BY <1>5, <1>6, <2>1 DEF Lives
    <3>2. e.count # 1
      BY <1>4, <1>6, <2>1
    <3> QED
      BY <1>1, <1>2, <1>3, <1>7, <3>1, <3>2 DEF Counted, e
  <2>2. CASE k \notin DOMAIN counters
    BY <1>1, <1>2, <1>3, <1>5, <1>7, <2>2 DEF Counted, e
  <2> QED
    BY <2>1, <2>2
<1>9. Keyed(a, counters', clock)
  BY <1>1, <1>2, <1>3, <1>7 DEF Keyed, e
<1>10. ASSUME NEW b \in byRedis, b.ip = a.ip, b.bucket = a.bucket
       PROVE  \/ a.began = b.began /\ b.n < a.n
              \/ b.began + Bucket <= a.began
  <2>1. Keyed(b, counters, clock) /\ <<b.ip, b.bucket>> = k
    BY <1>3, <1>7, <1>10 DEF RedisNames
  <2>2. b.began \in Int /\ b.n \in Nat
    BY <1>1, RedisFields
  <2>3. CASE k \in DOMAIN counters
    <3>1. \/ b.began + Bucket = counters[k].expires /\ b.n <= counters[k].count
          \/ b.began + 2 * Bucket <= counters[k].expires
      BY <2>1, <2>3 DEF Keyed
    <3> QED
      BY <1>1, <1>3, <1>4, <1>5, <1>6, <1>7, <2>2, <2>3, <3>1
  <2>4. CASE k \notin DOMAIN counters
    <3>1. ~(clock < b.began + Bucket)
      BY <2>1, <2>4 DEF Keyed
    <3> QED
      BY <1>1, <1>3, <1>5, <1>7, <2>2, <2>4, <3>1
  <2> QED
    BY <2>3, <2>4
<1>11. a.began \in Int /\ a.n \in Nat
  BY <1>1, <1>3, <1>7
<1>12. a \notin byRedis
  <2>1. SUFFICES ASSUME a \in byRedis PROVE FALSE
    OBVIOUS
  <2> QED
    BY <1>1, <1>10, <1>11, <2>1
<1>13. ASSUME NEW b \in byRedis PROVE Apart(a, b) /\ Apart(b, a)
  <2>1. b.began \in Int /\ b.n \in Nat
    BY <1>1, RedisFields
  <2>2. a.ip = b.ip /\ a.bucket = b.bucket => \/ a.began = b.began /\ a.n # b.n
                                              \/ b.began + Bucket <= a.began
    BY <1>10, <1>11, <2>1
  <2> QED
    BY <2>2 DEF Apart
<1> QED
  BY <1>7, <1>8, <1>9, <1>12, <1>13

LEMMA RedisNamesSame ==
  ASSUME RedisNames, UNCHANGED <<limit, clock, counters, byRedis>>
  PROVE  RedisNames'
BY DEF RedisNames

\* Scripts run whose answers admit nothing.
LEMMA RedisNamesKept ==
  ASSUME IInv, RedisNames, NEW run \in SUBSET DOMAIN waiting, Ran(run),
         UNCHANGED <<limit, clock, byRedis>>
  PROVE  RedisNames'
<1>1. ASSUME NEW a \in byRedis PROVE Keyed(a, counters', clock)
  BY KeyedKept DEF RedisNames
<1> QED
  BY <1>1 DEF RedisNames

LEMMA RedisNamesRun == ASSUME IInv, RedisNames, NEW r \in Reqs, Run(r) PROVE RedisNames'
<1> DEFINE k == KeyOf(r)
<1>1. /\ r \in DOMAIN waiting /\ {r} \in SUBSET DOMAIN waiting /\ Ran({r})
      /\ UNCHANGED <<limit, clock>>
  BY DEF Run
<1>2. limit > 0
  BY <1>1, LimitAssumption DEF IInv, Typed, Unasked
<1>3. CASE UNCHANGED byRedis
  BY <1>1, <1>3, RedisNamesKept
<1>4. CASE counters'[k].count <= limit /\ RedisAdmits(k, counters'[k])
  <2>1. PICK a : /\ a \notin byRedis /\ byRedis' = byRedis \cup {a}
                 /\ Counted(a, limit, clock) /\ Keyed(a, counters', clock)
                 /\ \A b \in byRedis : Apart(a, b) /\ Apart(b, a)
    BY <1>1, <1>2, <1>4, RedisNamesOne
  <2>2. ASSUME NEW b \in byRedis PROVE Keyed(b, counters', clock)
    BY <1>1, KeyedKept DEF RedisNames
  <2>3. Apart(a, a)
    BY DEF Apart
  <2> QED
    BY <1>1, <2>1, <2>2, <2>3 DEF RedisNames
<1> QED
  BY <1>3, <1>4 DEF Run

LEMMA RedisNamesTick == ASSUME IInv, RedisNames, Tick PROVE RedisNames'
<1>1. Typed /\ clock \in Nat /\ clock' = clock + 1 /\ limit' = limit /\ Bucket \in Nat \ {0}
  BY BucketFacts DEF IInv, Typed, Tick
<1> DEFINE alive == {k \in DOMAIN counters : counters[k].expires > clock + 1}
<1>2. /\ DOMAIN counters' = alive /\ \A k \in alive : counters'[k] = counters[k]
  BY DEF Tick, Restrict
<1>3. byRedis' = {a \in byRedis : clock + 1 < a.at + Window}
  BY DEF Tick
<1>4. ASSUME NEW a \in byRedis'
      PROVE  a \in byRedis /\ Counted(a, limit, clock + 1) /\ Keyed(a, counters', clock + 1)
  <2>1. a \in byRedis /\ clock + 1 < a.at + Window
    BY <1>3
  <2>2. Counted(a, limit, clock) /\ Keyed(a, counters, clock)
    BY <2>1 DEF RedisNames
  <2> DEFINE k == <<a.ip, a.bucket>>
  <2>3. a.at \in Nat /\ a.began \in Int /\ k \in Keys
    BY <1>1, <2>1, RedisFields
  <2> HIDE DEF k
  <2>4. Counted(a, limit, clock + 1)
    BY <1>1, <2>1, <2>2, <2>3 DEF Counted
  <2>5. k \in DOMAIN counters =>
          /\ counters[k].expires \in (clock + 1)..(clock + Bucket)
          /\ \/ a.began + Bucket = counters[k].expires /\ a.n <= counters[k].count
             \/ a.began + 2 * Bucket <= counters[k].expires
    BY <2>2 DEF Keyed, k, IInv, Living, Lives
  <2>6. clock + 1 < a.began + Bucket => k \in alive
    <3>1. SUFFICES ASSUME clock + 1 < a.began + Bucket PROVE k \in alive
      OBVIOUS
    <3>2. clock < a.began + Bucket
      BY <1>1, <2>3, <3>1
    <3>3. k \in DOMAIN counters
      BY <2>2, <3>2 DEF Keyed, k
    <3>4. counters[k].expires \in Int /\ counters[k].expires > clock + 1
      BY <1>1, <2>3, <2>5, <3>1, <3>3
    <3> QED
      BY <3>3, <3>4
  <2>7. k \in alive => \/ a.began + Bucket = counters'[k].expires /\ a.n <= counters'[k].count
                       \/ a.began + 2 * Bucket <= counters'[k].expires
    BY <1>2, <2>5
  <2>8. Keyed(a, counters', clock + 1)
    BY <1>2, <2>6, <2>7 DEF Keyed, k
  <2> QED
    BY <2>1, <2>4, <2>8
<1> QED
  BY <1>1, <1>4 DEF RedisNames

LEMMA RedisNamesStep == ASSUME IInv, RedisNames, [Next]_vars PROVE RedisNames'
<1>1. CASE \E r \in Reqs, rep \in Replicas, ip \in Ips : Receive(r, rep, ip)
  BY <1>1, RedisNamesSame DEF Receive
<1>2. ASSUME NEW r \in Reqs, Run(r) PROVE RedisNames'
  BY <1>2, RedisNamesRun
<1>3. ASSUME NEW r \in Reqs, Fail(r) PROVE RedisNames'
  <2>1. UNCHANGED <<limit, clock, byRedis>> /\ {r} \in SUBSET DOMAIN waiting
    BY <1>3 DEF Fail
  <2> QED
    BY <1>3, <2>1, RedisNamesSame, RedisNamesKept DEF Fail
<1>4. ASSUME NEW rep \in Replicas, Restart(rep) PROVE RedisNames'
  <2>1. PICK run \in SUBSET {r \in DOMAIN waiting : waiting[r].rep = rep} : Ran(run)
    BY <1>4 DEF Restart
  <2>2. UNCHANGED <<limit, clock, byRedis>> /\ run \in SUBSET DOMAIN waiting
    BY <1>4 DEF Restart
  <2> QED
    BY <2>1, <2>2, RedisNamesKept
<1>5. CASE Tick
  BY <1>5, RedisNamesTick
<1>6. CASE Bypass \/ Horizon \/ UNCHANGED vars
  BY <1>6, RedisNamesSame DEF Bypass, Horizon, vars
<1> QED
  BY <1>1, <1>2, <1>3, <1>4, <1>5, <1>6 DEF Next

\* An admission of a replica is one of the last Window ticks, while its window lasted.
Allowed(a, lim, ends, now) ==
  /\ now < a.at + Window /\ a.at <= now
  /\ a.began <= a.at /\ a.at <= a.began + Window
  /\ a.n <= lim /\ (a.n = 1 => a.at = a.began)
  /\ a.end <= ends

\* Its limiter counts in the same window still, or in one begun after its end;
\* the limiter of a later life began to count after the admission.
Listed(a, hits, now) ==
  IF a.ip \in DOMAIN hits
  THEN LET w == hits[a.ip]
       IN  IF a.end = 0
           THEN \/ a.began + Window = w.reset /\ a.n <= w.count
                \/ a.began + 2 * Window < w.reset
           ELSE a.at + Window <= w.reset
  ELSE a.end = 0 => a.began + Window < now

\* Two admissions of one limiter are of one window, or of windows one after the
\* other; those of two lives of a replica do not mix.
InTurn(a, b) ==
  /\ a.rep = b.rep /\ a.ip = b.ip =>
       IF a.end = b.end
       THEN \/ a.began = b.began /\ (a.n = b.n => a = b)
            \/ a.began + Window < b.began
            \/ b.began + Window < a.began
       ELSE a.at <= b.began \/ b.at <= a.began
  /\ a.end = b.end /\ a.end # 0 => a.rep = b.rep

Begun(w, now) == w.count # 0 /\ w.reset <= now + Window

ReplicaNames ==
  /\ \A a \in byReplica :
       /\ Allowed(a, limit, restarts, clock) /\ Listed(a, local[a.rep].hits, clock)
       /\ \A b \in byReplica : InTurn(a, b)
  /\ \A rep \in Replicas : \A ip \in DOMAIN local[rep].hits : Begun(local[rep].hits[ip], clock)

LEMMA ReplicaFields ==
  ASSUME Typed, NEW a \in byReplica
  PROVE  /\ a.rep \in Replicas /\ a.ip \in Ips /\ a.began \in Int /\ a.n \in Nat \ {0}
         /\ a.at \in Nat /\ a.end \in Nat
<1>1. a \in ReplicaAdmission
  BY DEF Typed
<1> QED
  BY <1>1 DEF ReplicaAdmission

LEMMA HitsFields ==
  ASSUME Typed, NEW rep \in Replicas, NEW ip \in DOMAIN local[rep].hits
  PROVE  ip \in Ips /\ local[rep].hits[ip] \in IpWindow
         /\ local[rep].hits[ip].count \in Nat /\ local[rep].hits[ip].reset \in Int
<1>1. local[rep].hits \in Tables
  BY DEF Typed, Limiters
<1>2. ip \in Ips /\ local[rep].hits[ip] \in IpWindow
  BY <1>1 DEF Tables
<1> QED
  BY <1>2 DEF IpWindow

\* What an entry is after a hit: one more in its window, or the first of another.
Hit(hits, ip, w, now) ==
  \/ /\ ip \in DOMAIN hits /\ now <= hits[ip].reset
     /\ w.reset = hits[ip].reset /\ w.count = hits[ip].count + 1
  \/ /\ ip \in DOMAIN hits => hits[ip].reset < now
     /\ w.reset = now + Window /\ w.count = 1

LEMMA FallbackFacts ==
  ASSUME Typed, NEW rep \in Replicas, NEW ip \in Ips, Fallback(rep, ip)
  PROVE  LET hits == local[rep].hits
             then == local'[rep].hits
         IN  /\ \A other \in Replicas \ {rep} : local'[other] = local[other]
             /\ ip \in DOMAIN then /\ DOMAIN then \subseteq DOMAIN hits \cup {ip}
             /\ \A i \in DOMAIN then \ {ip} : then[i] = hits[i]
             /\ \A i \in DOMAIN hits \ DOMAIN then : hits[i].reset < clock
             /\ Hit(hits, ip, then[ip], clock)
             /\ \/ UNCHANGED byReplica /\ then[ip].count > limit
                \/ ReplicaAdmits(rep, ip, then[ip]) /\ ~(then[ip].count > limit)
<1> DEFINE mine == local[rep]
           hits == mine.hits
           due  == SweepDue(mine.lastSwip, clock)
           kept == IF due THEN Sweep(hits, clock) ELSE hits
           w    == CountHit(kept, ip, clock)
           then == local'[rep].hits
<1>1. clock \in Nat /\ Window \in Nat \ {0} /\ local \in [Replicas -> Limiters]
  BY BucketFacts DEF Typed
<1>2. \A i \in DOMAIN hits : hits[i] \in IpWindow /\ hits[i].count \in Nat /\ hits[i].reset \in Int
  BY HitsFields DEF Typed
<1>3. /\ local' = [local EXCEPT ![rep] = [hits     |-> Store(kept, ip, w),
                                          lastSwip |-> IF due THEN clock ELSE mine.lastSwip]]
      /\ IF w.count > limit THEN UNCHANGED byReplica ELSE ReplicaAdmits(rep, ip, w)
  BY DEF Fallback
<1>4. /\ DOMAIN kept \subseteq DOMAIN hits
      /\ \A i \in DOMAIN kept : kept[i] = hits[i]
      /\ \A i \in DOMAIN hits \ DOMAIN kept : hits[i].reset < clock
  BY <1>1, <1>2 DEF Sweep, Restrict
<1>5. Hit(hits, ip, w, clock)
  <2>1. CASE ip \notin DOMAIN kept \/ clock > kept[ip].reset
    <3>1. w = [count |-> 1, reset |-> clock + Window]
      BY <2>1 DEF CountHit
    <3>2. ip \in DOMAIN hits => hits[ip].reset < clock
      BY <1>1, <1>2, <1>4, <2>1
    <3> QED
      BY <3>1, <3>2 DEF Hit
  <2>2. CASE ip \in DOMAIN kept /\ ~(clock > kept[ip].reset)
    <3>1. w = [kept[ip] EXCEPT !.count = kept[ip].count + 1]
      BY <2>2 DEF CountHit
    <3>2. kept[ip] = hits[ip] /\ ip \in DOMAIN hits
      BY <1>4, <2>2
    <3>3. hits[ip] \in IpWindow /\ clock <= hits[ip].reset
      BY <1>1, <1>2, <2>2, <3>2
    <3> HIDE DEF w, kept, hits
    <3>4. w.reset = hits[ip].reset /\ w.count = hits[ip].count + 1
      BY <3>1, <3>2, <3>3 DEF IpWindow
    <3> QED
      BY <3>2, <3>3, <3>4 DEF Hit
  <2> QED
    BY <2>1, <2>2
<1> HIDE DEF kept, w, due
<1>6. then = Store(kept, ip, w) /\ \A other \in Replicas \ {rep} : local'[other] = local[other]
  BY <1>1, <1>3
<1>7. /\ DOMAIN then = DOMAIN kept \cup {ip} /\ then[ip] = w
      /\ \A i \in DOMAIN then \ {ip} : then[i] = kept[i]
  BY <1>6 DEF Store
<1> HIDE DEF then
<1>8. ip \in DOMAIN then /\ DOMAIN then \subseteq DOMAIN hits \cup {ip}
  BY <1>4, <1>7
<1>9. \A i \in DOMAIN then \ {ip} : then[i] = hits[i]
  BY <1>4, <1>7
<1>10. \A i \in DOMAIN hits \ DOMAIN then : hits[i].reset < clock
  BY <1>4, <1>7
<1>11. Hit(hits, ip, then[ip], clock)
  BY <1>5, <1>7
<1>12. \/ UNCHANGED byReplica /\ then[ip].count > limit
       \/ ReplicaAdmits(rep, ip, then[ip]) /\ ~(then[ip].count > limit)
  BY <1>3, <1>7
<1> QED
  BY <1>6, <1>8, <1>9, <1>10, <1>11, <1>12 DEF then

\* An admission of the limiter, or of an earlier life, and a window that ends no earlier.
Before(a, w) ==
  IF a.end = 0
  THEN \/ a.began + Window = w.reset /\ a.n < w.count
       \/ a.began + 2 * Window < w.reset
  ELSE a.at + Window <= w.reset

\* A hit gives its window a count that no admission before has had.
LEMMA HitsLater ==
  ASSUME Typed, ReplicaNames, NEW a \in byReplica, NEW w, w.reset \in Int, w.count \in Nat,
         a.ip \in Ips, Hit(local[a.rep].hits, a.ip, w, clock)
  PROVE  Before(a, w)
<1> DEFINE hits == local[a.rep].hits
           old == hits[a.ip]
<1>1. /\ clock \in Nat /\ Window \in Nat \ {0} /\ a.began \in Int /\ a.n \in Nat /\ a.at \in Nat
      /\ a.end \in Nat
  BY BucketFacts, ReplicaFields DEF Typed
<1>2. a.ip \in DOMAIN hits => old.count \in Nat /\ old.reset \in Int
  BY HitsFields, ReplicaFields
<1>3. a.at <= clock /\ Listed(a, hits, clock)
  BY DEF ReplicaNames, Allowed
<1>4. Hit(hits, a.ip, w, clock)
  OBVIOUS
<1> HIDE DEF hits
<1>5. CASE a.end = 0
  <2>1. CASE a.ip \in DOMAIN hits
    <3>1. \/ a.began + Window = old.reset /\ a.n <= old.count
          \/ a.began + 2 * Window < old.reset
      BY <1>3, <1>5, <2>1 DEF Listed
    <3>2. \/ clock <= old.reset /\ w.reset = old.reset /\ w.count = old.count + 1
          \/ old.reset < clock /\ w.reset = clock + Window
      BY <1>4, <2>1 DEF Hit
    <3> HIDE DEF old
    <3>3. \/ a.began + Window = w.reset /\ a.n < w.count
          \/ a.began + 2 * Window < w.reset
      BY <1>1, <1>2, <2>1, <3>1, <3>2
    <3> QED
      BY <1>5, <3>3 DEF Before
  <2>2. CASE a.ip \notin DOMAIN hits
    <3>1. a.began + Window < clock /\ w.reset = clock + Window
      BY <1>3, <1>4, <1>5, <2>2 DEF Listed, Hit
    <3>2. a.began + 2 * Window < w.reset
      BY <1>1, <3>1
    <3> QED
      BY <1>5, <3>2 DEF Before
  <2> QED
    BY <2>1, <2>2
<1>6. CASE a.end # 0
  <2>1. CASE a.ip \in DOMAIN hits
    <3>1. a.at + Window <= old.reset
      BY <1>3, <1>6, <2>1 DEF Listed
    <3>2. w.reset = old.reset \/ w.reset = clock + Window
      BY <1>4, <2>1 DEF Hit
    <3> HIDE DEF old
    <3>3. a.at + Window <= w.reset
      BY <1>1, <1>2, <1>3, <2>1, <3>1, <3>2
    <3> QED
      BY <1>6, <3>3 DEF Before
  <2>2. CASE a.ip \notin DOMAIN hits
    <3>1. w.reset = clock + Window
      BY <1>4, <2>2 DEF Hit
    <3>2. a.at + Window <= w.reset
      BY <1>1, <1>3, <3>1
    <3> QED
      BY <1>6, <3>2 DEF Before
  <2> QED
    BY <2>1, <2>2
<1> QED
  BY <1>5, <1>6

\* A hit leaves what is known of every admission, and windows begin in the past.
LEMMA FallbackLists ==
  ASSUME Typed, ReplicaNames, NEW rep \in Replicas, NEW ip \in Ips, Fallback(rep, ip),
         local' \in [Replicas -> Limiters]
  PROVE  /\ \A a \in byReplica : Listed(a, local'[a.rep].hits, clock)
         /\ \A other \in Replicas : \A i \in DOMAIN local'[other].hits :
              Begun(local'[other].hits[i], clock)
<1> DEFINE hits == local[rep].hits
           then == local'[rep].hits
           w == then[ip]
<1>1. /\ \A other \in Replicas \ {rep} : local'[other] = local[other]
      /\ ip \in DOMAIN then /\ DOMAIN then \subseteq DOMAIN hits \cup {ip}
      /\ \A i \in DOMAIN then \ {ip} : then[i] = hits[i]
      /\ \A i \in DOMAIN hits \ DOMAIN then : hits[i].reset < clock
      /\ Hit(hits, ip, w, clock)
  BY FallbackFacts
<1>2. clock \in Nat /\ Window \in Nat \ {0}
  BY BucketFacts DEF Typed
<1>3. w.count \in Nat /\ w.reset \in Int
  <2>1. then \in Tables
    BY DEF Limiters
  <2> QED
    BY <1>1, <2>1 DEF Tables, IpWindow
<1>4. \A i \in DOMAIN hits : hits[i].count \in Nat /\ hits[i].reset \in Int
  BY HitsFields
<1>5. \A i \in DOMAIN hits : Begun(hits[i], clock)
  BY DEF ReplicaNames
<1>6. \A a \in byReplica : Listed(a, local[a.rep].hits, clock) /\ a.rep \in Replicas
                           /\ a.ip \in Ips /\ a.began \in Int /\ a.n \in Nat /\ a.end \in Nat
  BY ReplicaFields DEF ReplicaNames
<1>7. ASSUME NEW a \in byReplica, a.rep = rep, a.ip = ip PROVE Before(a, w)
  BY <1>1, <1>3, <1>7, HitsLater
<1> HIDE DEF then, hits
<1>8. ASSUME NEW a \in byReplica, a.rep = rep PROVE Listed(a, then, clock)
  <2>1. CASE a.ip = ip
    <3>1. Before(a, w)
      BY <1>7, <1>8, <2>1
    <3>2. a.end = 0 => \/ a.began + Window = w.reset /\ a.n <= w.count
                       \/ a.began + 2 * Window < w.reset
      BY <1>3, <1>6, <3>1 DEF Before
    <3>3. a.end # 0 => a.at + Window <= w.reset
      BY <3>1 DEF Before
    <3> QED
      BY <1>1, <2>1, <3>2, <3>3 DEF Listed
  <2>2. CASE a.ip # ip /\ a.ip \in DOMAIN then
    <3>1. a.ip \in DOMAIN hits /\ then[a.ip] = hits[a.ip]
      BY <1>1, <2>2
    <3> QED
      BY <1>6, <1>8, <2>2, <3>1 DEF Listed, hits
  <2>3. CASE a.ip # ip /\ a.ip \notin DOMAIN then
    <3>1. SUFFICES ASSUME a.end = 0 PROVE a.began + Window < clock
      BY <2>3 DEF Listed
    <3>2. Listed(a, hits, clock)
      BY <1>6, <1>8 DEF hits
    <3>3. CASE a.ip \in DOMAIN hits
      <4>1. hits[a.ip].reset < clock
        BY <1>1, <2>3, <3>3
      <4>2. \/ a.began + Window = hits[a.ip].reset
            \/ a.began + 2 * Window < hits[a.ip].reset
        BY <3>1, <3>2, <3>3 DEF Listed
      <4> QED
        BY <1>2, <1>4, <1>6, <3>3, <4>1, <4>2
    <3>4. CASE a.ip \notin DOMAIN hits
      BY <3>1, <3>2, <3>4 DEF Listed
    <3> QED
      BY <3>3, <3>4
  <2> QED
    BY <2>1, <2>2, <2>3
<1>9. Begun(w, clock)
  <2>1. CASE ip \in DOMAIN hits /\ w.reset = hits[ip].reset /\ w.count = hits[ip].count + 1
    <3>1. hits[ip].reset <= clock + Window /\ w.count # 0
      BY <1>4, <1>5, <2>1 DEF Begun
    <3> QED
      BY <2>1, <3>1 DEF Begun
  <2>2. CASE w.reset = clock + Window /\ w.count = 1
    BY <1>2, <2>2 DEF Begun
  <2> QED
    BY <1>1, <2>1, <2>2 DEF Hit
<1>10. \A i \in DOMAIN then : Begun(then[i], clock)
  BY <1>1, <1>5, <1>9
<1>11. \A a \in byReplica : Listed(a, local'[a.rep].hits, clock)
  BY <1>1, <1>6, <1>8 DEF then
<1>12. \A other \in Replicas : \A i \in DOMAIN local'[other].hits : Begun(local'[other].hits[i], clock)
  BY <1>1, <1>10 DEF then, ReplicaNames
<1> QED
  BY <1>11, <1>12

\* What a replica admits has a name that no other admission has.
LEMMA ReplicaNamesOne ==
  ASSUME Typed, ReplicaNames, NEW rep \in Replicas, NEW ip \in Ips, Fallback(rep, ip),
         local' \in [Replicas -> Limiters], ~(local'[rep].hits[ip].count > limit),
         limit \in Int, restarts \in Nat
  PROVE  \E a : /\ a \notin byReplica /\ byReplica' = byReplica \cup {a} /\ a.rep \in Replicas
                /\ Allowed(a, limit, restarts, clock) /\ Listed(a, local'[a.rep].hits, clock)
                /\ \A b \in byReplica : InTurn(a, b) /\ InTurn(b, a)
<1> DEFINE hits == local[rep].hits
           then == local'[rep].hits
           w == then[ip]
           a == [rep |-> rep, ip |-> ip, began |-> w.reset - Window,
                 n |-> w.count, at |-> clock, end |-> 0]
<1>1. ip \in DOMAIN then /\ Hit(hits, ip, w, clock) /\ ReplicaAdmits(rep, ip, w) /\ ~(w.count > limit)
  BY FallbackFacts
<1>2. clock \in Nat /\ Window \in Nat \ {0}
  BY BucketFacts DEF Typed
<1>3. w.count \in Nat /\ w.reset \in Int
  <2>1. then \in Tables
    BY DEF Limiters
  <2> QED
    BY <1>1, <2>1 DEF Tables, IpWindow
<1>4. /\ a.rep = rep /\ a.ip = ip /\ a.began = w.reset - Window /\ a.n = w.count
      /\ a.at = clock /\ a.end = 0 /\ byReplica' = byReplica \cup {a}
  BY <1>1 DEF ReplicaAdmits
<1>5. ASSUME NEW b \in byReplica, b.rep = rep, b.ip = ip PROVE Before(b, w)
  BY <1>1, <1>3, <1>5, HitsLater
<1>6. ip \in DOMAIN hits =>
        /\ hits[ip].count \in Nat /\ hits[ip].reset \in Int
        /\ hits[ip].count # 0 /\ hits[ip].reset <= clock + Window
  BY HitsFields DEF ReplicaNames, Begun
<1> HIDE DEF a, w, then
<1>7. a.began \in Int /\ a.n \in Nat
  BY <1>2, <1>3, <1>4
<1>8. Allowed(a, limit, restarts, clock)
  <2>1. CASE /\ ip \in DOMAIN hits /\ clock <= hits[ip].reset
             /\ w.reset = hits[ip].reset /\ w.count = hits[ip].count + 1
    <3>1. w.reset <= clock + Window /\ clock <= w.reset /\ w.count # 1
      BY <1>6, <2>1
    <3> QED
      BY <1>1, <1>2, <1>3, <1>4, <3>1 DEF Allowed
  <2>2. CASE w.reset = clock + Window /\ w.count = 1
    BY <1>1, <1>2, <1>3, <1>4, <2>2 DEF Allowed
  <2> QED
    BY <1>1, <2>1, <2>2 DEF Hit
<1>9. Listed(a, local'[a.rep].hits, clock)
  <2>1. a.began + Window = w.reset /\ a.n <= w.count
    BY <1>2, <1>3, <1>4
  <2> QED
    BY <1>1, <1>4, <2>1 DEF Listed, w, then
<1>10. ASSUME NEW b \in byReplica, b.rep = rep, b.ip = ip
       PROVE  /\ b.end = 0 => \/ a.began = b.began /\ b.n # a.n
                              \/ b.began + Window < a.began
              /\ b.end # 0 => b.at <= a.began
  <2>1. b.began \in Int /\ b.n \in Nat /\ b.at \in Nat
    BY ReplicaFields
  <2>2. Before(b, w)
    BY <1>5, <1>10
  <2>3. b.end = 0 => \/ b.began + Window = w.reset /\ b.n < w.count
                     \/ b.began + 2 * Window < w.reset
    BY <2>2 DEF Before
  <2>4. b.end # 0 => b.at + Window <= w.reset
    BY <2>2 DEF Before
  <2>5. b.end = 0 => \/ a.began = b.began /\ b.n # a.n
                     \/ b.began + Window < a.began
    BY <1>2, <1>3, <1>4, <1>7, <2>1, <2>3
  <2>6. b.end # 0 => b.at <= a.began
    BY <1>2, <1>3, <1>4, <1>7, <2>1, <2>4
  <2> QED
    BY <2>5, <2>6
<1>11. a \notin byReplica
  <2>1. SUFFICES ASSUME a \in byReplica PROVE FALSE
    OBVIOUS
  <2> QED
    BY <1>2, <1>4, <1>7, <1>10, <2>1
<1>12. ASSUME NEW b \in byReplica PROVE InTurn(a, b) /\ InTurn(b, a)
  BY <1>4, <1>10 DEF InTurn
<1> QED
  BY <1>4, <1>8, <1>9, <1>11, <1>12

LEMMA ReplicaNamesSame ==
  ASSUME ReplicaNames, UNCHANGED <<limit, clock, local, byReplica, restarts>>
  PROVE  ReplicaNames'
BY DEF ReplicaNames

LEMMA ReplicaNamesFallback ==
  ASSUME Typed, Typed', ReplicaNames, NEW rep \in Replicas, NEW ip \in Ips, Fallback(rep, ip),
         UNCHANGED <<limit, clock, restarts>>
  PROVE  ReplicaNames'
<1>1. /\ \A a \in byReplica : Listed(a, local'[a.rep].hits, clock)
      /\ \A other \in Replicas : \A i \in DOMAIN local'[other].hits :
           Begun(local'[other].hits[i], clock)
  BY FallbackLists DEF Typed
<1>2. CASE UNCHANGED byReplica
  BY <1>1, <1>2 DEF ReplicaNames
<1>3. CASE ~(local'[rep].hits[ip].count > limit)
  <2>1. limit \in Int /\ restarts \in Nat
    BY LimitAssumption DEF Typed
  <2>2. PICK a : /\ a \notin byReplica /\ byReplica' = byReplica \cup {a} /\ a.rep \in Replicas
                 /\ Allowed(a, limit, restarts, clock) /\ Listed(a, local'[a.rep].hits, clock)
                 /\ \A b \in byReplica : InTurn(a, b) /\ InTurn(b, a)
    BY <1>3, <2>1, ReplicaNamesOne DEF Typed
  <2>3. InTurn(a, a)
    BY DEF InTurn
  <2> QED
    BY <1>1, <2>2, <2>3 DEF ReplicaNames
<1> QED
  BY <1>2, <1>3, FallbackFacts

LEMMA ReplicaNamesTick == ASSUME Typed, ReplicaNames, Tick PROVE ReplicaNames'
<1>1. /\ clock \in Nat /\ clock' = clock + 1 /\ Window \in Nat \ {0}
      /\ UNCHANGED <<limit, local, restarts>>
  BY BucketFacts DEF Typed, Tick
<1>2. byReplica' = {a \in byReplica : clock + 1 < a.at + Window}
  BY DEF Tick
<1>3. ASSUME NEW a \in byReplica'
      PROVE  /\ a \in byReplica /\ Allowed(a, limit, restarts, clock + 1)
             /\ Listed(a, local[a.rep].hits, clock + 1)
  <2>1. a \in byReplica /\ clock + 1 < a.at + Window
    BY <1>2
  <2>2. a.at \in Nat /\ a.began \in Int
    BY <2>1, ReplicaFields
  <2>3. Allowed(a, limit, restarts, clock) /\ Listed(a, local[a.rep].hits, clock)
    BY <2>1 DEF ReplicaNames
  <2>4. Allowed(a, limit, restarts, clock + 1)
    BY <1>1, <2>1, <2>2, <2>3 DEF Allowed
  <2>5. a.began + Window < clock => a.began + Window < clock + 1
    BY <1>1, <2>2
  <2>6. Listed(a, local[a.rep].hits, clock + 1)
    BY <2>3, <2>5 DEF Listed
  <2> QED
    BY <2>1, <2>4, <2>6
<1>4. ASSUME NEW rep \in Replicas, NEW ip \in DOMAIN local[rep].hits
      PROVE  Begun(local[rep].hits[ip], clock + 1)
  <2>1. Begun(local[rep].hits[ip], clock) /\ local[rep].hits[ip].reset \in Int
    BY HitsFields DEF ReplicaNames
  <2> QED
    BY <1>1, <2>1 DEF Begun
<1> QED
  BY <1>1, <1>3, <1>4 DEF ReplicaNames

LEMMA ReplicaNamesRestart ==
  ASSUME Typed, ReplicaNames, NEW rep \in Replicas, Restart(rep)
  PROVE  ReplicaNames'
<1> DEFINE now(a) == Ending(rep, a)
<1>1. /\ restarts \in Nat /\ restarts' = restarts + 1 /\ UNCHANGED <<limit, clock>>
      /\ local \in [Replicas -> Limiters] /\ local' = [local EXCEPT ![rep] = NewRateLimiter]
      /\ byReplica' = {now(a) : a \in byReplica}
  BY DelayAssumption DEF Restart, Typed
<1>2. ASSUME NEW a \in byReplica
      PROVE  /\ now(a).rep = a.rep /\ now(a).ip = a.ip /\ now(a).began = a.began
             /\ now(a).n = a.n /\ now(a).at = a.at
             /\ now(a).end = IF a.rep = rep /\ a.end = 0 THEN restarts + 1 ELSE a.end
             /\ a.end \in Nat /\ a.end <= restarts /\ a.rep \in Replicas
             /\ a.began \in Int /\ a.at \in Nat
  <2>1. a \in ReplicaAdmission /\ a.end <= restarts
    BY DEF Typed, ReplicaNames, Allowed
  <2> QED
    BY <2>1 DEF ReplicaAdmission, Ending
<1> HIDE DEF now
<1>3. /\ \A other \in Replicas \ {rep} : local'[other].hits = local[other].hits
      /\ DOMAIN local'[rep].hits = {}
  BY <1>1 DEF NewRateLimiter
<1>4. ASSUME NEW a \in byReplica
      PROVE  /\ Allowed(now(a), limit, restarts + 1, clock)
             /\ Listed(now(a), local'[now(a).rep].hits, clock)
  <2>1. Allowed(a, limit, restarts, clock) /\ Listed(a, local[a.rep].hits, clock)
    BY DEF ReplicaNames
  <2>2. Allowed(now(a), limit, restarts + 1, clock)
    <3>1. now(a).end <= restarts + 1
      BY <1>1, <1>2
    <3> QED
      BY <1>2, <2>1, <3>1 DEF Allowed
  <2>3. CASE a.rep = rep
    <3>1. now(a).end # 0 /\ now(a).ip \notin DOMAIN local'[now(a).rep].hits
      BY <1>1, <1>2, <1>3, <2>3
    <3> QED
      BY <2>2, <3>1 DEF Listed
  <2>4. CASE a.rep # rep
    <3>1. local'[now(a).rep].hits = local[a.rep].hits /\ now(a).end = a.end
      BY <1>2, <1>3, <2>4
    <3> QED
      BY <1>2, <2>1, <2>2, <3>1 DEF Listed
  <2> QED
    BY <2>3, <2>4
<1>5. ASSUME NEW a \in byReplica, NEW b \in byReplica PROVE InTurn(now(a), now(b))
  <2>1. InTurn(a, b)
    BY DEF ReplicaNames
  <2>2. /\ a.end = b.end /\ a.rep = b.rep => now(a).end = now(b).end
        /\ a.rep = b.rep /\ now(a).end = now(b).end => a.end = b.end
    BY <1>1, <1>2
  <2>3. now(a).end = now(b).end /\ now(a).end # 0 => a.rep = b.rep
    <3>1. SUFFICES ASSUME now(a).end = now(b).end, now(a).end # 0 PROVE a.rep = b.rep
      OBVIOUS
    <3>2. CASE now(a).end = restarts + 1
      <4>1. ASSUME NEW c \in byReplica, now(c).end = restarts + 1 PROVE c.rep = rep
        BY <1>1, <1>2, <4>1
      <4> QED
        BY <3>1, <3>2, <4>1
    <3>3. CASE now(a).end # restarts + 1
      <4>1. a.end = now(a).end /\ b.end = now(a).end
        BY <1>1, <1>2, <3>1, <3>3
      <4> QED
        BY <2>1, <3>1, <4>1 DEF InTurn
    <3> QED
      BY <3>2, <3>3
  <2>4. a = b => now(a) = now(b)
    OBVIOUS
  <2> QED
    BY <1>2, <2>1, <2>2, <2>3, <2>4 DEF InTurn
<1>6. ASSUME NEW other \in Replicas, NEW i \in DOMAIN local'[other].hits
      PROVE  Begun(local'[other].hits[i], clock)
  BY <1>3 DEF ReplicaNames
<1> QED
  BY <1>1, <1>4, <1>5, <1>6 DEF ReplicaNames

LEMMA ReplicaNamesStep == ASSUME IInv, IInv', ReplicaNames, [Next]_vars PROVE ReplicaNames'
<1>1. Typed /\ Typed'
  BY DEF IInv
<1>2. CASE \E r \in Reqs, rep \in Replicas, ip \in Ips : Receive(r, rep, ip)
  BY <1>2, ReplicaNamesSame DEF Receive
<1>3. ASSUME NEW r \in Reqs, Run(r) PROVE ReplicaNames'
  BY <1>3, ReplicaNamesSame DEF Run
<1>4. ASSUME NEW r \in Reqs, Fail(r) PROVE ReplicaNames'
  <2>1. /\ r \in DOMAIN waiting /\ Fallback(waiting[r].rep, waiting[r].ip)
        /\ UNCHANGED <<limit, clock, restarts>>
    BY <1>4 DEF Fail
  <2>2. waiting[r].rep \in Replicas /\ waiting[r].ip \in Ips
    BY <2>1, InTime DEF Waiters
  <2> QED
    BY <1>1, <2>1, <2>2, ReplicaNamesFallback
<1>5. ASSUME NEW rep \in Replicas, Restart(rep) PROVE ReplicaNames'
  BY <1>1, <1>5, ReplicaNamesRestart
<1>6. CASE Tick
  BY <1>1, <1>6, ReplicaNamesTick
<1>7. CASE Bypass \/ Horizon \/ UNCHANGED vars
  BY <1>7, ReplicaNamesSame DEF Bypass, Horizon, vars
<1> QED
  BY <1>2, <1>3, <1>4, <1>5, <1>6, <1>7 DEF Next

\* What the names of admissions say of the keys and windows they were counted in,
\* whoever is started anew meanwhile.
THEOREM NamesInvariant == Spec => [](IInv /\ RedisNames /\ ReplicaNames)
<1>1. Init => RedisNames /\ ReplicaNames
  BY DEF Init, RedisNames, ReplicaNames, NewRateLimiter
<1>2. IInv /\ RedisNames /\ ReplicaNames /\ [Next]_vars => (IInv /\ RedisNames /\ ReplicaNames)'
  BY Stepping, RedisNamesStep, ReplicaNamesStep
<1> QED
  BY InitInvariant, <1>1, <1>2, PTL DEF Spec

--------------------------------------------------------------------------------
(* Slots *)

LEMMA SlotsOfTheirOwn ==
  ASSUME NEW S, NEW T, IsFiniteSet(T), NEW f \in [S -> T],
         \A x, y \in S : f[x] = f[y] => x = y
  PROVE  IsFiniteSet(S) /\ Cardinality(S) <= Cardinality(T)
<1>1. f \in Injection(S, T)
  BY DEF Injection, IsInjective
<1> QED
  BY <1>1, FS_Injection

\* A window of whole seconds is as long as a bucket.
LEMMA WholeWindow == Bucket = Window
<1> DEFINE m == Window \div Second
<1>1. Window \in Nat \ {0} /\ Second \in Nat \ {0}
  BY BucketFacts
<1>2. m \in Nat /\ m * Second <= Window /\ Window < m * Second + Second
  BY <1>1, Division
<1>3. Window = m * Second + (Window % Second)
  BY <1>1
<1> HIDE DEF m
<1>4. m * Second = Window
  BY <1>1, <1>2, <1>3, WindowInSeconds
<1>5. ~(m < 1)
  BY <1>1, <1>2, <1>4
<1>6. Secs = m
  BY <1>5 DEF Secs, m
<1> QED
  BY <1>4, <1>6 DEF Bucket

\* Redis has room for 5 * limit - 2 in a window's time.  Three buckets may admit,
\* the one that the fastest clock shows and the two before it, each under a key
\* begun in that time; the two before also under one begun earlier, whose first
\* hit was earlier too.
RedisSlot(a, top) ==
  IF clock < a.began + Window
  THEN IF a.bucket = top THEN a.n ELSE IF a.bucket = top - 1 THEN limit + a.n ELSE 2 * limit + a.n
  ELSE IF a.bucket = top - 1 THEN 3 * limit + (a.n - 1) ELSE 4 * limit + (a.n - 2)

\* The bucket of an admission, and what one under an earlier key cannot be.
LEMMA RecentBucket ==
  ASSUME IInv, RedisNames, NEW a \in byRedis, NEW top, top = (clock + MaxSkew) \div Bucket
  PROVE  /\ top \in Nat /\ a.bucket \in {top, top - 1, top - 2}
         /\ a.n \in 1..limit /\ a.began \in Int
         /\ ~(clock < a.began + Window) => a.bucket # top /\ a.n # 1
<1> DEFINE x == clock + MaxSkew
           from == a.bucket * Bucket
<1>1. /\ Typed /\ clock \in Nat /\ limit \in Int /\ Bucket \in Nat \ {0} /\ Window = Bucket
      /\ MaxSkew \in Nat /\ x \in Nat
  BY BucketFacts, LimitAssumption, WholeWindow DEF IInv, Typed
<1>2. /\ a.bucket \in Nat /\ a.began \in Int /\ a.n \in Nat \ {0} /\ a.at \in Nat
  BY <1>1, RedisFields
<1>3. from \in Int /\ Base(a.bucket) = from - MaxSkew
  BY <1>1, <1>2 DEF Base
<1> HIDE DEF from
<1>4. /\ clock < a.at + Window /\ a.at <= clock /\ a.began <= a.at /\ a.at < a.began + Bucket
      /\ from - MaxSkew <= a.began /\ a.at < (from - MaxSkew) + 2 * Bucket
      /\ a.n <= limit /\ (a.n = 1 => a.at = a.began)
  BY <1>3 DEF RedisNames, Counted
<1>5. from <= x /\ x < from + 3 * Bucket
  BY <1>1, <1>2, <1>3, <1>4
<1>6. top \in Nat /\ top * Bucket <= x /\ x < top * Bucket + Bucket
  BY <1>1, Division
<1>7. a.bucket \in {top, top - 1, top - 2}
  BY <1>1, <1>2, <1>5, NearBuckets DEF from
<1>8. ASSUME ~(clock < a.began + Window) PROVE a.bucket # top /\ a.n # 1
  <2>1. a.n # 1
    BY <1>1, <1>2, <1>4, <1>8
  <2>2. x < from + Bucket => a.began + Bucket > clock
    BY <1>1, <1>2, <1>3, <1>4
  <2>3. ~(x < from + Bucket)
    BY <1>1, <1>2, <1>8, <2>2
  <2> QED
    BY <1>6, <2>1, <2>3 DEF from
<1>9. a.n \in 1..limit
  BY <1>1, <1>2, <1>4
<1> QED
  BY <1>2, <1>6, <1>7, <1>8, <1>9

\* Keys of one bucket, both begun in the last Window ticks or both before, are one.
LEMMA SameKey ==
  ASSUME IInv, RedisNames, NEW a \in byRedis, NEW b \in byRedis,
         a.ip = b.ip, a.bucket = b.bucket, a.n = b.n,
         (clock < a.began + Window) <=> (clock < b.began + Window)
  PROVE  a = b
<1>1. Typed /\ clock \in Nat /\ Bucket \in Nat \ {0} /\ Window = Bucket
  BY BucketFacts, WholeWindow DEF IInv, Typed
<1>2. a.began \in Int /\ b.began \in Int /\ a.at \in Nat /\ b.at \in Nat
  BY <1>1, RedisFields
<1>3. /\ clock < a.at + Window /\ a.at <= clock /\ a.began <= a.at /\ a.at < a.began + Bucket
      /\ clock < b.at + Window /\ b.at <= clock /\ b.began <= b.at /\ b.at < b.began + Bucket
  BY DEF RedisNames, Counted
<1>4. \/ a.began = b.began /\ (a.n = b.n => a = b)
      \/ a.began + Bucket <= b.began
      \/ b.began + Bucket <= a.began
  BY DEF RedisNames, Apart
<1>5. ~(a.began + Bucket <= b.began) /\ ~(b.began + Bucket <= a.began)
  BY <1>1, <1>2, <1>3
<1> QED
  BY <1>4, <1>5

LEMMA RedisRoom ==
  ASSUME IInv, RedisNames, limit > 0, NEW ip \in Ips
  PROVE  LET S == {a \in byRedis : a.ip = ip}
         IN  IsFiniteSet(S) /\ Cardinality(S) \in Nat /\ Cardinality(S) <= 5 * limit - 2
<1> DEFINE S == {a \in byRedis : a.ip = ip}
           top == (clock + MaxSkew) \div Bucket
           T == 1..(5 * limit - 2)
           f == [a \in S |-> RedisSlot(a, top)]
<1>1. limit \in Nat \ {0}
  BY LimitAssumption DEF IInv, Typed
<1>2. \A a \in S : /\ top \in Nat /\ a.bucket \in {top, top - 1, top - 2} /\ a.n \in 1..limit
                   /\ ~(clock < a.began + Window) => a.bucket # top /\ a.n # 1
  BY RecentBucket
<1> HIDE DEF top
<1>3. \A a \in S : RedisSlot(a, top) \in T
  <2>1. SUFFICES ASSUME NEW a \in S PROVE RedisSlot(a, top) \in T
    OBVIOUS
  <2> DEFINE n == a.n
             d == a.bucket
  <2>2. /\ top \in Nat /\ d \in {top, top - 1, top - 2} /\ n \in 1..limit
        /\ ~(clock < a.began + Window) => d # top /\ n # 1
    BY <1>2, <2>1
  <2>3. RedisSlot(a, top) =
          IF clock < a.began + Window
          THEN IF d = top THEN n ELSE IF d = top - 1 THEN limit + n ELSE 2 * limit + n
          ELSE IF d = top - 1 THEN 3 * limit + (n - 1) ELSE 4 * limit + (n - 2)
    BY DEF RedisSlot
  <2> HIDE DEF n, d
  <2> QED
    BY <1>1, <2>2, <2>3
<1>4. f \in [S -> T]
  BY <1>3
<1>5. ASSUME NEW a \in S, NEW b \in S, RedisSlot(a, top) = RedisSlot(b, top) PROVE a = b
  <2> DEFINE n == a.n
             d == a.bucket
             young == clock < a.began + Window
             m == b.n
             e == b.bucket
             fresh == clock < b.began + Window
  <2>1. /\ top \in Nat /\ d \in {top, top - 1, top - 2} /\ n \in 1..limit
        /\ e \in {top, top - 1, top - 2} /\ m \in 1..limit
        /\ ~young => d # top /\ n # 1
        /\ ~fresh => e # top /\ m # 1
    BY <1>2
  <2>2. (IF young
         THEN IF d = top THEN n ELSE IF d = top - 1 THEN limit + n ELSE 2 * limit + n
         ELSE IF d = top - 1 THEN 3 * limit + (n - 1) ELSE 4 * limit + (n - 2))
      = (IF fresh
         THEN IF e = top THEN m ELSE IF e = top - 1 THEN limit + m ELSE 2 * limit + m
         ELSE IF e = top - 1 THEN 3 * limit + (m - 1) ELSE 4 * limit + (m - 2))
    BY <1>5 DEF RedisSlot
  <2> HIDE DEF n, d, m, e, young, fresh
  <2>3. n = m /\ d = e /\ (young <=> fresh)
    BY <1>1, <2>1, <2>2
  <2> QED
    BY <2>3, SameKey DEF n, d, m, e, young, fresh
<1>6. IsFiniteSet(T) /\ Cardinality(T) = 5 * limit - 2
  <2>1. 5 * limit - 2 \in Int /\ ~(1 > 5 * limit - 2) /\ (5 * limit - 2) - 1 + 1 = 5 * limit - 2
    BY <1>1
  <2> QED
    BY <2>1, FS_Interval
<1> HIDE DEF S, T
<1>7. \A a, b \in S : f[a] = f[b] => a = b
  BY <1>5
<1>8. IsFiniteSet(S) /\ Cardinality(S) <= Cardinality(T)
  BY <1>4, <1>6, <1>7, SlotsOfTheirOwn
<1> QED
  BY <1>6, <1>8, FS_CardinalityType DEF S

\* What an admission of a replica is worth in a count of the last Window ticks.
LEMMA RecentWindow ==
  ASSUME IInv, ReplicaNames, NEW a \in byReplica
  PROVE  /\ a.rep \in Replicas /\ a.n \in 1..limit /\ a.end \in 0..restarts
         /\ ~(clock < a.began + Window) => a.n # 1
<1>1. /\ Typed /\ clock \in Nat /\ limit \in Int /\ restarts \in Nat /\ Window \in Nat \ {0}
  BY BucketFacts, LimitAssumption DEF IInv, Typed
<1>2. /\ a.rep \in Replicas /\ a.began \in Int /\ a.n \in Nat \ {0} /\ a.at \in Nat /\ a.end \in Nat
  BY <1>1, ReplicaFields
<1>3. /\ clock < a.at + Window /\ a.n <= limit /\ (a.n = 1 => a.at = a.began) /\ a.end <= restarts
  BY DEF ReplicaNames, Allowed
<1> QED
  BY <1>1, <1>2, <1>3

\* Windows of one limiter, both begun in the last Window ticks, are one; so are
\* windows of one replica both begun before, whose lives they belong to as well.
LEMMA SameWindow ==
  ASSUME IInv, ReplicaNames, NEW a \in byReplica, NEW b \in byReplica,
         a.rep = b.rep, a.ip = b.ip, a.n = b.n,
         \/ clock < a.began + Window /\ clock < b.began + Window /\ a.end = b.end
         \/ ~(clock < a.began + Window) /\ ~(clock < b.began + Window)
  PROVE  a = b
<1>1. Typed /\ clock \in Nat /\ Window \in Nat \ {0}
  BY BucketFacts DEF IInv, Typed
<1>2. a.began \in Int /\ b.began \in Int /\ a.at \in Nat /\ b.at \in Nat
  BY <1>1, ReplicaFields
<1>3. /\ clock < a.at + Window /\ a.at <= clock /\ a.began <= a.at /\ a.at <= a.began + Window
      /\ clock < b.at + Window /\ b.at <= clock /\ b.began <= b.at /\ b.at <= b.began + Window
  BY DEF ReplicaNames, Allowed
<1>4. IF a.end = b.end
      THEN \/ a.began = b.began /\ (a.n = b.n => a = b)
           \/ a.began + Window < b.began
           \/ b.began + Window < a.began
      ELSE a.at <= b.began \/ b.at <= a.began
  BY DEF ReplicaNames, InTurn
<1>5. ~(a.began + Window < b.began) /\ ~(b.began + Window < a.began)
  BY <1>1, <1>2, <1>3
<1>6. ~(clock < a.began + Window) /\ ~(clock < b.began + Window)
        => ~(a.at <= b.began) /\ ~(b.at <= a.began)
  BY <1>1, <1>2, <1>3
<1> QED
  BY <1>4, <1>5, <1>6

\* A life that has ended, or its restart, may add one window begun in that time.
Ended(a) == a.end # 0 /\ clock < a.began + Window

\* Each replica has room for 2 * limit - 1 otherwise: a window of its present
\* life begun in that time, and one begun before, whose first hit was earlier.
LEMMA PresentRoom ==
  ASSUME IInv, ReplicaNames, limit > 0, NEW ip \in Ips
  PROVE  LET S == {a \in byReplica : a.ip = ip /\ ~Ended(a)}
         IN  IsFiniteSet(S) /\ Cardinality(S) <= Cardinality(Replicas) * (2 * limit - 1)
<1> DEFINE S == {a \in byReplica : a.ip = ip /\ ~Ended(a)}
           T == 1..(2 * limit - 1)
           slot(a) == IF clock < a.began + Window THEN a.n ELSE limit + (a.n - 1)
           f == [a \in S |-> <<a.rep, slot(a)>>]
<1>1. limit \in Nat \ {0}
  BY LimitAssumption DEF IInv, Typed
<1>2. \A a \in S : /\ a \in byReplica /\ a.ip = ip /\ a.rep \in Replicas /\ a.n \in 1..limit
                   /\ ~(clock < a.began + Window) => a.n # 1
                   /\ clock < a.began + Window => a.end = 0
  BY RecentWindow DEF Ended
<1> HIDE DEF S
<1>3. f \in [S -> Replicas \X T]
  <2>1. ASSUME NEW a \in S PROVE slot(a) \in T
    <3> DEFINE n == a.n
    <3>1. n \in 1..limit /\ (~(clock < a.began + Window) => n # 1)
      BY <1>2
    <3>2. slot(a) = IF clock < a.began + Window THEN n ELSE limit + (n - 1)
      OBVIOUS
    <3> HIDE DEF n, slot
    <3> QED
      BY <1>1, <3>1, <3>2
  <2> QED
    BY <1>2, <2>1
<1>4. ASSUME NEW a \in S, NEW b \in S, f[a] = f[b] PROVE a = b
  <2>1. a.rep = b.rep /\ slot(a) = slot(b)
    BY <1>4
  <2> DEFINE n == a.n
             m == b.n
             young == clock < a.began + Window
             fresh == clock < b.began + Window
  <2>2. /\ n \in 1..limit /\ (~young => n # 1)
        /\ m \in 1..limit /\ (~fresh => m # 1)
    BY <1>2
  <2>3. (IF young THEN n ELSE limit + (n - 1)) = (IF fresh THEN m ELSE limit + (m - 1))
    BY <2>1
  <2> HIDE DEF n, m, young, fresh
  <2>4. n = m /\ (young <=> fresh)
    BY <1>1, <2>2, <2>3
  <2>5. young => a.end = b.end
    BY <1>2, <2>4 DEF young, fresh
  <2> QED
    BY <1>2, <2>1, <2>4, <2>5, SameWindow DEF n, m, young, fresh
<1>5. IsFiniteSet(T) /\ Cardinality(T) = 2 * limit - 1
  <2>1. 2 * limit - 1 \in Int /\ ~(1 > 2 * limit - 1) /\ (2 * limit - 1) - 1 + 1 = 2 * limit - 1
    BY <1>1
  <2> QED
    BY <2>1, FS_Interval
<1> HIDE DEF T, f
<1>6. /\ IsFiniteSet(Replicas \X T)
      /\ Cardinality(Replicas \X T) = Cardinality(Replicas) * (2 * limit - 1)
  BY <1>5, FS_Product, ReplicasAssumption
<1>7. IsFiniteSet(S) /\ Cardinality(S) <= Cardinality(Replicas \X T)
  BY <1>3, <1>4, <1>6, SlotsOfTheirOwn
<1> QED
  BY <1>6, <1>7 DEF S

LEMMA EndedRoom ==
  ASSUME IInv, ReplicaNames, limit > 0, NEW ip \in Ips
  PROVE  LET S == {a \in byReplica : a.ip = ip /\ Ended(a)}
         IN  IsFiniteSet(S) /\ Cardinality(S) <= restarts * limit
<1> DEFINE S == {a \in byReplica : a.ip = ip /\ Ended(a)}
           lives == 1..restarts
           counts == 1..limit
           T == lives \X counts
           f == [a \in S |-> <<a.end, a.n>>]
<1>1. limit \in Nat \ {0} /\ restarts \in Nat
  BY LimitAssumption DEF IInv, Typed
<1>2. \A a \in S : /\ a \in byReplica /\ a.ip = ip /\ a.n \in 1..limit
                   /\ a.end \in 0..restarts /\ a.end # 0 /\ clock < a.began + Window
  BY RecentWindow DEF Ended
<1> HIDE DEF S
<1>3. f \in [S -> T]
  <2>1. \A a \in S : a.end \in 1..restarts
    BY <1>1, <1>2
  <2> QED
    BY <1>2, <2>1
<1>4. ASSUME NEW a \in S, NEW b \in S, f[a] = f[b] PROVE a = b
  <2>1. a.end = b.end /\ a.n = b.n
    BY <1>4
  <2>2. a.rep = b.rep
    BY <1>2, <2>1 DEF ReplicaNames, InTurn
  <2> QED
    BY <1>2, <2>1, <2>2, SameWindow
<1>5. /\ IsFiniteSet(lives) /\ Cardinality(lives) = restarts
      /\ IsFiniteSet(counts) /\ Cardinality(counts) = limit
  <2>1. /\ restarts \in Int /\ (IF 1 > restarts THEN 0 ELSE restarts - 1 + 1) = restarts
        /\ limit \in Int /\ (IF 1 > limit THEN 0 ELSE limit - 1 + 1) = limit
    BY <1>1
  <2> QED
    BY <2>1, FS_Interval
<1> HIDE DEF lives, counts
<1>6. IsFiniteSet(T) /\ Cardinality(T) = restarts * limit
  BY <1>5, FS_Product
<1> HIDE DEF T, f
<1>7. IsFiniteSet(S) /\ Cardinality(S) <= Cardinality(T)
  BY <1>3, <1>4, <1>6, SlotsOfTheirOwn
<1> QED
  BY <1>6, <1>7 DEF S

\* However calls fail and whoever serves them, and whenever replicas are started
\* anew, what passes of an address in a window's time is what Redis and each
\* replica's own limiter admit, and one allowance for each restart.
THEOREM OutageLimited == Spec => []OutageBound
<1>1. IInv /\ RedisNames /\ ReplicaNames => OutageBound
  <2> SUFFICES ASSUME IInv, RedisNames, ReplicaNames, limit > 0, NEW ip \in Ips
               PROVE  Cardinality({a \in byRedis : a.ip = ip})
                        + Cardinality({a \in byReplica : a.ip = ip})
                      <= 5 * limit - 2 + Cardinality(Replicas) * (2 * limit - 1) + restarts * limit
    BY DEF OutageBound
  <2> DEFINE R == {a \in byRedis : a.ip = ip}
             S == {a \in byReplica : a.ip = ip}
             P == {a \in byReplica : a.ip = ip /\ ~Ended(a)}
             E == {a \in byReplica : a.ip = ip /\ Ended(a)}
             room == Cardinality(Replicas) * (2 * limit - 1)
             anew == restarts * limit
  <2>1. Cardinality(R) \in Nat /\ Cardinality(R) <= 5 * limit - 2
    BY RedisRoom
  <2>2. IsFiniteSet(P) /\ Cardinality(P) <= room
    BY PresentRoom
  <2>3. IsFiniteSet(E) /\ Cardinality(E) <= anew
    BY EndedRoom
  <2>4. S = P \cup E /\ P \cap E = {}
    OBVIOUS
  <2>5. limit \in Int /\ restarts \in Nat /\ Cardinality(Replicas) \in Nat
    BY LimitAssumption, ReplicasAssumption, FS_CardinalityType DEF IInv, Typed
  <2>6. room \in Int /\ anew \in Int
    BY <2>5
  <2> HIDE DEF R, S, P, E, room, anew
  <2>7. Cardinality(S) = Cardinality(P) + Cardinality(E) - Cardinality({})
    BY <2>2, <2>3, <2>4, FS_Union
  <2>8. Cardinality({}) = 0 /\ Cardinality(P) \in Nat /\ Cardinality(E) \in Nat
    BY <2>2, <2>3, FS_EmptySet, FS_CardinalityType
  <2>9. Cardinality(S) <= room + anew /\ Cardinality(S) \in Nat
    BY <2>2, <2>3, <2>6, <2>7, <2>8
  <2>10. Cardinality(R) + Cardinality(S) <= 5 * limit - 2 + room + anew
    BY <2>1, <2>5, <2>6, <2>9
  <2> QED
    BY <2>10 DEF R, S, room, anew
<1> QED
  BY <1>1, NamesInvariant, PTL

\* The histories swallow no admission: each one that Redis or a fallback lets
\* through adds a name, and the end of a limiter makes no two names one.
NoneSwallowed ==
  /\ \A r \in Reqs : Run(r) /\ ~(counters'[KeyOf(r)].count > limit)
       => \E a : a \notin byRedis /\ byRedis' = byRedis \cup {a}
  /\ \A r \in Reqs : Fail(r) /\ ~(local'[waiting[r].rep].hits[waiting[r].ip].count > limit)
       => \E a : a \notin byReplica /\ byReplica' = byReplica \cup {a}
  /\ \A rep \in Replicas : Restart(rep)
       => \A a, b \in byReplica : Ending(rep, a) = Ending(rep, b) => a = b

\* What OutageBound counts is every request that Redis or a replica let through in
\* the last Window ticks.
THEOREM EveryAdmissionNamed == Spec => [][NoneSwallowed]_vars
<1>1. ASSUME IInv, IInv', RedisNames, ReplicaNames PROVE NoneSwallowed
  <2>1. /\ Typed /\ Typed' /\ limit \in Int /\ restarts \in Nat
        /\ \A r \in DOMAIN waiting : limit > 0
    BY <1>1, LimitAssumption DEF IInv, Typed, Unasked
  <2>2. ASSUME NEW r \in Reqs, Run(r), ~(counters'[KeyOf(r)].count > limit)
        PROVE  \E a : a \notin byRedis /\ byRedis' = byRedis \cup {a}
    <3> DEFINE k == KeyOf(r)
    <3>1. r \in DOMAIN waiting /\ {r} \in SUBSET DOMAIN waiting /\ Ran({r})
      BY <2>2 DEF Run
    <3>2. counters'[k].count <= limit /\ RedisAdmits(k, counters'[k])
      BY <2>2 DEF Run
    <3> QED
      BY <1>1, <2>1, <3>1, <3>2, RedisNamesOne
  <2>3. ASSUME NEW r \in Reqs, Fail(r),
               ~(local'[waiting[r].rep].hits[waiting[r].ip].count > limit)
        PROVE  \E a : a \notin byReplica /\ byReplica' = byReplica \cup {a}
    <3>1. r \in DOMAIN waiting /\ Fallback(waiting[r].rep, waiting[r].ip)
      BY <2>3 DEF Fail
    <3>2. waiting[r].rep \in Replicas /\ waiting[r].ip \in Ips
      BY <1>1, <3>1, InTime DEF Waiters
    <3>3. local' \in [Replicas -> Limiters]
      BY <2>1 DEF Typed
    <3> QED
      BY <1>1, <2>1, <2>3, <3>1, <3>2, <3>3, ReplicaNamesOne
  <2>4. ASSUME NEW rep \in Replicas, NEW a \in byReplica, NEW b \in byReplica,
               Ending(rep, a) = Ending(rep, b)
        PROVE  a = b
    <3>1. /\ a \in ReplicaAdmission /\ b \in ReplicaAdmission
          /\ a.end <= restarts /\ b.end <= restarts
      BY <1>1, <2>1 DEF Typed, ReplicaNames, Allowed
    <3>2. restarts + 1 # a.end /\ restarts + 1 # b.end
      BY <2>1, <3>1 DEF ReplicaAdmission
    <3> QED
      BY <2>1, <2>4, <3>1, <3>2 DEF ReplicaAdmission, Ending
  <2> QED
    BY <2>2, <2>3, <2>4 DEF NoneSwallowed
<1>2. IInv /\ RedisNames /\ ReplicaNames /\ [Next]_vars => [NoneSwallowed]_vars
  BY <1>1, Stepping
<1> QED
  BY <1>2, NamesInvariant, PTL DEF Spec
================================================================================
