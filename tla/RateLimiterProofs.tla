--------------------------- MODULE RateLimiterProofs ---------------------------
(***************************************************************************)
(* RateLimiter for every choice of addresses, limits, window and delay: it *)
(* is type correct, its table stays small and it implements FixedWindow.   *)
(***************************************************************************)
EXTENDS RateLimiter, TLAPS

(* The inductive invariant.  TypeOK and MemoryBound are not inductive: that  *)
(* a window is not kept too long depends on when the table was last swept,   *)
(* and that an expired one is not created depends on how old the clock of a  *)
(* waiting request can be.                                                   *)

\* A request waiting for rl.mu has read the clock at most MaxDelay ago.
FreshReadings ==
  \A r \in DOMAIN waiting :
    waiting[r].now <= clock /\ clock <= waiting[r].now + MaxDelay

\* A disabled limiter keeps nothing.
NothingKept == limit <= 0 => DOMAIN hits = {} /\ DOMAIN waiting = {}

\* An entry has counted something and ends no later than a window from now.
LiveEntries ==
  \A ip \in DOMAIN hits : hits[ip].count >= 1 /\ hits[ip].reset <= clock + Window

\* The sweep left nothing that had ended when it ran, and nothing came after it.
SweptClean ==
  /\ lastSwip <= clock
  /\ \A ip \in DOMAIN hits : lastSwip <= hits[ip].reset

\* Deciding a request sweeps first, unless that was done less than a window ago.
SweptRecently ==
  limit > 0 /\ answer # {} => lastSwip + Window + MaxDelay > clock

IInv ==
  /\ TypeOK
  /\ FreshReadings
  /\ NothingKept
  /\ LiveEntries
  /\ SweptClean
  /\ SweptRecently

--------------------------------------------------------------------------------
(* Lemmas about LimiterCore *)

\* Dividing by a positive number preserves order.
LEMMA DivMonotone ==
  ASSUME NEW s \in Nat \ {0}, NEW a \in Nat, NEW b \in Nat, a <= b
  PROVE  a \div s \in Nat /\ b \div s \in Nat /\ a \div s <= b \div s
<1> DEFINE p == a \div s
           q == b \div s
<1>1. p \in Int /\ s * p <= a /\ a < s * (p + 1)
  OBVIOUS
<1>2. q \in Int /\ s * q <= b /\ b < s * (q + 1)
  OBVIOUS
<1>3. p \in Nat /\ q \in Nat
  OBVIOUS
<1>4. p <= q
  <2> HIDE DEF p, q
  <2>1. SUFFICES ASSUME q + 1 <= p PROVE FALSE
    BY <1>1, <1>2
  <2>2. s * (q + 1) <= s * p
    BY <2>1, <1>1, <1>2
  <2>3. QED
    BY <1>1, <1>2, <2>2
<1>5. QED
  BY <1>3, <1>4

\* itoa and the conversion to seconds: a waiting time of at most a window,
\* or a negative one, becomes a number of seconds between 0 and a window's.
LEMMA RetryAfterBounds ==
  ASSUME NEW left \in Int, left <= Window
  PROVE  RetryAfter(left) \in 0..(Window \div Second)
<1>1. Window \in Nat /\ Second \in Nat \ {0}
  BY WindowAssumption, SecondAssumption
<1>2. CASE left >= 0
  <2>1. left \div Second \in Nat /\ Window \div Second \in Nat
        /\ left \div Second <= Window \div Second
    BY <1>1, <1>2, DivMonotone
  <2>2. QED
    BY <1>2, <2>1 DEF RetryAfter, WholeSeconds, AtLeastZero
<1>3. CASE left < 0
  <2>1. (-left) \div Second \in Nat /\ 0 \div Second \in Nat
    BY <1>1, <1>3, DivMonotone
  <2>2. Window \div Second \in Nat
    BY <1>1, DivMonotone
  <2>3. RetryAfter(left) = 0
    BY <1>3, <2>1 DEF RetryAfter, WholeSeconds, AtLeastZero
  <2>4. QED
    BY <2>2, <2>3
<1>4. QED
  BY <1>2, <1>3

\* sweep() returns part of the table: what it drops had ended, the rest is as
\* it was.
LEMMA SweepKeeps ==
  ASSUME NEW table, NEW now
  PROVE  /\ DOMAIN Sweep(table, now) = {ip \in DOMAIN table : now <= table[ip].reset}
         /\ \A ip \in DOMAIN Sweep(table, now) : Sweep(table, now)[ip] = table[ip]
BY DEF Sweep, Restrict

--------------------------------------------------------------------------------
(* One decision, taken apart *)

\* What the sweep of request r leaves, and the entry r ends up with.
Kept(r) ==
  IF SweepDue(lastSwip, waiting[r].now) THEN Sweep(hits, waiting[r].now) ELSE hits

Entry(r) == CountHit(Kept(r), waiting[r].ip, waiting[r].now)

\* What Count does to the table, in terms of the table before.
LEMMA CountFacts ==
  ASSUME IInv, NEW r \in Reqs, Count(r)
  PROVE  /\ waiting[r] \in Readings
         /\ limit > 0
         /\ waiting[r].now <= clock /\ clock <= waiting[r].now + MaxDelay
         /\ DOMAIN Kept(r) \subseteq DOMAIN hits
         /\ \A i \in DOMAIN Kept(r) : Kept(r)[i] = hits[i]
         /\ \A i \in DOMAIN hits \ DOMAIN Kept(r) : waiting[r].now > hits[i].reset
         /\ Entry(r) \in IpWindow
         /\ hits' = [i \in DOMAIN Kept(r) \cup {waiting[r].ip} |->
                      IF i = waiting[r].ip THEN Entry(r) ELSE hits[i]]
<1>1. r \in DOMAIN waiting /\ waiting[r] \in Readings /\ limit \in Int
  BY LimitAssumption DEF Count, IInv, TypeOK
<1>2. limit > 0
  BY <1>1 DEF IInv, NothingKept
<1>3. waiting[r].now <= clock /\ clock <= waiting[r].now + MaxDelay
  BY <1>1 DEF IInv, FreshReadings
<1>swept. /\ DOMAIN Sweep(hits, waiting[r].now) =
               {i \in DOMAIN hits : waiting[r].now <= hits[i].reset}
          /\ \A i \in DOMAIN Sweep(hits, waiting[r].now) :
               Sweep(hits, waiting[r].now)[i] = hits[i]
  BY SweepKeeps
<1>4. /\ DOMAIN Kept(r) \subseteq DOMAIN hits
      /\ \A i \in DOMAIN Kept(r) : Kept(r)[i] = hits[i]
  <2>1. CASE SweepDue(lastSwip, waiting[r].now)
    BY <1>swept, <2>1 DEF Kept
  <2>2. CASE ~SweepDue(lastSwip, waiting[r].now)
    BY <2>2 DEF Kept
  <2>3. QED
    BY <2>1, <2>2
<1>5. \A i \in DOMAIN hits : hits[i] \in IpWindow
  BY DEF IInv, TypeOK, IsTable
<1>6. \A i \in DOMAIN hits \ DOMAIN Kept(r) : waiting[r].now > hits[i].reset
  <2>1. CASE SweepDue(lastSwip, waiting[r].now)
    BY <1>1, <1>5, <1>swept, <2>1 DEF Kept, IpWindow, Readings
  <2>2. CASE ~SweepDue(lastSwip, waiting[r].now)
    BY <2>2 DEF Kept
  <2>3. QED
    BY <2>1, <2>2
<1>7. Entry(r) \in IpWindow
  <2>1. CASE waiting[r].ip \notin DOMAIN Kept(r) \/ waiting[r].now > Kept(r)[waiting[r].ip].reset
    BY <1>1, <2>1, WindowAssumption DEF Entry, CountHit, IpWindow, Readings
  <2>2. CASE ~(waiting[r].ip \notin DOMAIN Kept(r) \/ waiting[r].now > Kept(r)[waiting[r].ip].reset)
    <3>1. Kept(r)[waiting[r].ip] \in IpWindow
      BY <1>4, <1>5, <2>2
    <3>2. Entry(r) = [Kept(r)[waiting[r].ip] EXCEPT !.count = @ + 1]
      BY <2>2 DEF Entry, CountHit
    <3>3. QED
      BY <3>1, <3>2 DEF IpWindow
  <2>3. QED
    BY <2>1, <2>2
<1>8. hits' = Store(Kept(r), waiting[r].ip, Entry(r))
  BY DEF Count, Kept, Entry
<1>9. hits' = [i \in DOMAIN Kept(r) \cup {waiting[r].ip} |->
                 IF i = waiting[r].ip THEN Entry(r) ELSE hits[i]]
  BY <1>4, <1>8 DEF Store
<1>10. QED
  BY <1>1, <1>2, <1>3, <1>4, <1>6, <1>7, <1>9

\* A request either starts a window, because the last one of its IP has ended,
\* or is counted in the one that runs.
LEMMA EntryCases ==
  ASSUME IInv, NEW r \in Reqs, Count(r)
  PROVE  \/ /\ waiting[r].ip \notin DOMAIN hits \/ waiting[r].now > hits[waiting[r].ip].reset
            /\ Entry(r) = [count |-> 1, reset |-> waiting[r].now + Window]
         \/ /\ waiting[r].ip \in DOMAIN hits
            /\ waiting[r].now <= hits[waiting[r].ip].reset
            /\ Entry(r) = [hits[waiting[r].ip] EXCEPT !.count = @ + 1]
<1>1. CASE waiting[r].ip \notin DOMAIN Kept(r) \/ waiting[r].now > Kept(r)[waiting[r].ip].reset
  BY <1>1, CountFacts DEF Entry, CountHit
<1>2. CASE ~(waiting[r].ip \notin DOMAIN Kept(r) \/ waiting[r].now > Kept(r)[waiting[r].ip].reset)
  <2>1. Kept(r)[waiting[r].ip] = hits[waiting[r].ip] /\ waiting[r].ip \in DOMAIN hits
    BY <1>2, CountFacts
  <2>2. hits[waiting[r].ip].reset \in Int /\ waiting[r].now \in Nat
    BY <2>1, CountFacts DEF IInv, TypeOK, IsTable, IpWindow, Readings
  <2>3. QED
    BY <1>2, <2>1, <2>2 DEF Entry, CountHit
<1>3. QED
  BY <1>1, <1>2

--------------------------------------------------------------------------------
(* The invariant *)

LEMMA InitInvariant == Init => IInv
<1> SUFFICES ASSUME Init PROVE IInv
  OBVIOUS
<1>1. TypeOK
  BY WindowAssumption DEF Init, TypeOK, IsTable
<1>2. FreshReadings /\ NothingKept /\ LiveEntries /\ SweptClean /\ SweptRecently
  BY WindowAssumption
     DEF Init, FreshReadings, NothingKept, LiveEntries, SweptClean, SweptRecently
<1>3. QED
  BY <1>1, <1>2 DEF IInv

LEMMA BypassKeeps ==
  ASSUME IInv, NEW ip \in Ips, Bypass(ip)
  PROVE  IInv'
<1>1. limit \in Int /\ limit <= 0
  BY LimitAssumption DEF IInv, TypeOK, Bypass
<1>2. TypeOK'
  BY DEF IInv, TypeOK, IsTable, Bypass, Decision, Answers
<1>3. FreshReadings' /\ NothingKept' /\ LiveEntries' /\ SweptClean'
  BY DEF IInv, FreshReadings, NothingKept, LiveEntries, SweptClean, Bypass
<1>4. SweptRecently'
  BY <1>1 DEF SweptRecently, Bypass
<1>5. QED
  BY <1>2, <1>3, <1>4 DEF IInv

LEMMA ReceiveKeeps ==
  ASSUME IInv, NEW r \in Reqs, NEW ip \in Ips, Receive(r, ip)
  PROVE  IInv'
<1>1. clock \in Nat /\ MaxDelay \in Nat
  BY DelayAssumption DEF IInv, TypeOK
<1>2. /\ DOMAIN waiting' = DOMAIN waiting \cup {r}
      /\ \A q \in DOMAIN waiting' :
           waiting'[q] = IF q = r THEN [ip |-> ip, now |-> clock] ELSE waiting[q]
  BY DEF Receive
<1>3. TypeOK'
  <2>1. IsTable(hits, Ips)' /\ limit' \in Limits /\ clock' \in Nat /\ lastSwip' \in Int
        /\ \A a \in answer' : a \in Answers
    BY DEF IInv, TypeOK, IsTable, Receive
  <2>2. DOMAIN waiting' \subseteq Reqs /\ waiting' \in [DOMAIN waiting' -> Readings]
    <3>1. \A q \in DOMAIN waiting' : waiting'[q] \in Readings
      BY <1>1, <1>2 DEF IInv, TypeOK, Readings
    <3>2. waiting' = [q \in DOMAIN waiting' |-> waiting'[q]]
      BY DEF Receive
    <3>3. QED
      BY <1>2, <3>1, <3>2 DEF IInv, TypeOK
  <2>3. QED
    BY <2>1, <2>2 DEF TypeOK
<1>4. FreshReadings'
  BY <1>1, <1>2 DEF IInv, FreshReadings, Receive
<1>5. NothingKept'
  BY LimitAssumption DEF IInv, TypeOK, NothingKept, Receive
<1>6. LiveEntries' /\ SweptClean' /\ SweptRecently'
  BY DEF IInv, LiveEntries, SweptClean, SweptRecently, Receive
<1>7. QED
  BY <1>3, <1>4, <1>5, <1>6 DEF IInv

LEMMA CountKeeps ==
  ASSUME IInv, NEW r \in Reqs, Count(r)
  PROVE  IInv'
<1> DEFINE ip  == waiting[r].ip
           now == waiting[r].now
<1>1. /\ clock \in Nat /\ clock' = clock /\ limit \in Int /\ limit' = limit
      /\ lastSwip \in Int /\ Window \in Nat \ {0} /\ MaxDelay \in Nat
      /\ MaxDelay <= Window /\ now \in Nat /\ ip \in Ips
  BY CountFacts, LimitAssumption, WindowAssumption, DelayAssumption
     DEF IInv, TypeOK, Count, Readings
<1>2. lastSwip' = IF now - lastSwip >= Window THEN now ELSE lastSwip
  BY DEF Count, SweepDue
<1>3. now <= clock /\ clock <= now + MaxDelay
  BY CountFacts
<1>4. \A i \in DOMAIN hits : hits[i].count \in Nat /\ hits[i].reset \in Int
  BY DEF IInv, TypeOK, IsTable, IpWindow
<1>5. /\ Entry(r).count \in Nat \ {0} /\ Entry(r).reset \in Int
      /\ Entry(r).reset <= clock + Window
      /\ lastSwip' <= Entry(r).reset
  <2>1. CASE Entry(r) = [count |-> 1, reset |-> now + Window]
    BY <1>1, <1>2, <1>3, <2>1 DEF IInv, SweptClean
  <2>2. CASE /\ ip \in DOMAIN hits /\ now <= hits[ip].reset
             /\ Entry(r) = [hits[ip] EXCEPT !.count = @ + 1]
    <3>1. Entry(r).count = hits[ip].count + 1 /\ Entry(r).reset = hits[ip].reset
      BY <2>2 DEF IInv, TypeOK, IsTable, IpWindow
    <3>2. QED
      BY <1>1, <1>2, <1>4, <2>2, <3>1 DEF IInv, SweptClean, LiveEntries
  <2>3. QED
    BY <2>1, <2>2, EntryCases
<1>6. /\ DOMAIN hits' \subseteq DOMAIN hits \cup {ip}
      /\ \A i \in DOMAIN hits' : hits'[i] = IF i = ip THEN Entry(r) ELSE hits[i]
      /\ \A i \in DOMAIN hits' \ {ip} : i \in DOMAIN Kept(r)
  BY CountFacts
<1>7. TypeOK'
  <2>1. IsTable(hits, Ips)'
    <3>1. \A i \in DOMAIN hits' : hits'[i] \in IpWindow
      BY <1>6, CountFacts DEF IInv, TypeOK, IsTable
    <3>2. hits' = [i \in DOMAIN hits' |-> hits'[i]]
      BY CountFacts
    <3>3. DOMAIN hits' \subseteq Ips
      BY <1>1, <1>6 DEF IInv, TypeOK, IsTable
    <3>4. QED
      BY <3>1, <3>2, <3>3 DEF IsTable
  <2>2. DOMAIN waiting' \subseteq Reqs /\ waiting' \in [DOMAIN waiting' -> Readings]
    BY DEF Count, IInv, TypeOK
  <2>3. \A a \in answer' : a \in Answers
    <3>1. RetryAfter(Entry(r).reset - clock) \in Nat
      <4>1. Entry(r).reset - clock \in Int /\ Entry(r).reset - clock <= Window
        BY <1>1, <1>5
      <4>2. RetryAfter(Entry(r).reset - clock) \in 0..(Window \div Second)
        BY <4>1, RetryAfterBounds
      <4>3. QED
        BY <4>2
    <3>2. \/ Decision(ip, "rejected", RetryAfter(Entry(r).reset - clock))
          \/ Decision(ip, "admitted", 0)
      BY DEF Count, Kept, Entry
    <3>3. QED
      BY <1>1, <3>1, <3>2 DEF Decision, Answers
  <2>4. limit' \in Limits /\ clock' \in Nat /\ lastSwip' \in Int
    BY <1>1, <1>2 DEF IInv, TypeOK
  <2>5. QED
    BY <2>1, <2>2, <2>3, <2>4 DEF TypeOK
<1>8. FreshReadings'
  BY <1>1 DEF IInv, FreshReadings, Count
<1>9. NothingKept'
  <2>1. limit > 0
    BY CountFacts
  <2>2. limit' > 0 /\ limit' \in Int
    BY <1>1, <2>1
  <2>3. QED
    BY <2>2 DEF NothingKept
<1>10. LiveEntries'
  BY <1>1, <1>5, <1>6 DEF IInv, LiveEntries
<1>11. SweptClean'
  <2>1. lastSwip' <= clock'
    BY <1>1, <1>2, <1>3 DEF IInv, SweptClean
  <2>2. ASSUME NEW i \in DOMAIN hits' PROVE lastSwip' <= hits'[i].reset
    <3>1. CASE i = ip
      BY <1>5, <1>6, <3>1
    <3>2. CASE i # ip
      <4>1. i \in DOMAIN hits /\ hits'[i] = hits[i] /\ i \in DOMAIN Kept(r)
        BY <1>6, <3>2
      <4>2. CASE SweepDue(lastSwip, now)
        <5>1. now <= hits[i].reset
          BY <4>1, <4>2, SweepKeeps DEF Kept
        <5>2. QED
          BY <1>2, <1>1, <1>4, <4>1, <4>2, <5>1 DEF SweepDue
      <4>3. CASE ~SweepDue(lastSwip, now)
        BY <1>2, <1>1, <4>1, <4>3 DEF SweepDue, IInv, SweptClean
      <4>4. QED
        BY <4>2, <4>3
    <3>3. QED
      BY <3>1, <3>2
  <2>3. QED
    BY <2>1, <2>2 DEF SweptClean
<1>12. SweptRecently'
  BY <1>1, <1>2, <1>3 DEF SweptRecently
<1>13. QED
  BY <1>7, <1>8, <1>9, <1>10, <1>11, <1>12 DEF IInv

LEMMA TickKeeps ==
  ASSUME IInv, Tick
  PROVE  IInv'
<1>1. clock \in Nat /\ clock' = clock + 1 /\ MaxDelay \in Nat /\ Window \in Nat
  BY DelayAssumption, WindowAssumption DEF IInv, TypeOK, Tick
<1>2. TypeOK'
  BY <1>1 DEF IInv, TypeOK, IsTable, Tick
<1>3. FreshReadings'
  BY <1>1 DEF IInv, TypeOK, Readings, FreshReadings, Tick
<1>4. NothingKept'
  BY DEF IInv, NothingKept, Tick
<1>5. LiveEntries' /\ SweptClean'
  BY <1>1 DEF IInv, TypeOK, IsTable, IpWindow, LiveEntries, SweptClean, Tick
<1>6. SweptRecently'
  BY DEF SweptRecently, Tick
<1>7. QED
  BY <1>2, <1>3, <1>4, <1>5, <1>6 DEF IInv

LEMMA UnchangedKeeps == IInv /\ UNCHANGED vars => IInv'
BY DEF vars, IInv, TypeOK, IsTable, FreshReadings, NothingKept, LiveEntries,
       SweptClean, SweptRecently

\* Every reachable state satisfies the inductive invariant.
THEOREM Invariance == Spec => []IInv
<1>1. IInv /\ [Next]_vars => IInv'
  <2> SUFFICES ASSUME IInv, [Next]_vars PROVE IInv'
    OBVIOUS
  <2>1. ASSUME NEW ip \in Ips, Bypass(ip) PROVE IInv'
    BY <2>1, BypassKeeps
  <2>2. ASSUME NEW r \in Reqs, NEW ip \in Ips, Receive(r, ip) PROVE IInv'
    BY <2>2, ReceiveKeeps
  <2>3. ASSUME NEW r \in Reqs, Count(r) PROVE IInv'
    BY <2>3, CountKeeps
  <2>4. CASE Tick
    BY <2>4, TickKeeps
  <2>5. CASE Horizon \/ UNCHANGED vars
    BY <2>5, UnchangedKeeps DEF Horizon
  <2>6. QED
    BY <2>1, <2>2, <2>3, <2>4, <2>5 DEF Next
<1>2. QED
  BY <1>1, InitInvariant, PTL DEF Spec

\* The limiter's fields, the readings of waiting requests and its answers keep
\* their types: a Retry-After is never negative.
THEOREM TypeCorrect == Spec => []TypeOK
<1>1. IInv => TypeOK
  BY DEF IInv
<1>2. QED
  BY <1>1, Invariance, PTL

\* "sweep drops expired windows occasionally to bound memory": for every window
\* length and delay, no entry outlives its window by more than a window.
THEOREM MemoryBounded == Spec => []MemoryBound
<1>1. IInv => MemoryBound
  <2> SUFFICES ASSUME IInv, limit > 0, answer # {}, NEW ip \in DOMAIN hits
               PROVE  hits[ip].reset + Window + MaxDelay > clock
    BY DEF MemoryBound
  <2>1. lastSwip + Window + MaxDelay > clock /\ lastSwip <= hits[ip].reset
    BY DEF IInv, SweptRecently, SweptClean
  <2>2. lastSwip \in Int /\ hits[ip].reset \in Int /\ clock \in Nat
        /\ Window \in Nat /\ MaxDelay \in Nat
    BY WindowAssumption, DelayAssumption DEF IInv, TypeOK, IsTable, IpWindow
  <2>3. QED
    BY <2>1, <2>2
<1>2. QED
  BY <1>1, Invariance, PTL

--------------------------------------------------------------------------------
(* RateLimiter implements FixedWindow *)

LEMMA InitRefines == Init => Promise!Init
<1> SUFFICES ASSUME Init PROVE Promise!Init
  OBVIOUS
<1>1. PromisedWindows = [ip \in {} |-> [end |-> 0, passed |-> 0]]
  BY DEF Init, PromisedWindows
<1>2. QED
  BY <1>1 DEF Init, Promise!Init

\* How the promised windows change when r is counted: those the sweep drops had
\* ended, and only the window of r's IP is replaced.
LEMMA CountBecomes ==
  ASSUME IInv, NEW r \in Reqs, Count(r)
  PROVE  Promise!Become(waiting[r].ip,
           [end    |-> Entry(r).reset,
            passed |-> IF Entry(r).count < limit THEN Entry(r).count ELSE limit])
<1> DEFINE ip   == waiting[r].ip
           gone == DOMAIN hits \ DOMAIN Kept(r)
           win  == [end    |-> Entry(r).reset,
                    passed |-> IF Entry(r).count < limit THEN Entry(r).count ELSE limit]
           view(w) == [end    |-> w.reset,
                       passed |-> IF w.count < limit THEN w.count ELSE limit]
<1>1. DOMAIN PromisedWindows = DOMAIN hits
      /\ \A i \in DOMAIN hits : PromisedWindows[i] = view(hits[i])
  BY DEF PromisedWindows
<1>2. \A i \in gone : clock > PromisedWindows[i].end
  <2> SUFFICES ASSUME NEW i \in gone PROVE clock > PromisedWindows[i].end
    OBVIOUS
  <2>1. waiting[r].now > hits[i].reset /\ waiting[r].now <= clock
    BY CountFacts
  <2>2. hits[i].reset \in Int /\ waiting[r].now \in Nat /\ clock \in Nat
    BY CountFacts DEF IInv, TypeOK, IsTable, IpWindow, Readings
  <2>3. PromisedWindows[i].end = hits[i].reset
    BY <1>1
  <2>4. QED
    BY <2>1, <2>2, <2>3
<1>3. gone \in SUBSET {i \in DOMAIN PromisedWindows : clock > PromisedWindows[i].end}
  BY <1>1, <1>2
<1>4. limit' = limit
  BY DEF Count
<1>5. PromisedWindows' = [i \in DOMAIN hits' |-> view(hits'[i])]
  BY <1>4 DEF PromisedWindows
<1>6. /\ DOMAIN hits' = (DOMAIN PromisedWindows \ gone) \cup {ip}
      /\ DOMAIN hits' \subseteq DOMAIN hits \cup {ip}
      /\ \A i \in DOMAIN hits' : hits'[i] = IF i = ip THEN Entry(r) ELSE hits[i]
  <2>1. DOMAIN hits' = DOMAIN Kept(r) \cup {ip} /\ DOMAIN Kept(r) \subseteq DOMAIN hits
    BY CountFacts
  <2>2. \A i \in DOMAIN hits' : hits'[i] = IF i = ip THEN Entry(r) ELSE hits[i]
    BY CountFacts
  <2>3. QED
    BY <1>1, <2>1, <2>2
<1>7. PromisedWindows' = [i \in (DOMAIN PromisedWindows \ gone) \cup {ip} |->
                            IF i = ip THEN win ELSE PromisedWindows[i]]
  <2>1. ASSUME NEW i \in DOMAIN hits'
        PROVE  view(hits'[i]) = IF i = ip THEN win ELSE PromisedWindows[i]
    <3>1. CASE i = ip
      BY <1>6, <3>1
    <3>2. CASE i # ip
      BY <1>1, <1>6, <3>2
    <3>3. QED
      BY <3>1, <3>2
  <2>2. QED
    BY <1>5, <1>6, <2>1
<1>8. QED
  BY <1>3, <1>7 DEF Promise!Become

LEMMA CountRefines ==
  ASSUME IInv, NEW r \in Reqs, Count(r)
  PROVE  Promise!Next
<1> DEFINE ip  == waiting[r].ip
           now == waiting[r].now
           win == [end    |-> Entry(r).reset,
                   passed |-> IF Entry(r).count < limit THEN Entry(r).count ELSE limit]
<1>1. /\ clock \in Nat /\ limit \in Int /\ limit > 0
      /\ Window \in Nat \ {0} /\ MaxDelay \in Nat /\ now \in Nat /\ ip \in Ips
      /\ now <= clock /\ clock <= now + MaxDelay
      /\ UNCHANGED <<limit, clock>>
  BY CountFacts, LimitAssumption, WindowAssumption, DelayAssumption
     DEF IInv, TypeOK, Count, Readings
<1>2. Promise!Become(ip, win)
  BY CountBecomes
<1>3. \A i \in DOMAIN hits : hits[i].count \in Nat \ {0} /\ hits[i].reset \in Int
                             /\ hits[i].reset <= clock + Window
  BY DEF IInv, TypeOK, IsTable, IpWindow, LiveEntries
<1>4. /\ DOMAIN PromisedWindows = DOMAIN hits
      /\ \A i \in DOMAIN hits :
           /\ PromisedWindows[i].end = hits[i].reset
           /\ PromisedWindows[i].passed = IF hits[i].count < limit THEN hits[i].count ELSE limit
  BY DEF PromisedWindows
<1>5. \/ Entry(r).count > limit /\ Decision(ip, "rejected", RetryAfter(Entry(r).reset - clock))
      \/ Entry(r).count <= limit /\ Decision(ip, "admitted", 0)
  BY DEF Count, Kept, Entry
<1>6. CASE /\ ip \notin DOMAIN hits \/ now > hits[ip].reset
           /\ Entry(r) = [count |-> 1, reset |-> now + Window]
  <2>1. Promise!Ended(ip)
    BY <1>1, <1>3, <1>4, <1>6 DEF Promise!Ended
  <2>2. win = [end |-> now + Window, passed |-> 1]
    BY <1>1, <1>6
  <2>3. now + Window \in (clock + Window - MaxDelay)..(clock + Window)
    BY <1>1
  <2>4. Promise!Answer(ip, "admitted", 0)
    BY <1>1, <1>5, <1>6 DEF Decision, Promise!Answer
  <2>5. Promise!Open(ip)
    BY <1>1, <1>2, <2>1, <2>2, <2>3, <2>4 DEF Promise!Open
  <2>6. QED
    BY <1>1, <2>5 DEF Promise!Next
<1>7. CASE /\ ip \in DOMAIN hits /\ now <= hits[ip].reset
           /\ Entry(r) = [hits[ip] EXCEPT !.count = @ + 1]
  <2>1. Entry(r).count = hits[ip].count + 1 /\ Entry(r).reset = hits[ip].reset
    BY <1>7 DEF IInv, TypeOK, IsTable, IpWindow
  <2>2. Promise!Running(ip)
    BY <1>1, <1>3, <1>4, <1>7 DEF Promise!Running
  <2>3. CASE Entry(r).count <= limit
    <3>1. PromisedWindows[ip].passed < limit
      BY <1>1, <1>3, <1>4, <1>7, <2>1, <2>3
    <3>2. win = [end |-> PromisedWindows[ip].end, passed |-> PromisedWindows[ip].passed + 1]
      BY <1>1, <1>3, <1>4, <1>7, <2>1, <2>3
    <3>3. Promise!Answer(ip, "admitted", 0)
      BY <1>1, <1>3, <1>5, <1>7, <2>1, <2>3 DEF Decision, Promise!Answer
    <3>4. Promise!Admit(ip)
      BY <1>1, <1>2, <2>2, <3>1, <3>2, <3>3 DEF Promise!Admit
    <3>5. QED
      BY <1>1, <3>4 DEF Promise!Next
  <2>4. CASE Entry(r).count > limit
    <3>1. PromisedWindows[ip].passed = limit
      BY <1>1, <1>3, <1>4, <1>7, <2>1, <2>4
    <3>2. win = PromisedWindows[ip]
      <4>1. PromisedWindows[ip] = [end |-> hits[ip].reset, passed |-> limit]
        BY <1>4, <1>7, <3>1 DEF PromisedWindows
      <4>2. win = [end |-> hits[ip].reset, passed |-> limit]
        BY <1>1, <1>3, <1>7, <2>1, <2>4
      <4>3. QED
        BY <4>1, <4>2
    <3>3. RetryAfter(Entry(r).reset - clock) \in 0..(Window \div Second)
      <4>1. Entry(r).reset - clock \in Int /\ Entry(r).reset - clock <= Window
        BY <1>1, <1>3, <1>7, <2>1
      <4>2. QED
        BY <4>1, RetryAfterBounds
    <3>4. Decision(ip, "rejected", RetryAfter(Entry(r).reset - clock))
      BY <1>1, <1>3, <1>5, <1>7, <2>1, <2>4
    <3>5. \E s \in 0..(Window \div Second) : Promise!Answer(ip, "rejected", s)
      BY <3>3, <3>4 DEF Decision, Promise!Answer
    <3>6. Promise!Refuse(ip)
      BY <1>1, <1>2, <2>2, <3>1, <3>2, <3>5 DEF Promise!Refuse
    <3>7. QED
      BY <1>1, <3>6 DEF Promise!Next
  <2>5. QED
    BY <1>1, <1>3, <1>7, <2>1, <2>3, <2>4
<1>8. QED
  BY <1>6, <1>7, EntryCases

\* "NewRateLimiter allows `limit` requests per `window` per IP": whatever clocks
\* its requests have read and in whatever order they take the lock, the limiter
\* behaves as fixed windows that are never overspent, never refuse a request
\* whose window has room and never announce a wait longer than a window.
THEOREM LimiterImplementsPromise == Spec => ImplementsFixedWindow
<1>1. IInv /\ [Next]_vars => [Promise!Next]_(Promise!vars)
  <2> SUFFICES ASSUME IInv, [Next]_vars PROVE [Promise!Next]_(Promise!vars)
    OBVIOUS
  <2>1. ASSUME NEW ip \in Ips, Bypass(ip) PROVE Promise!Next
    <3>1. Promise!AdmitUnlimited(ip)
      BY <2>1 DEF Bypass, Decision, PromisedWindows, Promise!AdmitUnlimited, Promise!Answer
    <3>2. QED
      BY <3>1 DEF Promise!Next
  <2>2. ASSUME NEW r \in Reqs, NEW ip \in Ips, Receive(r, ip) PROVE UNCHANGED Promise!vars
    BY <2>2 DEF Receive, PromisedWindows, Promise!vars
  <2>3. ASSUME NEW r \in Reqs, Count(r) PROVE Promise!Next
    BY <2>3, CountRefines
  <2>4. CASE Tick
    <3>1. Promise!Tick
      BY <2>4 DEF Tick, PromisedWindows, Promise!Tick
    <3>2. QED
      BY <3>1 DEF Promise!Next
  <2>5. CASE Horizon \/ UNCHANGED vars
    BY <2>5 DEF Horizon, vars, PromisedWindows, Promise!vars
  <2>6. QED
    BY <2>1, <2>2, <2>3, <2>4, <2>5 DEF Next
<1>2. QED
  BY <1>1, InitRefines, Invariance, PTL DEF Spec, ImplementsFixedWindow, Promise!Spec
================================================================================
