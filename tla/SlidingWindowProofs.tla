-------------------------- MODULE SlidingWindowProofs --------------------------
(***************************************************************************)
(* The history of SlidingWindow leaves RateLimiter's behaviour alone, and  *)
(* the sliding bound holds for every limit, window and delay.              *)
(***************************************************************************)
EXTENDS SlidingWindow, RateLimiterProofs

(* The inductive invariant.  SlidingBound is not inductive: that the first of *)
(* 2 * limit admissions is long ago follows from which of them were counted  *)
(* in the window that is remembered, if one is, and when it was opened.      *)

Histories == [Latest -> Int]

\* The newest first, and the forgotten ones last.
Sorted(times, now) ==
  \A i \in Latest :
    /\ Forgotten <= times[i] /\ times[i] <= now
    /\ \A j \in Latest : i <= j => times[j] <= times[i]

\* How many requests a window has admitted.
Passed(w) == IF w.count < limit THEN w.count ELSE limit

\* Of the admissions the Passed(w)th is the one that opened window w, or an older
\* one; and limit - 1 at most of those before it are not too old.
OfWindow(times, w, now) ==
  /\ w.reset >= 0
  /\ times[Passed(w)] <= w.reset - Span
  /\ now - times[limit + Passed(w)] > Span

\* Without a window all but limit - 1 of the admissions are too old.
OfNone(times, now) == now - times[limit] > Span

Explained ==
  limit > 0 => \A ip \in Ips :
    /\ ip \in DOMAIN hits => OfWindow(admitted[ip], hits[ip], clock)
    /\ ip \notin DOMAIN hits => OfNone(admitted[ip], clock)

HInv ==
  /\ IInv
  /\ admitted \in [Ips -> Histories]
  /\ \A ip \in Ips : Sorted(admitted[ip], clock)
  /\ Explained

--------------------------------------------------------------------------------
(* Numbers *)

LEMMA Numbers ==
  ASSUME HInv
  PROVE  /\ Window \in Nat \ {0} /\ MaxDelay \in Nat /\ MaxDelay <= Window /\ limit \in Int
         /\ clock \in Nat /\ Span \in Nat /\ Span <= Window /\ Forgotten = -Window - 1
BY WindowAssumption, DelayAssumption, LimitAssumption DEF HInv, IInv, TypeOK, Span, Forgotten

LEMMA WindowFacts ==
  ASSUME HInv, limit > 0, NEW ip \in DOMAIN hits
  PROVE  /\ ip \in Ips /\ hits[ip] \in IpWindow /\ hits[ip].reset \in Int
         /\ hits[ip].count \in Nat \ {0}
         /\ Passed(hits[ip]) \in Nat \ {0} /\ Passed(hits[ip]) <= limit
         /\ OfWindow(admitted[ip], hits[ip], clock)
<1>1. ip \in Ips /\ hits[ip] \in IpWindow /\ hits[ip].count >= 1
  BY DEF HInv, IInv, TypeOK, IsTable, LiveEntries
<1>2. OfWindow(admitted[ip], hits[ip], clock)
  BY <1>1 DEF HInv, Explained
<1>3. hits[ip].reset \in Int /\ hits[ip].count \in Nat \ {0}
  BY <1>1 DEF IpWindow
<1>4. Passed(hits[ip]) \in Nat \ {0} /\ Passed(hits[ip]) <= limit
  BY <1>3, Numbers DEF Passed
<1> QED
  BY <1>1, <1>2, <1>3, <1>4

LEMMA TimesFacts ==
  ASSUME HInv, limit > 0, NEW ip \in Ips
  PROVE  /\ admitted[ip] \in Histories /\ \A i \in Latest : admitted[ip][i] \in Int
         /\ Sorted(admitted[ip], clock)
         /\ \A i \in 1..limit : i \in Latest /\ limit + i \in Latest
BY Numbers DEF HInv, Histories, Latest

\* Once a window has ended, the request that opened it is too old.
LEMMA Ended ==
  ASSUME HInv, limit > 0, NEW ip \in DOMAIN hits, NEW now \in Nat,
         now > hits[ip].reset, now <= clock
  PROVE  OfNone(admitted[ip], clock)
<1> DEFINE w == hits[ip]
           times == admitted[ip]
<1>1. ip \in Ips /\ w.reset \in Int /\ Passed(w) \in 1..limit /\ times[Passed(w)] <= w.reset - Span
  BY WindowFacts, Numbers DEF OfWindow
<1>2. limit \in 1..limit
  BY Numbers
<1>3. Passed(w) \in Latest /\ limit \in Latest /\ times[Passed(w)] \in Int /\ times[limit] \in Int
  BY <1>1, <1>2, TimesFacts
<1>4. times[limit] <= times[Passed(w)]
  BY <1>1, <1>3, TimesFacts, Numbers DEF Sorted
<1> HIDE DEF w, times
<1>5. clock - times[limit] > Span
  BY <1>1, <1>3, <1>4, Numbers DEF w
<1> QED
  BY <1>5 DEF OfNone, times

--------------------------------------------------------------------------------
(* An admission *)

\* The history after an admission.
Noted(times, now) == [i \in Latest |-> IF i = 1 THEN now ELSE times[i - 1]]

LEMMA NotedFacts ==
  ASSUME HInv, limit > 0, NEW ip \in Ips, NEW later, later = Noted(admitted[ip], clock)
  PROVE  /\ later \in Histories /\ Sorted(later, clock) /\ later[1] = clock
         /\ \A i \in Latest : i # 1 => later[i] = admitted[ip][i - 1]
<1> DEFINE times == admitted[ip]
<1>1. times \in Histories /\ Sorted(times, clock) /\ \A i \in Latest : times[i] \in Int
  BY TimesFacts
<1>2. \A i \in Latest : i \in Int /\ (i # 1 => i - 1 \in Latest)
  BY Numbers DEF Latest
<1>3. 1 \in Latest
  BY Numbers DEF Latest
<1> HIDE DEF times
<1>4. /\ later \in Histories /\ later[1] = clock
      /\ \A i \in Latest : i # 1 => later[i] = times[i - 1]
  BY <1>1, <1>2, <1>3, Numbers DEF Noted, Histories, times
<1>5. Sorted(later, clock)
  <2>1. SUFFICES ASSUME NEW i \in Latest
                 PROVE  /\ Forgotten <= later[i] /\ later[i] <= clock
                        /\ \A j \in Latest : i <= j => later[j] <= later[i]
    BY DEF Sorted
  <2>2. \A j \in Latest : Forgotten <= later[j] /\ later[j] <= clock
    BY <1>1, <1>2, <1>4, Numbers DEF Sorted
  <2>3. CASE i = 1
    BY <1>4, <2>2, <2>3
  <2>4. CASE i # 1
    <3>1. SUFFICES ASSUME NEW j \in Latest, i <= j PROVE later[j] <= later[i]
      BY <2>2
    <3>2. j # 1 /\ i - 1 \in Latest /\ j - 1 \in Latest /\ i - 1 <= j - 1
      BY <1>2, <2>4, <3>1 DEF Latest
    <3> QED
      BY <1>1, <1>4, <2>4, <3>2 DEF Sorted
  <2> QED
    BY <2>3, <2>4
<1> QED
  BY <1>4, <1>5 DEF times

\* The first request of a window is admitted.
LEMMA NewWindow ==
  ASSUME HInv, limit > 0, NEW ip \in Ips, NEW now \in Nat, now <= clock, clock <= now + MaxDelay,
         OfNone(admitted[ip], clock), NEW w, w = [count |-> 1, reset |-> now + Window],
         NEW later, later = Noted(admitted[ip], clock)
  PROVE  w.count <= limit /\ OfWindow(later, w, clock)
<1>1. w.count = 1 /\ w.reset = now + Window /\ Passed(w) = 1 /\ w.count <= limit
  BY Numbers DEF Passed
<1>2. later[1] = clock /\ limit + 1 \in Latest /\ later[limit + 1] = admitted[ip][limit]
  BY NotedFacts, Numbers DEF Latest
<1>3. later[1] <= w.reset - Span /\ w.reset >= 0
  BY <1>1, <1>2, Numbers DEF Span
<1> QED
  BY <1>1, <1>2, <1>3 DEF OfWindow, OfNone

\* Another request of a window is admitted, or refused and changes nothing.
LEMMA SameWindow ==
  ASSUME HInv, limit > 0, NEW ip \in DOMAIN hits, NEW w, w = [hits[ip] EXCEPT !.count = @ + 1],
         NEW later, later = IF w.count <= limit THEN Noted(admitted[ip], clock) ELSE admitted[ip]
  PROVE  OfWindow(later, w, clock)
<1> DEFINE old == hits[ip]
<1>1. /\ ip \in Ips /\ old \in IpWindow /\ old.count \in Nat \ {0} /\ Passed(old) \in Nat \ {0}
      /\ Passed(old) <= limit /\ OfWindow(admitted[ip], old, clock)
  BY WindowFacts
<1>2. w.count = old.count + 1 /\ w.reset = old.reset
  BY <1>1 DEF IpWindow
<1> HIDE DEF old
<1>3. CASE w.count <= limit
  <2>1. Passed(old) = old.count /\ Passed(w) = old.count + 1
    BY <1>1, <1>2, <1>3, Numbers DEF Passed
  <2>2. old.count + 1 \in Latest /\ limit + (old.count + 1) \in Latest
    BY <1>1, <1>2, <1>3, Numbers DEF Latest
  <2>3. later = Noted(admitted[ip], clock)
    BY <1>3
  <2>4. later[old.count + 1] = admitted[ip][old.count]
        /\ later[limit + (old.count + 1)] = admitted[ip][limit + old.count]
    <3>1. old.count + 1 # 1 /\ limit + (old.count + 1) # 1
          /\ (old.count + 1) - 1 = old.count /\ (limit + (old.count + 1)) - 1 = limit + old.count
      BY <1>1, Numbers
    <3> QED
      BY <1>1, <2>2, <2>3, <3>1, NotedFacts
  <2> QED
    BY <1>1, <1>2, <2>1, <2>4 DEF OfWindow
<1>4. CASE w.count > limit
  <2>1. Passed(old) = limit /\ Passed(w) = limit /\ later = admitted[ip]
    BY <1>1, <1>2, <1>4, Numbers DEF Passed
  <2> QED
    BY <1>1, <1>2, <2>1 DEF OfWindow
<1> QED
  BY <1>1, <1>2, <1>3, <1>4, Numbers

--------------------------------------------------------------------------------
(* The steps *)

LEMMA NextSteps == ASSUME HInv, [HNext]_hvars PROVE [Next]_vars
BY DEF HNext, hvars, HCount, HTick, Next

LEMMA IInvStep == ASSUME IInv, [Next]_vars PROVE IInv'
<1>1. ASSUME NEW ip \in Ips, Bypass(ip) PROVE IInv'
  BY <1>1, BypassKeeps
<1>2. ASSUME NEW r \in Reqs, NEW ip \in Ips, Receive(r, ip) PROVE IInv'
  BY <1>2, ReceiveKeeps
<1>3. ASSUME NEW r \in Reqs, Count(r) PROVE IInv'
  BY <1>3, CountKeeps
<1> QED
  BY <1>1, <1>2, <1>3, TickKeeps, UnchangedKeeps DEF Next, Horizon

\* Whom a decision admits.
LEMMA WhoIsAdmitted ==
  ASSUME HInv, NEW r \in Reqs, Count(r), NEW ip \in Ips
  PROVE  Admits(ip) <=> ip = waiting[r].ip /\ Entry(r).count <= limit
<1>0. IInv
  BY DEF HInv
<1>1. Entry(r).count \in Int /\ limit \in Int
  <2>1. Entry(r) \in IpWindow
    BY <1>0, CountFacts
  <2>2. limit \in Int
    BY Numbers
  <2> QED
    BY <2>1, <2>2 DEF IpWindow
<1>2. \/ /\ Entry(r).count > limit
         /\ \E s : answer' = {[ip |-> waiting[r].ip, verdict |-> "rejected", retry |-> s]}
      \/ /\ Entry(r).count <= limit
         /\ \E s : answer' = {[ip |-> waiting[r].ip, verdict |-> "admitted", retry |-> s]}
  BY DEF Count, Decision, Entry, Kept
<1>3. ASSUME NEW s, answer' = {[ip |-> waiting[r].ip, verdict |-> "rejected", retry |-> s]}
      PROVE  ~Admits(ip)
  BY <1>3 DEF Admits
<1>4. ASSUME NEW s, answer' = {[ip |-> waiting[r].ip, verdict |-> "admitted", retry |-> s]}
      PROVE  Admits(ip) <=> ip = waiting[r].ip
  BY <1>4 DEF Admits
<1>5. CASE Entry(r).count > limit
  <2>1. ~(Entry(r).count <= limit)
    BY <1>1, <1>5
  <2> QED
    BY <1>2, <1>3, <2>1
<1>6. CASE Entry(r).count <= limit
  <2>1. ~(Entry(r).count > limit)
    BY <1>1, <1>6
  <2> QED
    BY <1>2, <1>4, <1>6, <2>1
<1> QED
  BY <1>1, <1>5, <1>6

LEMMA HCountKeeps == ASSUME HInv, NEW r \in Reqs, HCount(r) PROVE HInv'
<1> DEFINE ip  == waiting[r].ip
           now == waiting[r].now
           w   == Entry(r)
<1>1. IInv /\ Count(r) /\ IInv' /\ UNCHANGED <<limit, clock>>
  BY CountKeeps DEF HInv, HCount, Count
<1>2. /\ ip \in Ips /\ now \in Nat /\ now <= clock /\ clock <= now + MaxDelay /\ limit > 0
      /\ w \in IpWindow
  BY <1>1, CountFacts DEF Readings
<1>3. \A q \in Ips : admitted'[q] = IF q = ip /\ w.count <= limit THEN Noted(admitted[q], clock)
                                                                  ELSE admitted[q]
  BY <1>1, WhoIsAdmitted DEF HCount, Noted
<1>4. UNCHANGED <<Latest, Histories>>
  BY <1>1 DEF Latest, Histories
<1>5. /\ DOMAIN hits' = DOMAIN Kept(r) \cup {ip} /\ DOMAIN Kept(r) \subseteq DOMAIN hits
      /\ \A q \in DOMAIN hits' : hits'[q] = IF q = ip THEN w ELSE hits[q]
      /\ \A q \in DOMAIN hits \ DOMAIN Kept(r) : now > hits[q].reset
  BY <1>1, CountFacts
<1>6. \/ /\ ip \notin DOMAIN hits \/ now > hits[ip].reset
         /\ w = [count |-> 1, reset |-> now + Window]
      \/ /\ ip \in DOMAIN hits
         /\ w = [hits[ip] EXCEPT !.count = @ + 1]
  BY <1>1, EntryCases
<1> HIDE DEF w, ip, now
<1>7. ASSUME NEW q \in Ips PROVE admitted'[q] \in Histories /\ Sorted(admitted'[q], clock)
  <2>1. admitted[q] \in Histories /\ Sorted(admitted[q], clock)
    BY <1>2, TimesFacts
  <2>2. Noted(admitted[q], clock) \in Histories /\ Sorted(Noted(admitted[q], clock), clock)
    BY <1>2, NotedFacts
  <2> QED
    BY <1>3, <2>1, <2>2
<1>8. admitted' \in [Ips -> Histories]
  <2>1. admitted' = [q \in Ips |-> admitted'[q]]
    BY DEF HCount
  <2> QED
    BY <1>7, <2>1
<1>9. OfWindow(admitted'[ip], w, clock)
  <2>1. CASE /\ ip \notin DOMAIN hits \/ now > hits[ip].reset
             /\ w = [count |-> 1, reset |-> now + Window]
    <3>1. OfNone(admitted[ip], clock)
      <4>1. CASE ip \notin DOMAIN hits
        BY <1>2, <4>1 DEF HInv, Explained
      <4>2. CASE ip \in DOMAIN hits
        BY <1>2, <2>1, <4>2, Ended
      <4> QED
        BY <4>1, <4>2
    <3>2. w.count <= limit /\ OfWindow(Noted(admitted[ip], clock), w, clock)
      BY <1>2, <2>1, <3>1, NewWindow
    <3> QED
      BY <1>2, <1>3, <3>2
  <2>2. CASE ip \in DOMAIN hits /\ w = [hits[ip] EXCEPT !.count = @ + 1]
    BY <1>2, <1>3, <2>2, SameWindow
  <2> QED
    BY <1>6, <2>1, <2>2
<1>10. ASSUME NEW q \in Ips
       PROVE  /\ q \in DOMAIN hits' => OfWindow(admitted'[q], hits'[q], clock)
              /\ q \notin DOMAIN hits' => OfNone(admitted'[q], clock)
  <2>1. CASE q = ip
    BY <1>5, <1>9, <2>1
  <2>2. CASE q # ip /\ q \in DOMAIN hits'
    <3>1. q \in DOMAIN hits /\ hits'[q] = hits[q] /\ admitted'[q] = admitted[q]
      BY <1>3, <1>5, <2>2
    <3> QED
      BY <1>2, <2>2, <3>1 DEF HInv, Explained
  <2>3. CASE q # ip /\ q \notin DOMAIN hits' /\ q \in DOMAIN hits
    <3>1. OfNone(admitted[q], clock)
      BY <1>2, <1>5, <2>3, Ended
    <3> QED
      BY <1>3, <2>3, <3>1
  <2>4. CASE q # ip /\ q \notin DOMAIN hits' /\ q \notin DOMAIN hits
    BY <1>2, <1>3, <2>4 DEF HInv, Explained
  <2> QED
    BY <2>1, <2>2, <2>3, <2>4
<1>11. Explained'
  BY <1>1, <1>10 DEF Explained, OfWindow, OfNone, Passed, Span
<1>12. (\A q \in Ips : Sorted(admitted[q], clock))'
  BY <1>1, <1>4, <1>7 DEF Sorted
<1> QED
  BY <1>1, <1>4, <1>8, <1>11, <1>12 DEF HInv

LEMMA HTickKeeps == ASSUME HInv, HTick PROVE HInv'
<1>1. IInv' /\ limit' = limit /\ hits' = hits /\ clock' = clock + 1
  BY TickKeeps DEF HInv, HTick, Tick
<1>2. admitted' = [ip \in Ips |-> [i \in Latest |->
         IF (clock + 1) - admitted[ip][i] > Span THEN Forgotten ELSE admitted[ip][i]]]
  <2>1. admitted' = [ip \in Ips |-> [i \in Latest |->
           IF clock' - admitted[ip][i] > Span THEN Forgotten ELSE admitted[ip][i]]]
    BY DEF HTick
  <2> QED
    BY <1>1, <2>1
<1>3. UNCHANGED <<Latest, Histories>>
  BY <1>1 DEF Latest, Histories
<1>4. ASSUME NEW ip \in Ips
      PROVE  /\ admitted'[ip] \in Histories /\ Sorted(admitted[ip], clock)
             /\ \A i \in Latest :
                  /\ admitted[ip][i] \in Int /\ admitted'[ip][i] \in Int
                  /\ Forgotten <= admitted'[ip][i] /\ admitted'[ip][i] <= admitted[ip][i]
                  /\ admitted[ip][i] <= clock
                  /\ admitted'[ip][i] = IF (clock + 1) - admitted[ip][i] > Span
                                        THEN Forgotten ELSE admitted[ip][i]
  <2>1. admitted[ip] \in Histories /\ Sorted(admitted[ip], clock)
    BY DEF HInv
  <2>2. ASSUME NEW i \in Latest
        PROVE  /\ admitted[ip][i] \in Int /\ Forgotten <= admitted[ip][i]
               /\ admitted[ip][i] <= clock
    BY <2>1 DEF Histories, Sorted
  <2>3. admitted'[ip] = [i \in Latest |->
           IF (clock + 1) - admitted[ip][i] > Span THEN Forgotten ELSE admitted[ip][i]]
    BY <1>2
  <2>4. Forgotten \in Int
    BY Numbers
  <2> QED
    BY <2>1, <2>2, <2>3, <2>4, Numbers DEF Histories
<1>5. admitted' \in [Ips -> Histories]
  <2>1. admitted' = [ip \in Ips |-> admitted'[ip]]
    BY <1>2
  <2> QED
    BY <1>4, <2>1
<1>6. (\A ip \in Ips : Sorted(admitted[ip], clock))'
  <2>1. SUFFICES ASSUME NEW ip \in Ips, NEW i \in Latest
                 PROVE  /\ Forgotten <= admitted'[ip][i] /\ admitted'[ip][i] <= clock + 1
                        /\ \A j \in Latest : i <= j => admitted'[ip][j] <= admitted'[ip][i]
    BY <1>1, <1>3 DEF Sorted, Forgotten
  <2>2. \A j \in Latest : i <= j => admitted[ip][j] <= admitted[ip][i]
    BY <1>4 DEF Sorted
  <2> QED
    BY <1>4, <2>2, Numbers
<1>7. Explained'
  <2>1. SUFFICES ASSUME limit > 0, NEW ip \in Ips
                 PROVE  /\ ip \in DOMAIN hits => OfWindow(admitted'[ip], hits[ip], clock + 1)
                        /\ ip \notin DOMAIN hits => OfNone(admitted'[ip], clock + 1)
    BY <1>1 DEF Explained, OfWindow, OfNone, Passed, Span
  <2>2. CASE ip \in DOMAIN hits
    <3> DEFINE w == hits[ip]
               n == Passed(w)
    <3>1. /\ n \in Nat \ {0} /\ n <= limit /\ w.reset \in Int
          /\ OfWindow(admitted[ip], w, clock)
      BY <2>1, <2>2, WindowFacts
    <3>2. n \in Latest /\ limit + n \in Latest
      BY <2>1, <3>1, Numbers DEF Latest
    <3> HIDE DEF w
    <3>3. /\ admitted'[ip][n] <= w.reset - Span /\ w.reset >= 0
          /\ (clock + 1) - admitted'[ip][limit + n] > Span
      BY <1>4, <3>1, <3>2, Numbers DEF OfWindow
    <3>4. OfWindow(admitted'[ip], hits[ip], clock + 1)
      BY <3>3 DEF OfWindow, w
    <3> QED
      BY <2>2, <3>4
  <2>3. CASE ip \notin DOMAIN hits
    <3>1. OfNone(admitted[ip], clock) /\ limit \in Latest
      BY <2>1, <2>3, Numbers DEF HInv, Explained, Latest
    <3>2. (clock + 1) - admitted'[ip][limit] > Span
      BY <1>4, <3>1, Numbers DEF OfNone
    <3>3. OfNone(admitted'[ip], clock + 1)
      BY <3>2 DEF OfNone
    <3> QED
      BY <2>3, <3>3
  <2> QED
    BY <2>2, <2>3
<1> QED
  BY <1>1, <1>3, <1>5, <1>6, <1>7 DEF HInv

\* Steps that neither count a request nor let time pass.
LEMMA OtherStepsKeep ==
  ASSUME HInv, IInv', UNCHANGED <<limit, clock, hits, admitted>>
  PROVE  HInv'
BY DEF HInv, Histories, Sorted, Explained, OfWindow, OfNone, Passed, Latest

LEMMA HInitInvariant == HInit => HInv
<1> SUFFICES ASSUME HInit PROVE HInv
  OBVIOUS
<1>1. IInv
  BY InitInvariant DEF HInit
<1>2. /\ Window \in Nat \ {0} /\ MaxDelay \in Nat /\ MaxDelay <= Window /\ limit \in Int
      /\ clock = 0 /\ DOMAIN hits = {} /\ Forgotten \in Int /\ Forgotten = -Window - 1
      /\ Span = Window - MaxDelay
  BY WindowAssumption, DelayAssumption, LimitAssumption DEF HInit, Init, Forgotten, Span
<1>3. \A ip \in Ips : admitted[ip] = [i \in Latest |-> Forgotten]
  BY DEF HInit
<1>4. admitted \in [Ips -> Histories]
  BY <1>2 DEF HInit, Histories
<1>5. \A ip \in Ips : Sorted(admitted[ip], clock)
  BY <1>2, <1>3 DEF Sorted
<1>6. Explained
  <2>1. SUFFICES ASSUME limit > 0, NEW ip \in Ips PROVE OfNone(admitted[ip], clock)
    BY <1>2 DEF Explained
  <2>2. limit \in Latest
    BY <1>2, <2>1 DEF Latest
  <2> QED
    BY <1>2, <1>3, <2>2 DEF OfNone
<1> QED
  BY <1>1, <1>4, <1>5, <1>6 DEF HInv

LEMMA HStepping == HInv /\ [HNext]_hvars => HInv'
<1> SUFFICES ASSUME HInv, [HNext]_hvars PROVE HInv'
  OBVIOUS
<1>1. IInv /\ IInv'
  BY NextSteps, IInvStep DEF HInv
<1>2. ASSUME NEW ip \in Ips, Bypass(ip), UNCHANGED admitted PROVE HInv'
  BY <1>1, <1>2, OtherStepsKeep DEF Bypass
<1>3. ASSUME NEW r \in Reqs, NEW ip \in Ips, Receive(r, ip), UNCHANGED admitted PROVE HInv'
  BY <1>1, <1>3, OtherStepsKeep DEF Receive
<1>4. ASSUME NEW r \in Reqs, HCount(r) PROVE HInv'
  BY <1>4, HCountKeeps
<1>5. CASE UNCHANGED hvars \/ (Horizon /\ UNCHANGED admitted)
  BY <1>1, <1>5, OtherStepsKeep DEF Horizon, hvars, vars
<1> QED
  BY <1>2, <1>3, <1>4, <1>5, HTickKeeps DEF HNext

--------------------------------------------------------------------------------
(* The theorems *)

\* The admissions of every IP are those of the window that is remembered, if one
\* is, and of one before it whose first request is too old.
THEOREM HInvariance == HSpec => []HInv
BY HInitInvariant, HStepping, PTL DEF HSpec

\* The history only watches: what is proved of RateLimiter holds with it.
THEOREM HistoryOnly == HSpec => Spec
<1>1. HInit => Init
  BY DEF HInit
<1>2. HInv /\ [HNext]_hvars => [Next]_vars
  BY NextSteps
<1> QED
  BY <1>1, <1>2, HInvariance, PTL DEF HSpec, Spec

\* "NewRateLimiter allows `limit` requests per `window` per IP", over any ticks
\* that are fewer than a window by the delay: at most twice the limit less one.
THEOREM SlidingLimit == HSpec => []SlidingBound
<1>1. HInv => SlidingBound
  <2> SUFFICES ASSUME HInv, limit > 0, NEW ip \in Ips
               PROVE  clock - admitted[ip][2 * limit] > Span
    BY DEF SlidingBound
  <2> DEFINE times == admitted[ip]
  <2>1. 2 * limit \in Latest /\ times[2 * limit] \in Int
        /\ \A i \in Latest : times[i] \in Int /\ (i <= 2 * limit => times[2 * limit] <= times[i])
    <3>1. 2 * limit \in Latest
      BY Numbers DEF Latest
    <3> QED
      BY <3>1, TimesFacts DEF Sorted
  <2>2. PICK i \in Latest : clock - times[i] > Span
    <3>1. CASE ip \in DOMAIN hits
      <4>1. limit + Passed(hits[ip]) \in Latest
        BY <3>1, WindowFacts, Numbers DEF Latest
      <4> QED
        BY <3>1, <4>1, WindowFacts DEF OfWindow
    <3>2. CASE ip \notin DOMAIN hits
      <4>1. limit \in Latest
        BY Numbers DEF Latest
      <4> QED
        BY <3>2, <4>1 DEF HInv, Explained, OfNone
    <3> QED
      BY <3>1, <3>2
  <2>3. i <= 2 * limit
    BY DEF Latest
  <2> QED
    BY <2>1, <2>2, <2>3, Numbers
<1> QED
  BY <1>1, HInvariance, PTL
================================================================================
