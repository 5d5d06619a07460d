------------------------------ MODULE LimiterCore ------------------------------
(***************************************************************************)
(* The pure part of internal/middleware/ratelimit.go: what sweep() keeps,  *)
(* what one hit does to the entry of its IP and which Retry-After value a  *)
(* refused client is told.  Time is counted in ticks; a table is a map     *)
(* from IPs to windows, so an IP without an entry is outside its DOMAIN.   *)
(***************************************************************************)
EXTENDS Integers, Functions

CONSTANTS
  Window,     \* rl.window in ticks
  Second      \* ticks in one second, the unit of Retry-After

ASSUME WindowAssumption == Window \in Nat \ {0}
ASSUME SecondAssumption == Second \in Nat \ {0}

\* ipWindow: the hits counted so far, and when the window ends.
IpWindow == [count : Nat, reset : Int]

\* table is a map from some of the IPs to windows.
IsTable(table, Ips) ==
  /\ DOMAIN table \subseteq Ips
  /\ table \in [DOMAIN table -> IpWindow]

--------------------------------------------------------------------------------
(* Mutated forms, each a plausible slip in the code it stands for. *)

SweepDueSeldom(swept, now) == now - swept >= 2 * Window

CountHitNoLength(table, ip, now) ==
  IF ip \notin DOMAIN table \/ now > table[ip].reset
  THEN [count |-> 1, reset |-> now]
  ELSE [table[ip] EXCEPT !.count = @ + 1]

CountHitAtReset(table, ip, now) ==
  IF ip \notin DOMAIN table \/ now >= table[ip].reset
  THEN [count |-> 1, reset |-> now + Window]
  ELSE [table[ip] EXCEPT !.count = @ + 1]

AtLeastZeroMissing(n) == n

--------------------------------------------------------------------------------
(* sweep(): due when a whole window has passed since the last sweep; it    *)
(* then drops every entry whose reset lies strictly in the past.           *)

SweepDue(swept, now) == now - swept >= Window

Sweep(table, now) == Restrict(table, {ip \in DOMAIN table : now <= table[ip].reset})

\* The entry of ip after this hit: a first hit, or one strictly after reset,
\* starts a new window; any other hit is counted in the current one.
CountHit(table, ip, now) ==
  IF ip \notin DOMAIN table \/ now > table[ip].reset
  THEN [count |-> 1, reset |-> now + Window]
  ELSE [table[ip] EXCEPT !.count = @ + 1]

\* rl.hits[ip] = w
Store(table, ip, w) ==
  [i \in DOMAIN table \cup {ip} |-> IF i = ip THEN w ELSE table[i]]

--------------------------------------------------------------------------------
(* Retry-After: int(time.Until(reset).Seconds()) truncates toward zero and *)
(* itoa prints a negative number as 0.                                     *)

WholeSeconds(left) == IF left >= 0 THEN left \div Second ELSE -((-left) \div Second)

AtLeastZero(n) == IF n < 0 THEN 0 ELSE n

RetryAfter(left) == AtLeastZero(WholeSeconds(left))
================================================================================
