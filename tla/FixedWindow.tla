------------------------------ MODULE FixedWindow ------------------------------
(***************************************************************************)
(* What a per-IP fixed-window limiter promises to its clients, without the *)
(* table, the sweep, the counters past the limit or the waiting requests:  *)
(*   - a window admits at most `limit' requests of its IP;                 *)
(*   - a new window of an IP starts only after the previous one has ended; *)
(*   - a request is refused only if its window is spent and has not been   *)
(*     over for longer than Slack, and is told to wait for a whole number  *)
(*     of seconds no longer than a window;                                 *)
(*   - a limit of zero or less admits everything.                          *)
(* Slack is how long a request may hold a clock reading before it uses it. *)
(***************************************************************************)
EXTENDS Integers

CONSTANTS Ips, Limits, Window, Second, Slack

VARIABLES
  limit,      \* requests per window, fixed at construction
  clock,
  windows,    \* the windows remembered: IP -> [end, passed]
  answer      \* the latest answer given at this tick, a set of at most one record

vars == <<limit, clock, windows, answer>>

Init ==
  /\ limit \in Limits
  /\ clock = 0
  /\ windows = [ip \in {} |-> [end |-> 0, passed |-> 0]]
  /\ answer = {}

Ended(ip) == ip \notin DOMAIN windows \/ clock > windows[ip].end

Answer(ip, verdict, retry) ==
  answer' = {[ip |-> ip, verdict |-> verdict, retry |-> retry]}

\* Some ended windows may be forgotten whenever an answer is given.
Become(ip, w) ==
  \E gone \in SUBSET {i \in DOMAIN windows : clock > windows[i].end} :
    windows' = [i \in (DOMAIN windows \ gone) \cup {ip} |->
                  IF i = ip THEN w ELSE windows[i]]

AdmitUnlimited(ip) ==
  /\ limit <= 0
  /\ Answer(ip, "admitted", 0)
  /\ UNCHANGED <<limit, clock, windows>>

\* The first request of a new window; the window is at most a length long.
Open(ip) ==
  /\ limit > 0
  /\ Ended(ip)
  /\ \E end \in (clock + Window - Slack)..(clock + Window) :
       Become(ip, [end |-> end, passed |-> 1])
  /\ Answer(ip, "admitted", 0)
  /\ UNCHANGED <<limit, clock>>

Running(ip) == ip \in DOMAIN windows /\ clock <= windows[ip].end + Slack

Admit(ip) ==
  /\ Running(ip)
  /\ windows[ip].passed < limit
  /\ Become(ip, [end |-> windows[ip].end, passed |-> windows[ip].passed + 1])
  /\ Answer(ip, "admitted", 0)
  /\ UNCHANGED <<limit, clock>>

Refuse(ip) ==
  /\ limit > 0
  /\ Running(ip)
  /\ windows[ip].passed = limit
  /\ Become(ip, windows[ip])
  /\ \E s \in 0..(Window \div Second) : Answer(ip, "rejected", s)
  /\ UNCHANGED <<limit, clock>>

Tick ==
  /\ clock' = clock + 1
  /\ answer' = {}
  /\ UNCHANGED <<limit, windows>>

Next ==
  \/ \E ip \in Ips : AdmitUnlimited(ip) \/ Open(ip) \/ Admit(ip) \/ Refuse(ip)
  \/ Tick

Spec == Init /\ [][Next]_vars
================================================================================
