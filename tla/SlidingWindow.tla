----------------------------- MODULE SlidingWindow -----------------------------
(***************************************************************************)
(* RateLimiter with a history: when the limiter let the latest requests of *)
(* each IP through.                                                        *)
(***************************************************************************)
EXTENDS RateLimiter

VARIABLE admitted   \* IP -> times of its latest 2 * limit admissions, newest first

hvars == <<vars, admitted>>

\* The ticks that SlidingBound is about: the openings of two windows of an IP are
\* further apart, whatever clocks their requests and the sweeps between have read.
Span == Window - MaxDelay

\* An admission that was never made, or is too long ago to matter.
Forgotten == -Window - 1

Latest == 1..(2 * limit)

HInit == Init /\ admitted = [ip \in Ips |-> [i \in Latest |-> Forgotten]]

Admits(ip) == \E a \in answer' : a.ip = ip /\ a.verdict = "admitted"

HCount(r) ==
  /\ Count(r)
  /\ admitted' = [ip \in Ips |->
       IF Admits(ip) THEN [i \in Latest |-> IF i = 1 THEN clock ELSE admitted[ip][i - 1]]
                     ELSE admitted[ip]]

HTick ==
  /\ Tick
  /\ admitted' = [ip \in Ips |-> [i \in Latest |->
       IF clock' - admitted[ip][i] > Span THEN Forgotten ELSE admitted[ip][i]]]

\* Without a limit nothing is counted, by the code or here.
HNext ==
  \/ \E ip \in Ips : Bypass(ip) /\ UNCHANGED admitted
  \/ \E r \in Reqs, ip \in Ips : Receive(r, ip) /\ UNCHANGED admitted
  \/ \E r \in Reqs : HCount(r)
  \/ HTick
  \/ Horizon /\ UNCHANGED admitted

HSpec == HInit /\ [][HNext]_hvars

\* "NewRateLimiter allows `limit` requests per `window` per IP": not over any
\* stretch of time, since the end of one window and the start of the next may
\* both be full, but of the latest 2 * limit requests of an IP that passed the
\* first did so more than Span ago, in whatever order requests with stale clocks
\* count, reset and sweep.
SlidingBound == limit > 0 => \A ip \in Ips : clock - admitted[ip][2 * limit] > Span
================================================================================
