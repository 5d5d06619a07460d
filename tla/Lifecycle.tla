------------------------------- MODULE Lifecycle -------------------------------
(***************************************************************************)
(* cmd/main.go and client.Dial: how the gateway starts, what a signal does *)
(* at each moment of it, and what main leaves behind when it returns,      *)
(* which ends the process and whatever its other goroutines are doing.     *)
(***************************************************************************)
EXTENDS Sequences

CONSTANT Reqs   \* names for the requests in progress

VARIABLES
  env,        \* what is configured: production, sound (ValidateSecurity), secret
  pc,         \* where main is
  deferred,   \* main's deferred calls, the latest first
  ctx,        \* the signal context: "live" or "done"
  tracer,     \* "none", "open" or "shut"
  conns,      \* client connections that are open
  server,     \* "new", "listening" or "closed"
  watcher,    \* the goroutine that waits for the signal
  request

vars == <<env, pc, deferred, ctx, tracer, conns, server, watcher, request>>
resources == <<tracer, conns, server>>

Services == {"auth", "user"}

TypeOK ==
  /\ env \in [production : BOOLEAN, sound : BOOLEAN, secret : BOOLEAN]
  /\ pc \in {"start", "validate", "trace", "dial", "listen", "serving", "returning", "exited"}
  /\ deferred \in {<<>>, <<"stop">>, <<"tracer", "stop">>, <<"clients", "tracer", "stop">>}
  /\ ctx \in {"live", "done"}
  /\ tracer \in {"none", "open", "shut"}
  /\ conns \subseteq Services
  /\ server \in {"new", "listening", "closed"}
  /\ watcher \in {"none", "waiting", "draining", "finished"}
  /\ request \in [Reqs -> {"idle", "inside", "answered", "refused", "cut"}]
  /\ pc = "dial" => tracer = "open"
  /\ pc = "serving" => Len(deferred) = 3 /\ watcher # "none" /\ server # "new"

Init ==
  /\ env \in [production : BOOLEAN, sound : BOOLEAN, secret : BOOLEAN]
  /\ pc = "start" /\ deferred = <<>> /\ ctx = "live"
  /\ tracer = "none" /\ conns = {} /\ server = "new" /\ watcher = "none"
  /\ request = [r \in Reqs |-> "idle"]

--------------------------------------------------------------------------------
(* main *)

Goto(next) == pc' = next
Defer(call) == deferred' = <<call>> \o deferred
Return == Goto("returning") /\ UNCHANGED deferred

Notify ==
  /\ pc = "start"
  /\ Goto("validate") /\ Defer("stop")
  /\ UNCHANGED <<env, ctx, resources, watcher, request>>

\* A mutated form of Validate.
ValidateAlways ==
  /\ pc = "validate"
  /\ IF env.sound THEN Goto("trace") /\ UNCHANGED deferred ELSE Return
  /\ UNCHANGED <<env, ctx, resources, watcher, request>>

Validate ==
  /\ pc = "validate"
  /\ IF env.sound /\ (env.production => env.secret)
     THEN Goto("trace") /\ UNCHANGED deferred ELSE Return
  /\ UNCHANGED <<env, ctx, resources, watcher, request>>

\* A mutated form of InitTracer.
InitTracerIgnoringErrors ==
  /\ pc = "trace"
  /\ tracer' \in {"none", "open"} /\ Goto("dial") /\ Defer("tracer")
  /\ UNCHANGED <<env, ctx, conns, server, watcher, request>>

InitTracer ==
  /\ pc = "trace"
  /\ \/ Return /\ UNCHANGED tracer
     \/ tracer' = "open" /\ Goto("dial") /\ Defer("tracer")
  /\ UNCHANGED <<env, ctx, conns, server, watcher, request>>

\* Mutated forms of Dial.
DialLeaving ==
  /\ pc = "dial"
  /\ \/ conns' \in {{}, {"auth"}} /\ Return
     \/ conns' = Services /\ Goto("listen") /\ Defer("clients")
  /\ UNCHANGED <<env, ctx, tracer, server, watcher, request>>

DialDropping ==
  /\ pc = "dial"
  /\ \/ conns' = {} /\ Return
     \/ conns' = {"user"} /\ Goto("listen") /\ Defer("clients")
  /\ UNCHANGED <<env, ctx, tracer, server, watcher, request>>

\* Dial: when the second connection cannot be made the first is closed again.
Dial ==
  /\ pc = "dial"
  /\ \/ conns' = {} /\ Return
     \/ conns' = Services /\ Goto("listen") /\ Defer("clients")
  /\ UNCHANGED <<env, ctx, tracer, server, watcher, request>>

\* A mutated form of StartWatcher.
StartWatcherIfQuiet ==
  /\ pc = "listen" /\ watcher = "none"
  /\ watcher' = IF ctx = "live" THEN "waiting" ELSE "finished"
  /\ UNCHANGED <<env, pc, deferred, ctx, resources, request>>

StartWatcher ==
  /\ pc = "listen" /\ watcher = "none"
  /\ watcher' = "waiting"
  /\ UNCHANGED <<env, pc, deferred, ctx, resources, request>>

\* ListenAndServe: it returns at once if Shutdown was faster or the port is taken.
Listen ==
  /\ pc = "listen" /\ watcher # "none"
  /\ \/ server = "new" /\ server' = "listening" /\ Goto("serving") /\ UNCHANGED deferred
     \/ server' = "closed" /\ Return
  /\ UNCHANGED <<env, ctx, tracer, conns, watcher, request>>

\* ListenAndServe returns when Shutdown begins, not when it ends.
Served ==
  /\ pc = "serving" /\ server = "closed"
  /\ Return
  /\ UNCHANGED <<env, ctx, resources, watcher, request>>

\* Accept fails for good.
ServeFails ==
  /\ pc = "serving" /\ server = "listening"
  /\ server' = "closed" /\ Return
  /\ UNCHANGED <<env, ctx, tracer, conns, watcher, request>>

\* The deferred calls, the last first; then the process ends.
Unwind ==
  /\ pc = "returning" /\ deferred # <<>>
  /\ deferred' = Tail(deferred)
  /\ conns' = IF Head(deferred) = "clients" THEN {} ELSE conns
  /\ tracer' = IF Head(deferred) = "tracer" THEN "shut" ELSE tracer
  /\ ctx' = IF Head(deferred) = "stop" THEN "done" ELSE ctx
  /\ UNCHANGED <<env, pc, server, watcher, request>>

CutAll == request' = [r \in Reqs |-> IF request[r] = "inside" THEN "cut" ELSE request[r]]

Exit ==
  /\ pc = "returning" /\ deferred = <<>>
  /\ Goto("exited") /\ CutAll
  /\ UNCHANGED <<env, deferred, ctx, resources, watcher>>

Main ==
  \/ Notify \/ Validate \/ InitTracer \/ Dial \/ StartWatcher \/ Listen
  \/ Served \/ Unwind \/ Exit

--------------------------------------------------------------------------------
(* The signal, the goroutine that waits for it, and the requests *)

\* SIGINT or SIGTERM, which ends the process if main does not listen for it yet.
Signal ==
  /\ pc # "exited" /\ ctx = "live"
  /\ IF deferred = <<>> THEN Goto("exited") /\ UNCHANGED ctx
                        ELSE ctx' = "done" /\ UNCHANGED pc
  /\ UNCHANGED <<env, deferred, resources, watcher, request>>

Inside == {r \in Reqs : request[r] = "inside"}

Running == pc # "exited"

\* srv.Shutdown closes the listener and waits, for five seconds at most.
Shutdown ==
  /\ Running /\ watcher = "waiting" /\ ctx = "done"
  /\ watcher' = "draining" /\ server' = "closed"
  /\ UNCHANGED <<env, pc, deferred, ctx, tracer, conns, request>>

\* All requests are answered, or the five seconds are over.
Drain ==
  /\ Running /\ watcher = "draining"
  /\ watcher' = "finished"
  /\ UNCHANGED <<env, pc, deferred, ctx, resources, request>>

Accept(r) ==
  /\ Running /\ server = "listening" /\ request[r] # "inside"
  /\ request' = [request EXCEPT ![r] = "inside"]
  /\ UNCHANGED <<env, pc, deferred, ctx, resources, watcher>>

\* The handler's call fails if its connection is closed.
Finish(r) ==
  /\ Running /\ request[r] = "inside"
  /\ request' = [request EXCEPT ![r] = IF conns = Services THEN "answered" ELSE "refused"]
  /\ UNCHANGED <<env, pc, deferred, ctx, resources, watcher>>

Over == pc = "exited" /\ UNCHANGED vars

Next ==
  \/ Main \/ ServeFails \/ Signal \/ Shutdown \/ Drain
  \/ \E r \in Reqs : Accept(r) \/ Finish(r)
  \/ Over

\* main and the goroutine are scheduled, and the library calls they make return.
\* Nothing is assumed of the requests: one may never end.
Spec == Init /\ [][Next]_vars
FairSpec == Spec /\ WF_vars(Main) /\ WF_vars(Shutdown)

--------------------------------------------------------------------------------
(* Properties *)

\* However far main came before it returned, it leaves no connection open and
\* the spans it recorded are flushed.
Released == pc = "exited" => conns = {} /\ tracer # "open"

\* As long as main serves, whoever is inside is served by a gateway with both
\* connections and, in production, with a SESSION_SECRET of its own and not the
\* default of sessionSecret(); nobody is cut off or refused before main returns.
ServedWhenReady ==
  /\ Inside # {} /\ pc = "serving" =>
       conns = Services /\ env.sound /\ (env.production => env.secret)
  /\ pc \notin {"returning", "exited"} => \A r \in Reqs : request[r] \notin {"refused", "cut"}

\* A signal stops the gateway, whether it comes while main still starts, between
\* the start of the goroutine and ListenAndServe, or while a request never ends.
Stops == ctx = "done" ~> pc = "exited"
================================================================================
