---------------------------- MODULE LifecycleProofs ----------------------------
(***************************************************************************)
(* Type correctness, Released and ServedWhenReady of Lifecycle, for any    *)
(* number of requests.  What main has deferred tells how far it came, and  *)
(* what it may have to release.                                            *)
(***************************************************************************)
EXTENDS Lifecycle, TLAPS

\* What main has deferred when it is at each of its steps.
Deferred ==
  /\ pc = "start" => deferred = <<>>
  /\ pc \in {"validate", "trace"} => deferred = <<"stop">>
  /\ pc = "dial" => deferred = <<"tracer", "stop">>
  /\ pc \in {"listen", "serving"} => deferred = <<"clients", "tracer", "stop">>

\* What is open will be released by a call that is still deferred.
Accounted ==
  /\ tracer = "open" <=> deferred \in {<<"tracer", "stop">>, <<"clients", "tracer", "stop">>}
  /\ conns = IF deferred = <<"clients", "tracer", "stop">> THEN Services ELSE {}
  /\ pc = "exited" => deferred = <<>>

\* Nobody is let in before main serves, and main serves only if it is ready.
Ready ==
  /\ pc \in {"trace", "dial", "listen", "serving"} =>
       env.sound /\ (env.production => env.secret)
  /\ pc \in {"start", "validate", "trace", "dial", "listen"} =>
       server # "listening" /\ Inside = {}
  /\ pc = "serving" => watcher # "none" /\ server # "new"
  /\ pc \notin {"returning", "exited"} => \A r \in Reqs : request[r] \notin {"refused", "cut"}

IInv == TypeOK /\ Deferred /\ Accounted /\ Ready

\* main's stack, and what it is without its latest call.
LEMMA Stack ==
  /\ <<"stop">> # <<>> /\ <<"tracer", "stop">> # <<>> /\ <<"clients", "tracer", "stop">> # <<>>
  /\ <<"stop">> # <<"tracer", "stop">> /\ <<"stop">> # <<"clients", "tracer", "stop">>
  /\ <<"tracer", "stop">> # <<"clients", "tracer", "stop">>
  /\ Tail(<<"stop">>) = <<>> /\ Head(<<"stop">>) = "stop"
  /\ Tail(<<"tracer", "stop">>) = <<"stop">> /\ Head(<<"tracer", "stop">>) = "tracer"
  /\ Tail(<<"clients", "tracer", "stop">>) = <<"tracer", "stop">>
  /\ Head(<<"clients", "tracer", "stop">>) = "clients"
  /\ <<"stop">> \o <<>> = <<"stop">>
  /\ <<"tracer">> \o <<"stop">> = <<"tracer", "stop">>
  /\ <<"clients">> \o <<"tracer", "stop">> = <<"clients", "tracer", "stop">>
  /\ Len(<<"clients", "tracer", "stop">>) = 3
<1>1. /\ <<"stop">> # <<>> /\ <<"tracer", "stop">> # <<>> /\ <<"clients", "tracer", "stop">> # <<>>
      /\ <<"stop">> # <<"tracer", "stop">> /\ <<"stop">> # <<"clients", "tracer", "stop">>
      /\ <<"tracer", "stop">> # <<"clients", "tracer", "stop">>
  OBVIOUS
<1>2. Tail(<<"stop">>) = <<>> /\ Head(<<"stop">>) = "stop"  OBVIOUS
<1>3. Tail(<<"tracer", "stop">>) = <<"stop">> /\ Head(<<"tracer", "stop">>) = "tracer"  OBVIOUS
<1>4. Tail(<<"clients", "tracer", "stop">>) = <<"tracer", "stop">>  OBVIOUS
<1>5. Head(<<"clients", "tracer", "stop">>) = "clients"  OBVIOUS
<1>6. <<"stop">> \o <<>> = <<"stop">>  OBVIOUS
<1>7. <<"tracer">> \o <<"stop">> = <<"tracer", "stop">>
  <2> DEFINE t == <<"tracer">> \o <<"stop">>
  <2>1. t \in Seq({"tracer", "stop"}) /\ Len(t) = 2 /\ t[1] = "tracer" /\ t[2] = "stop"  OBVIOUS
  <2> HIDE DEF t
  <2>2. t = <<"tracer", "stop">>  BY <2>1
  <2> QED  BY <2>2 DEF t
<1>8. <<"clients">> \o <<"tracer", "stop">> = <<"clients", "tracer", "stop">>
  <2> DEFINE t == <<"clients">> \o <<"tracer", "stop">>
  <2>1. /\ t \in Seq({"clients", "tracer", "stop"}) /\ Len(t) = 3
        /\ t[1] = "clients" /\ t[2] = "tracer" /\ t[3] = "stop"
    OBVIOUS
  <2> HIDE DEF t
  <2>2. t = <<"clients", "tracer", "stop">>  BY <2>1
  <2> QED  BY <2>2 DEF t
<1>9. Len(<<"clients", "tracer", "stop">>) = 3  OBVIOUS
<1> QED  BY <1>1, <1>2, <1>3, <1>4, <1>5, <1>6, <1>7, <1>8, <1>9

LEMMA Initially == Init => IInv
BY Stack DEF Init, IInv, TypeOK, Deferred, Accounted, Ready, Inside

\* A step of main.
LEMMA MainKeeps == IInv /\ Main => IInv'
<1> SUFFICES ASSUME IInv, Main PROVE IInv'  OBVIOUS
<1> USE DEF IInv, TypeOK, Deferred, Accounted, Ready, Inside, resources, Goto, Return, Defer
<1>1. CASE Notify  BY <1>1, Stack DEF Notify
<1>2. CASE Validate  BY <1>2, Stack DEF Validate
<1>3. CASE InitTracer  BY <1>3, Stack DEF InitTracer
<1>4. CASE Dial  BY <1>4, Stack DEF Dial, Services
<1>5. CASE StartWatcher  BY <1>5, Stack DEF StartWatcher
<1>6. CASE Listen  BY <1>6, Stack DEF Listen
<1>7. CASE Served  BY <1>7, Stack DEF Served
<1>8. CASE Unwind  BY <1>8, Stack DEF Unwind
<1>9. CASE Exit  BY <1>9, Stack DEF Exit, CutAll
<1> QED  BY <1>1, <1>2, <1>3, <1>4, <1>5, <1>6, <1>7, <1>8, <1>9 DEF Main

\* A step of anybody else.
LEMMA OthersKeep ==
  ASSUME IInv,
         \/ ServeFails \/ Signal \/ Shutdown \/ Drain
         \/ \E r \in Reqs : Accept(r) \/ Finish(r)
         \/ UNCHANGED vars
  PROVE  IInv'
<1> USE DEF IInv, TypeOK, Deferred, Accounted, Ready, Inside, resources, Goto, Return, Running
<1>1. CASE ServeFails  BY <1>1, Stack DEF ServeFails
<1>2. CASE Signal  BY <1>2, Stack DEF Signal
<1>3. CASE Shutdown  BY <1>3, Stack DEF Shutdown
<1>4. CASE Drain  BY <1>4, Stack DEF Drain
<1>5. ASSUME NEW r \in Reqs, Accept(r) PROVE IInv'  BY <1>5, Stack DEF Accept
<1>6. ASSUME NEW r \in Reqs, Finish(r) PROVE IInv'  BY <1>6, Stack DEF Finish
<1>7. CASE UNCHANGED vars  BY <1>7 DEF vars
<1> QED  BY <1>1, <1>2, <1>3, <1>4, <1>5, <1>6, <1>7

\* What main has deferred accounts for all it has opened, wherever it is.
THEOREM Invariance == Spec => []IInv
<1>1. IInv /\ [Next]_vars => IInv'  BY MainKeeps, OthersKeep DEF Next, Over
<1> QED  BY <1>1, Initially, PTL DEF Spec

\* Type correctness, with the tracer and the goroutine in place when needed.
THEOREM TypeCorrect == Spec => []TypeOK
<1>1. IInv => TypeOK  BY DEF IInv
<1> QED  BY <1>1, Invariance, PTL

\* However far main came, it leaves no connection open and the tracer shut down.
THEOREM NothingLeft == Spec => []Released
<1>1. IInv => Released  BY Stack DEF IInv, Accounted, Released
<1> QED  BY <1>1, Invariance, PTL

\* Whoever is inside while main serves is served by a gateway that is ready.
THEOREM ReadyWhenServing == Spec => []ServedWhenReady
<1>1. IInv => ServedWhenReady
  BY Stack DEF IInv, TypeOK, Deferred, Accounted, Ready, ServedWhenReady
<1> QED  BY <1>1, Invariance, PTL
================================================================================
