---------------------------- MODULE CpuAgent_proofs ----------------------------
(***************************************************************************)
(* Proofs about the CPU agent: for all usages, delays and bounds, every    *)
(* reachable state is well-formed and "false" is only sent after the load  *)
(* has been low for HoldSeconds; and while nothing fails, the node says    *)
(* that it is busy while it is, and for a bounded time afterwards.         *)
(***************************************************************************)
EXTENDS CpuAgent, TLAPS

Calls == [kind : {"high", "reset", "clear"}, waited : 0..CallTimeout,
          served : BOOLEAN, ann : Annotations]

\* The seconds of quiet a second later, which are counted up to a larger bound than ages are.
Quieter(q) == IF q < MaxQuiet THEN q + 1 ELSE q

\* Ages and the seconds of quiet grow with each other.
LEMMA OlderAges ==
    ASSUME NEW a \in 0..MaxAge, NEW q \in 0..MaxQuiet
    PROVE  /\ Older(a) \in 0..MaxAge /\ Quieter(q) \in 0..MaxQuiet
           /\ a <= q => Older(a) <= Quieter(q)
           /\ a <= Older(a) /\ q <= Quieter(q) /\ Quieter(q) <= q + 1
BY AgentAssumption DEF Older, Quieter, MaxAge

\* What the loop publishes is a well-formed call.
LEMMA CallType ==
    ASSUME NEW kind \in {"high", "reset", "clear"}, NEW u \in Usages,
           NEW duration \in 0..(MaxBusy + 1), NEW busy \in {"true", "false"},
           Call(kind, u, duration, busy)
    PROVE  call' \in Calls /\ call'.kind = kind /\ ~call'.served
<1>1. [usage |-> u, duration |-> duration, busy |-> busy] \in Annotations
    BY DEF Annotations
<1>2. 0 \in 0..CallTimeout
    BY AgentAssumption
<1> QED
    BY <1>1, <1>2 DEF Call, Calls

\* The agent starts without anything to wait for.
LEMMA InitInvariant == Init => IInv
<1> SUFFICES ASSUME Init PROVE IInv
    OBVIOUS
<1>1. 0 \in 0..(MaxBusy + 1) /\ MaxAge \in 0..MaxAge /\ MaxQuiet \in 0..MaxQuiet
      /\ 0 \in 0..MaxFailures
      /\ 0 \in 0..MaxRestarts /\ 0 \in 0..MaxBusy
    BY AgentAssumption DEF MaxAge
<1>2. TypeOK
    BY <1>1 DEF Init, TypeOK
<1>3. call.kind # "clear"
    BY DEF Init, NoCall
<1> QED
    BY <1>2, <1>3, AgentAssumption
       DEF Init, IInv, RepliesInv, WaitingInv, BusyInv, FalseIsSentAfterQuiet

\* A sample is a usage, and a busy one needs a busy second.
LEMMA SampleType ==
    ASSUME TypeOK, NEW u \in Samples
    PROVE  u \in Usages /\ (Busy(u) => \E b \in seen : Busy(b))
<1>1. PICK a \in seen, b \in seen : u \in Usages /\ a <= u /\ u <= b
    BY DEF Samples
<1>2. u \in Int /\ b \in Int /\ Threshold \in Int
    BY <1>1, AgentAssumption DEF TypeOK
<1> QED
    BY <1>1, <1>2 DEF Busy

\* The loop's reaction to a usage, which if it is busy has a busy second behind it.
LEMMA ReactionInvariant ==
    ASSUME IInv, call = NoCall, NEW u \in Usages, Busy(u) => \E b \in seen : Busy(b),
           SampleHigh(u) \/ SampleDrop(u) \/ SampleLow(u),
           tick' = FALSE, seen' = {}, failures' \in 0..MaxFailures,
           UNCHANGED <<load, lastAnnUsage, annAge, dropAge, jobs, node, restarts, highFor>>
    PROVE  IInv'
<1>1. TypeOK /\ RepliesInv /\ WaitingInv /\ BusyInv /\ call = NoCall
    BY DEF IInv
<1>2. SampleHigh(u) \/ SampleDrop(u) \/ SampleLow(u)
    OBVIOUS
<1>3. u \in Usages /\ (Busy(u) => \E b \in seen : Busy(b))
    OBVIOUS
<1>4. /\ tick' = FALSE /\ seen' = {} /\ failures' \in 0..MaxFailures
      /\ UNCHANGED <<load, lastAnnUsage, annAge, dropAge, jobs, node, restarts, highFor>>
    OBVIOUS
<1>5. /\ over90time \in Nat /\ MaxBusy \in Nat /\ HoldSeconds \in Nat \ {0}
      /\ dropAge \in 0..MaxAge /\ quiet \in 0..MaxQuiet /\ MaxAge \in Nat /\ MaxQuiet \in Nat
    BY <1>1, AgentAssumption DEF TypeOK, MaxAge
<1>6. \A j \in jobs : ~j.live
    BY <1>1 DEF RepliesInv
<1>7. /\ over90time' \in 0..(MaxBusy + 1) /\ over90time' <= MaxBusy
      /\ waiting' \in BOOLEAN /\ quiet' \in 0..MaxQuiet
      /\ waiting' => dropAge <= quiet'
      /\ call' = NoCall \/ call' \in Calls
      /\ call' # NoCall /\ call'.kind = "clear" => quiet' >= HoldSeconds
  <2>1. CASE SampleHigh(u)
    <3>1. /\ over90time' = over90time + 1 /\ quiet' = 0 /\ waiting' = FALSE
          /\ over90time < MaxBusy
        BY <1>1, <1>3, <2>1 DEF SampleHigh, BusyInv
    <3>2. over90time' \in 0..(MaxBusy + 1)
        BY <1>5, <3>1
    <3>3. call' = NoCall \/ Call("high", u, over90time', "true")
        BY <2>1 DEF SampleHigh
    <3>4. call' = NoCall \/ (call' \in Calls /\ call'.kind = "high")
        BY <1>3, <3>2, <3>3, CallType
    <3>5. over90time' <= MaxBusy /\ quiet' \in 0..MaxQuiet
        BY <1>5, <3>1
    <3>6. waiting' \in BOOLEAN /\ (waiting' => dropAge <= quiet')
        BY <3>1
    <3> QED
        BY <3>2, <3>4, <3>5, <3>6
  <2>2. CASE SampleDrop(u)
    <3>1. over90time' = 0 /\ UNCHANGED <<waiting, quiet>> /\ Call("reset", u, 0, "true")
        BY <2>2 DEF SampleDrop
    <3>2. call' \in Calls /\ call'.kind = "reset"
        BY <1>3, <1>5, <3>1, CallType
    <3> QED
        BY <1>1, <1>5, <3>1, <3>2 DEF WaitingInv, TypeOK
  <2>3. CASE SampleLow(u)
    <3>1. over90time' = 0 /\ UNCHANGED <<waiting, quiet>>
        BY <2>3 DEF SampleLow
    <3>2. PICK due \in Passed(dropAge) :
             IF waiting /\ due THEN Call("clear", u, 0, "false") ELSE call' = NoCall
        BY <2>3 DEF SampleLow
    <3>3. CASE waiting /\ due
      <4>1. dropAge >= HoldSeconds
        <5>1. CASE dropAge = HoldSeconds
            BY <1>5, <5>1
        <5>2. CASE dropAge # HoldSeconds
          <6>1. due = (dropAge > HoldSeconds)
              BY <5>2 DEF Passed
          <6>2. dropAge > HoldSeconds
              BY <3>3, <6>1
          <6> QED
              BY <1>5, <6>2
        <5> QED
            BY <5>1, <5>2
      <4>2. quiet' >= HoldSeconds
          BY <1>1, <1>5, <3>1, <3>3, <4>1 DEF WaitingInv
      <4>3. call' \in Calls
          BY <1>3, <1>5, <3>2, <3>3, CallType
      <4> QED
          BY <1>1, <1>5, <3>1, <4>2, <4>3 DEF WaitingInv, TypeOK
    <3>4. CASE ~(waiting /\ due)
        BY <1>1, <1>5, <3>1, <3>2, <3>4 DEF WaitingInv, TypeOK
    <3> QED
        BY <3>3, <3>4
  <2> QED
      BY <1>2, <2>1, <2>2, <2>3
<1>8. TypeOK'
    BY <1>1, <1>4, <1>7 DEF TypeOK, Calls
<1>9. RepliesInv' /\ WaitingInv' /\ BusyInv'
    BY <1>4, <1>6, <1>7 DEF RepliesInv, WaitingInv, BusyInv
<1>10. FalseIsSentAfterQuiet'
    BY <1>7 DEF FalseIsSentAfterQuiet, NoCall
<1> QED
    BY <1>8, <1>9, <1>10 DEF IInv

\* A sample that was read well.
LEMMA SampleInvariant ==
    ASSUME IInv, Sample
    PROVE  IInv'
<1>1. PICK u \in Samples : SampleHigh(u) \/ SampleDrop(u) \/ SampleLow(u)
    BY DEF Sample
<1>2. /\ TypeOK /\ call = NoCall /\ tick' = FALSE /\ seen' = {}
      /\ UNCHANGED <<load, lastAnnUsage, annAge, dropAge, jobs, node, failures, restarts,
                     highFor>>
    BY DEF IInv, Sample, boundVars
<1>3. u \in Usages /\ (Busy(u) => \E b \in seen : Busy(b)) /\ failures' \in 0..MaxFailures
    BY <1>2, SampleType DEF TypeOK
<1> QED
    BY <1>1, <1>2, <1>3, ReactionInvariant

\* A sample that was misread is low.
LEMMA SampleMisreadInvariant ==
    ASSUME IInv, SampleMisread
    PROVE  IInv'
<1>1. PICK u \in Usages : SampleDrop(u) \/ SampleLow(u)
    BY DEF SampleMisread
<1>2. /\ call = NoCall /\ tick' = FALSE /\ seen' = {} /\ ~Busy(u)
      /\ UNCHANGED <<load, lastAnnUsage, annAge, dropAge, jobs, node, restarts, highFor>>
    BY <1>1 DEF SampleMisread, SampleDrop, SampleLow
<1>3. failures' \in 0..MaxFailures
    BY AgentAssumption DEF SampleMisread, IInv, TypeOK
<1> QED
    BY <1>1, <1>2, <1>3, ReactionInvariant

\* A request reaches its handler: the one live kubectl is that of the call.
LEMMA ServeInvariant ==
    ASSUME IInv, Serve
    PROVE  IInv'
<1>1. TypeOK /\ RepliesInv /\ call # NoCall /\ ~call.served
    BY DEF IInv, Serve
<1>2. call \in Calls
    BY <1>1 DEF TypeOK, Calls
<1>3. /\ call' = [call EXCEPT !.served = TRUE]
      /\ jobs' = jobs \cup {[ann |-> call.ann, live |-> TRUE]}
      /\ UNCHANGED <<load, seen, tick, loopVars, node, boundVars, highFor, quiet>>
    BY DEF Serve
<1>4. /\ call' \in Calls /\ call'.served /\ call'.ann = call.ann /\ call'.kind = call.kind
      /\ call.ann \in Annotations
    BY <1>2, <1>3 DEF Calls
<1>5. call' # NoCall
    BY <1>4 DEF Calls, NoCall
<1>6. TypeOK'
  <2>1. [ann |-> call.ann, live |-> TRUE] \in [ann : Annotations, live : BOOLEAN]
      BY <1>4
  <2>2. jobs' \subseteq [ann : Annotations, live : BOOLEAN]
      BY <1>1, <1>3, <2>1 DEF TypeOK
  <2>3. call' \in {NoCall} \cup [kind : {"high", "reset", "clear"}, waited : 0..CallTimeout,
                                 served : BOOLEAN, ann : Annotations]
      BY <1>4 DEF Calls
  <2> QED
      BY <1>1, <1>3, <2>2, <2>3 DEF TypeOK, loopVars, boundVars
<1>7. RepliesInv'
    BY <1>1, <1>3, <1>4, <1>5 DEF RepliesInv
<1> QED
    BY <1>3, <1>4, <1>6, <1>7
       DEF IInv, WaitingInv, BusyInv, FalseIsSentAfterQuiet, Busy, loopVars

\* The call ends with an error, and with it the kubectl that could answer it.
LEMMA FailureInvariant ==
    ASSUME IInv, CallFails, \A j \in jobs' : ~j.live,
           jobs' \subseteq [ann : Annotations, live : BOOLEAN],
           failures' \in 0..MaxFailures,
           UNCHANGED <<load, seen, tick, node, restarts, highFor, quiet>>
    PROVE  IInv'
<1>1. TypeOK'
    BY DEF IInv, TypeOK, CallFails, loopVars
<1> QED
    BY <1>1 DEF IInv, CallFails, loopVars, RepliesInv, WaitingInv, BusyInv,
                FalseIsSentAfterQuiet, NoCall, Busy

\* A kubectl whose caller has given up changes nothing that the loop sees.
LEMMA LateInvariant ==
    ASSUME IInv, NEW j \in jobs, jobs' = jobs \ {j},
           node' \in Annotations \cup {NoAnnotations}, failures' \in 0..MaxFailures,
           UNCHANGED <<call, loopVars, load, seen, tick, restarts, highFor, quiet>>
    PROVE  IInv'
<1>1. TypeOK'
    BY DEF IInv, TypeOK, loopVars
<1> QED
    BY <1>1 DEF IInv, loopVars, RepliesInv, WaitingInv, BusyInv, FalseIsSentAfterQuiet, Busy

\* kubectl has set the annotations.
LEMMA DoneInvariant ==
    ASSUME IInv, NEW j \in jobs, KubectlDone(j)
    PROVE  IInv'
<1>1. /\ TypeOK /\ RepliesInv /\ j.ann \in Annotations
      /\ node' = j.ann /\ jobs' = jobs \ {j}
      /\ UNCHANGED <<load, seen, tick, boundVars, highFor, quiet>>
    BY DEF IInv, KubectlDone, TypeOK
<1>2. CASE j.live
  <2>1. CallSucceeds /\ call # NoCall /\ call \in Calls
      BY <1>1, <1>2 DEF KubectlDone, RepliesInv, TypeOK, Calls
  <2>2. call.ann.usage \in Usages
      BY <2>1 DEF Calls, Annotations
  <2>3. \A i \in jobs' : ~i.live
    <3> SUFFICES ASSUME NEW i \in jobs, i # j, i.live PROVE FALSE
        BY <1>1
    <3>1. i.ann = j.ann
        BY <1>1, <1>2 DEF RepliesInv
    <3> QED
        BY <1>1, <1>2, <3>1 DEF TypeOK
  <2>4. /\ lastAnnUsage' \in Usages /\ annAge' = 0 /\ call' = NoCall
        /\ dropAge' \in {0, dropAge} /\ waiting' \in BOOLEAN
        /\ waiting' => dropAge' = 0 \/ (waiting /\ dropAge' = dropAge)
        /\ over90time' = over90time
      BY <1>1, <2>1, <2>2 DEF CallSucceeds, TypeOK, Calls
  <2>5. 0 \in 0..MaxAge
      BY AgentAssumption DEF MaxAge
  <2>6. TypeOK'
      BY <1>1, <2>4, <2>5 DEF TypeOK, boundVars
  <2>7. WaitingInv'
      BY <1>1, <2>4 DEF IInv, WaitingInv, TypeOK
  <2> QED
      BY <1>1, <2>3, <2>4, <2>6, <2>7
         DEF IInv, RepliesInv, BusyInv, Busy, FalseIsSentAfterQuiet, NoCall
<1>3. CASE ~j.live
    BY <1>1, <1>3, LateInvariant DEF KubectlDone, boundVars, TypeOK
<1> QED
    BY <1>2, <1>3

\* kubectl has failed.
LEMMA FailedInvariant ==
    ASSUME IInv, NEW j \in jobs, KubectlFails(j)
    PROVE  IInv'
<1>1. /\ TypeOK /\ RepliesInv
      /\ jobs' = jobs \ {j} /\ failures' = failures + 1 /\ failures < MaxFailures
      /\ UNCHANGED <<load, seen, tick, node, restarts, highFor, quiet>>
    BY DEF IInv, KubectlFails
<1>2. failures' \in 0..MaxFailures
    BY <1>1, AgentAssumption DEF TypeOK
<1>3. CASE j.live
  <2>1. CallFails
      BY <1>3 DEF KubectlFails
  <2>2. \A i \in jobs' : ~i.live
    <3> SUFFICES ASSUME NEW i \in jobs, i # j, i.live PROVE FALSE
        BY <1>1
    <3>1. i.ann = j.ann
        BY <1>1, <1>3 DEF RepliesInv
    <3> QED
        BY <1>1, <1>3, <3>1 DEF TypeOK
  <2>3. jobs' \subseteq [ann : Annotations, live : BOOLEAN]
      BY <1>1 DEF TypeOK
  <2> QED
      BY <1>1, <1>2, <2>1, <2>2, <2>3, FailureInvariant
<1>4. CASE ~j.live
    BY <1>1, <1>2, <1>4, LateInvariant DEF KubectlFails, TypeOK
<1> QED
    BY <1>3, <1>4

\* The loop gives a call up.
LEMMA TimeoutInvariant ==
    ASSUME IInv, Timeout
    PROVE  IInv'
<1>1. /\ TypeOK /\ CallFails /\ call \in Calls
      /\ UNCHANGED <<load, seen, tick, node, failures, restarts, highFor, quiet>>
    BY DEF IInv, Timeout, TypeOK, Calls, boundVars
<1>2. PICK late \in {{}, IF call.served THEN {} ELSE {[ann |-> call.ann, live |-> FALSE]}} :
         jobs' = {[j EXCEPT !.live = FALSE] : j \in jobs} \cup late
    BY DEF Timeout
<1>3. late \subseteq {[ann |-> call.ann, live |-> FALSE]} /\ call.ann \in Annotations
    BY <1>1, <1>2 DEF Calls
<1>4. \A i \in jobs' : i \in [ann : Annotations, live : BOOLEAN] /\ ~i.live
  <2>1. \A i \in late : i \in [ann : Annotations, live : BOOLEAN] /\ ~i.live
    <3> DEFINE unserved == [ann |-> call.ann, live |-> FALSE]
    <3>1. unserved \in [ann : Annotations, live : BOOLEAN] /\ ~unserved.live
        BY <1>3
    <3> HIDE DEF unserved
    <3>2. \A i \in late : i = unserved
        BY <1>3 DEF unserved
    <3> QED
        BY <3>1, <3>2
  <2>2. \A j \in jobs : /\ [j EXCEPT !.live = FALSE] \in [ann : Annotations, live : BOOLEAN]
                        /\ ~[j EXCEPT !.live = FALSE].live
      BY <1>1 DEF TypeOK
  <2> QED
      BY <1>2, <2>1, <2>2
<1>5. failures' \in 0..MaxFailures
    BY <1>1 DEF TypeOK
<1> QED
    BY <1>1, <1>4, <1>5, FailureInvariant

\* The connection is refused: no kubectl was started for the call.
LEMMA UnreachableInvariant ==
    ASSUME IInv, Unreachable
    PROVE  IInv'
<1>1. /\ TypeOK /\ CallFails /\ failures' = failures + 1 /\ failures < MaxFailures
      /\ UNCHANGED <<load, seen, tick, jobs, node, restarts, highFor, quiet>>
      /\ \A j \in jobs' : ~j.live
    BY DEF IInv, Unreachable, RepliesInv
<1>2. failures' \in 0..MaxFailures /\ jobs' \subseteq [ann : Annotations, live : BOOLEAN]
    BY <1>1, AgentAssumption DEF TypeOK
<1> QED
    BY <1>1, <1>2, FailureInvariant

\* A second passes: all ages grow alike, and a busy second is within the bound.
LEMMA SecondInvariant ==
    ASSUME IInv, Second
    PROVE  IInv'
<1>1. /\ TypeOK /\ RepliesInv /\ WaitingInv /\ BusyInv /\ FalseIsSentAfterQuiet
      /\ load' \in Usages /\ (Busy(load') => highFor < MaxBusy /\ over90time < MaxBusy)
      /\ seen' = seen \cup {load'} /\ tick' = TRUE
      /\ annAge' = Older(annAge) /\ dropAge' = Older(dropAge) /\ quiet' = Quieter(quiet)
      /\ highFor' = IF Busy(load') THEN highFor + 1 ELSE 0
      /\ UNCHANGED <<over90time, lastAnnUsage, waiting, jobs, node, boundVars>>
    BY DEF IInv, Second, Quieter
<1>2. /\ annAge \in 0..MaxAge /\ dropAge \in 0..MaxAge /\ quiet \in 0..MaxQuiet
      /\ HoldSeconds \in Nat \ {0}
    BY <1>1, AgentAssumption DEF TypeOK
<1>3. /\ annAge' \in 0..MaxAge /\ dropAge' \in 0..MaxAge /\ quiet' \in 0..MaxQuiet
      /\ dropAge <= quiet => dropAge' <= quiet'
      /\ quiet <= quiet'
    BY <1>1, <1>2, OlderAges
<1>4. highFor' \in 0..MaxBusy
    BY <1>1, AgentAssumption DEF TypeOK
<1>5. \/ call' = NoCall /\ call = NoCall
      \/ /\ call # NoCall /\ call \in Calls /\ call' \in Calls /\ call' # NoCall
         /\ call'.kind = call.kind /\ call'.served = call.served /\ call'.ann = call.ann
  <2>1. CASE call = NoCall
      BY <2>1 DEF Second
  <2>2. CASE call # NoCall
    <3>1. /\ call' = [call EXCEPT !.waited = @ + 1] /\ call.waited < SlowestCall
          /\ call \in Calls
        BY <1>1, <2>2 DEF Second, TypeOK, Calls
    <3>2. call.waited + 1 \in 0..CallTimeout
        BY <3>1, AgentAssumption DEF Calls
    <3>3. /\ call' \in Calls
          /\ call'.kind = call.kind /\ call'.served = call.served /\ call'.ann = call.ann
        BY <3>1, <3>2 DEF Calls
    <3> QED
        BY <2>2, <3>1, <3>3 DEF Calls, NoCall
  <2> QED
      BY <2>1, <2>2
<1>6. TypeOK'
  <2>1. seen' \subseteq Usages
      BY <1>1 DEF TypeOK
  <2>2. call' \in {NoCall} \cup [kind : {"high", "reset", "clear"}, waited : 0..CallTimeout,
                                 served : BOOLEAN, ann : Annotations]
      BY <1>5 DEF Calls
  <2> QED
      BY <1>1, <1>3, <1>4, <2>1, <2>2 DEF TypeOK, boundVars
<1>7. RepliesInv'
    BY <1>1, <1>5 DEF RepliesInv
<1>8. WaitingInv' /\ BusyInv'
    BY <1>1, <1>3 DEF WaitingInv, BusyInv, Busy
<1>9. FalseIsSentAfterQuiet'
  <2>1. call'.kind = "clear" => call.kind = "clear"
      BY <1>5
  <2> QED
      BY <1>1, <1>2, <1>3, <2>1 DEF FalseIsSentAfterQuiet
<1> QED
    BY <1>6, <1>7, <1>8, <1>9 DEF IInv

\* The agent is restarted.
LEMMA RestartInvariant ==
    ASSUME IInv, Restart
    PROVE  IInv'
<1>1. /\ 0 \in 0..(MaxBusy + 1) /\ 0 <= MaxBusy /\ MaxAge \in 0..MaxAge
    BY AgentAssumption DEF MaxAge
<1>2. restarts' \in 0..MaxRestarts
    BY AgentAssumption DEF Restart, IInv, TypeOK
<1>3. TypeOK'
    BY <1>1, <1>2 DEF IInv, Restart, TypeOK
<1> QED
    BY <1>1, <1>3 DEF IInv, Restart, RepliesInv, WaitingInv, BusyInv,
                      FalseIsSentAfterQuiet, NoCall

\* /proc/stat could not be read.
LEMMA SampleErrorInvariant ==
    ASSUME IInv, SampleError
    PROVE  IInv'
<1>1. failures' \in 0..MaxFailures
    BY AgentAssumption DEF SampleError, IInv, TypeOK
<1>2. TypeOK'
    BY <1>1 DEF IInv, SampleError, TypeOK, loopVars
<1> QED
    BY <1>2 DEF IInv, SampleError, loopVars, RepliesInv, WaitingInv, BusyInv, Busy,
                FalseIsSentAfterQuiet

\* The invariant holds of every behaviour, with any usages, delays, failures and
\* restarts.
THEOREM AgentInvariance == Spec => []IInv
<1>1. Init => IInv
    BY InitInvariant
<1>2. IInv /\ [Next]_vars => IInv'
  <2> SUFFICES ASSUME IInv, [Next]_vars PROVE IInv'
      OBVIOUS
  <2>1. CASE Second \/ Sample \/ SampleError \/ SampleMisread \/ Restart
      BY <2>1, SecondInvariant, SampleInvariant, SampleErrorInvariant, SampleMisreadInvariant,
         RestartInvariant
  <2>2. CASE Serve \/ Unreachable \/ Timeout
      BY <2>2, ServeInvariant, UnreachableInvariant, TimeoutInvariant
  <2>3. CASE Finish
      BY <2>3, DoneInvariant, FailedInvariant DEF Finish
  <2>4. CASE UNCHANGED vars
      BY <2>4 DEF vars, loopVars, boundVars, IInv, TypeOK, RepliesInv, WaitingInv,
                  BusyInv, Busy, FalseIsSentAfterQuiet
  <2> QED
      BY <2>1, <2>2, <2>3, <2>4 DEF Next
<1> QED
    BY <1>1, <1>2, PTL DEF Spec

\* Every reachable state is well-formed; in particular a busy period of bounded
\* length is never counted beyond its bound.
THEOREM AgentTypeCorrect == Spec => []TypeOK
<1>1. IInv => TypeOK
    BY DEF IInv
<1> QED
    BY <1>1, AgentInvariance, PTL

\* isCpuBusy = "false" is never sent less than HoldSeconds after a sample above the
\* threshold, whether or not that sample could be published.
THEOREM FalseComesLate == Spec => []FalseIsSentAfterQuiet
<1>1. IInv => FalseIsSentAfterQuiet
    BY DEF IInv
<1> QED
    BY <1>1, AgentInvariance, PTL

--------------------------------------------------------------------------------
(***************************************************************************)
(* How the loop loses sight of a busy node.                                *)
(***************************************************************************)

\* What each kind of call publishes.
KindInv ==
    /\ call.kind = "high" => Busy(call.ann.usage)
    /\ call.kind = "clear" => call.ann.busy = "false"

LEMMA KindInvariance == Spec => []KindInv
<1>1. Init => KindInv
    BY DEF Init, KindInv, NoCall
<1>2. KindInv /\ [Next]_vars => KindInv'
  <2> SUFFICES ASSUME KindInv, [Next]_vars PROVE KindInv'
      OBVIOUS
  <2> USE DEF KindInv, Busy
  <2>1. CASE Sample
      BY <2>1 DEF Sample, SampleHigh, SampleDrop, SampleLow, Call, NoCall
  <2>2. CASE SampleMisread
      BY <2>2 DEF SampleMisread, SampleDrop, SampleLow, Call, NoCall
  <2>3. CASE Serve
      BY <2>3 DEF Serve
  <2>4. CASE Second
      BY <2>4 DEF Second, NoCall
  <2>5. CASE Unreachable \/ Timeout \/ Restart \/ SampleError
      BY <2>5 DEF Unreachable, Timeout, Restart, SampleError, CallFails, NoCall
  <2>6. CASE Finish
    <3>1. call' = NoCall \/ call' = call
        BY <2>6 DEF Finish, KubectlDone, KubectlFails, CallSucceeds, CallFails
    <3> QED
        BY <3>1 DEF NoCall
  <2>7. CASE UNCHANGED vars
      BY <2>7 DEF vars
  <2> QED
      BY <2>1, <2>2, <2>3, <2>4, <2>5, <2>6, <2>7 DEF Next
<1> QED
    BY <1>1, <1>2, PTL DEF Spec

\* The loop's own samples: one that cancels the wait is either published or already known.
LEMMA ReactionRemembers ==
    ASSUME NEW u, SampleHigh(u) \/ SampleDrop(u) \/ SampleLow(u),
           ~Forgotten, call = NoCall, UNCHANGED <<lastAnnUsage, node>>
    PROVE  ~Forgotten'
<1> USE DEF Forgotten, Busy
<1>1. CASE SampleHigh(u)
  <2>1. Busy(u) /\ (u = lastAnnUsage \/ call'.kind = "high")
      BY <1>1 DEF SampleHigh, Call
  <2> QED
      BY <2>1 DEF NoCall
<1>2. CASE SampleDrop(u)
    BY <1>2 DEF SampleDrop, Call, NoCall
<1>3. CASE SampleLow(u)
    BY <1>3 DEF SampleLow
<1> QED
    BY <1>1, <1>2, <1>3

\* A call that succeeds leaves the loop with what the node now says.
LEMMA SuccessRemembers ==
    ASSUME RepliesInv, KindInv, TypeOK, NEW j \in jobs, j.live, KubectlDone(j)
    PROVE  ~Forgotten'
<1>1. /\ call \in Calls /\ CallSucceeds /\ node' = call.ann
    BY DEF KubectlDone, RepliesInv, TypeOK, Calls
<1>2. call.kind \in {"high", "reset", "clear"}
    BY <1>1 DEF Calls
<1>3. CASE call.kind = "high"
    BY <1>1, <1>3 DEF CallSucceeds, KindInv, Forgotten, Busy
<1>4. CASE call.kind = "reset"
    BY <1>1, <1>4 DEF CallSucceeds, Forgotten
<1>5. CASE call.kind = "clear"
    BY <1>1, <1>5 DEF KindInv, Forgotten
<1> QED
    BY <1>2, <1>3, <1>4, <1>5

\* The loop loses sight of a node that says busy only by a restart, by a call that fails or is
\* given up, or by a late one.
THEOREM OnlyMishapsForget == Spec => ForgottenByMishapOnly
<1>1. IInv /\ KindInv /\ [Next]_vars => [~Forgotten /\ Forgotten' => Mishap]_vars
  <2> SUFFICES ASSUME IInv, KindInv, Next, ~Forgotten, ~Mishap
               PROVE  ~Forgotten'
      OBVIOUS
  <2>1. CASE Sample
      BY <2>1, ReactionRemembers DEF Sample
  <2>2. CASE SampleMisread
      BY <2>2, ReactionRemembers DEF SampleMisread
  <2>3. CASE Finish
      BY <2>3, SuccessRemembers DEF Finish, Mishap, IInv
  <2>4. CASE Serve
    <3>1. call \in Calls /\ call' = [call EXCEPT !.served = TRUE]
        BY <2>4 DEF Serve, IInv, TypeOK, Calls
    <3>2. call'.kind \in {"high", "reset", "clear"}
        BY <3>1 DEF Calls
    <3> QED
        BY <3>2 DEF NoCall, Forgotten
  <2>5. CASE Second
    <3>1. UNCHANGED <<lastAnnUsage, waiting, node>>
        BY <2>5 DEF Second
    <3>2. CASE call = NoCall
        BY <3>1, <3>2 DEF Forgotten, Busy
    <3>3. CASE call # NoCall
      <4>1. call \in Calls /\ call' = [call EXCEPT !.waited = @ + 1]
          BY <2>5, <3>3 DEF Second, IInv, TypeOK, Calls
      <4>2. call'.kind \in {"high", "reset", "clear"}
          BY <4>1 DEF Calls
      <4> QED
          BY <4>2 DEF NoCall, Forgotten
    <3> QED
        BY <3>2, <3>3
  <2>6. CASE SampleError
      BY <2>6 DEF SampleError, loopVars, Forgotten, Busy
  <2> QED
      BY <2>1, <2>2, <2>3, <2>4, <2>5, <2>6 DEF Next, Mishap
<1> QED
    BY <1>1, AgentInvariance, KindInvariance, PTL DEF Spec, ForgottenByMishapOnly

--------------------------------------------------------------------------------
(***************************************************************************)
(* Freshness, when every reply comes in time and nothing fails.            *)
(***************************************************************************)

\* How many samples may have been taken since the last publication, beyond its age in
\* seconds: one, if a tick came while its call was under way.
Early == IF SlowestCall > 0 THEN 1 ELSE 0

\* Every kubectl has a caller that waits, and the caller's tick came while it waits.
PromptInv ==
    /\ \A j \in jobs : j.live
    /\ call # NoCall => call.waited <= SlowestCall /\ (tick => 0 < call.waited)

\* What a call publishes is what the loop is at.
CallInv ==
    call # NoCall =>
        /\ Busy(call.ann.usage) <=> over90time > 0
        /\ over90time > 0 => call.ann.busy = "true" /\ call.ann.duration = over90time

\* Between calls: the loop knows whether the node says that it is busy, and what it shows
\* is no older than the loop allows.
NodeInv ==
    call = NoCall =>
        /\ Busy(lastAnnUsage) <=> over90time > 0
        /\ over90time > 0 =>
              /\ node.busy = "true" /\ node.usage = lastAnnUsage
              /\ node.duration \in Nat
              /\ tick => over90time - node.duration <= annAge + Early - 1
              /\ ~tick => /\ over90time - node.duration <= annAge + Early
                          /\ annAge <= HoldSeconds

FreshInv == failures = 0 => PromptInv /\ CallInv /\ NodeInv

\* The types that the comparisons of ages and durations need.
LEMMA FreshTypes ==
    ASSUME IInv
    PROVE  /\ over90time \in Nat /\ annAge \in Nat /\ annAge <= MaxAge
           /\ HoldSeconds \in Nat \ {0} /\ MaxAge = HoldSeconds + 1
           /\ SlowestCall \in Nat /\ Early \in {0, 1} /\ failures \in Nat
           /\ tick \in BOOLEAN /\ Threshold \in 0..100
           /\ call # NoCall => call \in Calls
BY AgentAssumption DEF IInv, TypeOK, MaxAge, Early, Calls

\* The agent starts with nothing published.
LEMMA FreshInit == Init => FreshInv
<1> SUFFICES ASSUME Init PROVE FreshInv
    OBVIOUS
<1>1. ~Busy(lastAnnUsage) /\ over90time = 0
    BY AgentAssumption DEF Init, Busy
<1> QED
    BY <1>1 DEF Init, FreshInv, PromptInv, CallInv, NodeInv

\* A sample: a call that says what the loop is at, or none because what the node says is
\* recent enough.
LEMMA FreshSample ==
    ASSUME IInv, FreshInv, Sample
    PROVE  FreshInv'
<1> SUFFICES ASSUME failures' = 0 PROVE (PromptInv /\ CallInv /\ NodeInv)'
    BY DEF FreshInv
<1>1. /\ call = NoCall /\ tick /\ tick' = FALSE
      /\ UNCHANGED <<lastAnnUsage, annAge, jobs, node, failures>>
    BY DEF Sample, boundVars
<1>2. PromptInv /\ NodeInv
    BY <1>1 DEF FreshInv
<1>3. PICK u \in Samples : SampleHigh(u) \/ SampleDrop(u) \/ SampleLow(u)
    BY DEF Sample
<1>4. u \in Usages
    BY <1>3, SampleType DEF IInv
<1>5. over90time' \in Nat /\ (Busy(u) => over90time' = over90time + 1)
                        /\ (~Busy(u) => over90time' = 0)
    BY <1>3, FreshTypes DEF SampleHigh, SampleDrop, SampleLow
<1>6. CASE call' # NoCall
  <2>1. PICK kind \in {"high", "reset", "clear"}, busy \in {"true", "false"} :
           /\ Call(kind, u, over90time', busy)
           /\ Busy(u) => busy = "true"
    <3>1. CASE SampleHigh(u)
        BY <1>6, <3>1 DEF SampleHigh
    <3>2. CASE SampleDrop(u)
      <4>1. Call("reset", u, over90time', "true")
          BY <3>2 DEF SampleDrop
      <4> QED
          BY <4>1
    <3>3. CASE SampleLow(u)
      <4>1. Call("clear", u, over90time', "false") /\ ~Busy(u)
          BY <1>6, <3>3 DEF SampleLow
      <4> QED
          BY <4>1
    <3> QED
        BY <1>3, <3>1, <3>2, <3>3
  <2>2. /\ call'.waited = 0 /\ call'.ann.usage = u /\ call'.ann.busy = busy
        /\ call'.ann.duration = over90time'
      BY <2>1 DEF Call
  <2> QED
      BY <1>1, <1>2, <1>5, <1>6, <2>1, <2>2, FreshTypes
         DEF PromptInv, CallInv, NodeInv, Busy
<1>7. CASE call' = NoCall
  <2>1. PromptInv' /\ CallInv'
      BY <1>1, <1>2, <1>7 DEF PromptInv, CallInv
  <2>2. CASE Busy(u)
    <3>1. SampleHigh(u)
        BY <1>3, <2>2 DEF SampleDrop, SampleLow
    <3>2. PICK due \in Passed(annAge) :
             IF u # lastAnnUsage \/ due THEN Call("high", u, over90time', "true")
                                       ELSE call' = NoCall
        BY <3>1 DEF SampleHigh
    <3>3. ~Call("high", u, over90time', "true")
        BY <1>7 DEF Call, NoCall
    <3>4. u = lastAnnUsage /\ ~due
        BY <3>2, <3>3
    <3>5. annAge <= HoldSeconds
      <4>1. CASE annAge = HoldSeconds
          BY <4>1, FreshTypes
      <4>2. CASE annAge # HoldSeconds
        <5>1. due = (annAge > HoldSeconds)
            BY <4>2 DEF Passed
        <5>2. ~(annAge > HoldSeconds)
            BY <3>4, <5>1
        <5> QED
            BY <5>2, FreshTypes
      <4> QED
          BY <4>1, <4>2
    <3>6. over90time > 0 /\ node.busy = "true" /\ node.usage = lastAnnUsage
          /\ node.duration \in Nat /\ over90time - node.duration <= annAge + Early - 1
        BY <1>1, <1>2, <2>2, <3>4 DEF NodeInv
    <3>7. over90time' > 0 /\ over90time' - node.duration <= annAge + Early
        BY <1>5, <2>2, <3>6, FreshTypes
    <3> QED
        BY <1>1, <2>1, <2>2, <3>4, <3>5, <3>6, <3>7 DEF NodeInv, Busy
  <2>3. CASE ~Busy(u)
    <3>1. ~Busy(lastAnnUsage)
      <4>1. ~SampleHigh(u)
          BY <2>3 DEF SampleHigh
      <4>2. ~SampleDrop(u)
          BY <1>7 DEF SampleDrop, Call, NoCall
      <4> QED
          BY <1>3, <4>1, <4>2 DEF SampleLow
    <3> QED
        BY <1>1, <1>5, <2>1, <2>3, <3>1 DEF NodeInv, Busy
  <2> QED
      BY <2>2, <2>3
<1> QED
    BY <1>6, <1>7

\* A second: what the node says is a second older, and a tick comes.
LEMMA FreshSecond ==
    ASSUME IInv, FreshInv, Second
    PROVE  FreshInv'
<1> SUFFICES ASSUME failures' = 0 PROVE (PromptInv /\ CallInv /\ NodeInv)'
    BY DEF FreshInv
<1>1. /\ tick' = TRUE /\ annAge' = Older(annAge)
      /\ UNCHANGED <<over90time, lastAnnUsage, jobs, node, failures>>
      /\ call = NoCall => ~tick /\ call' = NoCall
      /\ call # NoCall => /\ call' = [call EXCEPT !.waited = @ + 1]
                          /\ call.waited < SlowestCall
    BY DEF Second, boundVars
<1>2. PromptInv /\ CallInv /\ NodeInv
    BY <1>1 DEF FreshInv
<1>3. CASE call = NoCall
  <2>1. over90time > 0 => annAge' = annAge + 1
      BY <1>1, <1>2, <1>3, FreshTypes DEF NodeInv, Older
  <2>2. NodeInv'
      BY <1>1, <1>2, <1>3, <2>1, FreshTypes DEF NodeInv, Busy
  <2> QED
      BY <1>1, <1>2, <1>3, <2>2 DEF PromptInv, CallInv
<1>4. CASE call # NoCall
  <2>1. call \in Calls /\ call.waited \in Nat
      BY <1>4, FreshTypes DEF Calls
  <2>2. call'.waited = call.waited + 1 /\ call'.ann = call.ann /\ call' # NoCall
      BY <1>1, <1>4, <2>1 DEF Calls, NoCall
  <2> QED
      BY <1>1, <1>2, <1>4, <2>1, <2>2, FreshTypes DEF PromptInv, CallInv, NodeInv, Busy
<1> QED
    BY <1>3, <1>4

\* kubectl has set the annotations, and its caller still waits: the node says what the
\* loop is at.
LEMMA FreshDone ==
    ASSUME IInv, FreshInv, NEW j \in jobs, KubectlDone(j)
    PROVE  FreshInv'
<1> SUFFICES ASSUME failures' = 0 PROVE (PromptInv /\ CallInv /\ NodeInv)'
    BY DEF FreshInv
<1>1. /\ node' = j.ann /\ jobs' = jobs \ {j} /\ UNCHANGED <<tick, failures>>
    BY DEF KubectlDone, boundVars
<1>2. PromptInv /\ CallInv /\ j.live /\ call # NoCall /\ call \in Calls /\ j.ann = call.ann
    BY <1>1, FreshTypes DEF FreshInv, PromptInv, IInv, RepliesInv
<1>3. /\ lastAnnUsage' = call.ann.usage /\ annAge' = 0 /\ call' = NoCall
      /\ UNCHANGED over90time
    BY <1>2 DEF KubectlDone, CallSucceeds
<1>4. tick => Early = 1
    BY <1>2, FreshTypes DEF PromptInv, Early, Calls
<1> QED
    BY <1>1, <1>2, <1>3, <1>4, FreshTypes DEF PromptInv, CallInv, NodeInv, Busy

\* While no call fails and replies come before the timeout, this is an invariant.
LEMMA FreshInvariance ==
    ASSUME SlowestCall < CallTimeout
    PROVE  Spec => []FreshInv
<1>1. Init => FreshInv
    BY FreshInit
<1>2. IInv /\ FreshInv /\ [Next]_vars => FreshInv'
  <2> SUFFICES ASSUME IInv, FreshInv, [Next]_vars PROVE FreshInv'
      OBVIOUS
  <2>1. CASE Sample
      BY <2>1, FreshSample
  <2>2. CASE Second
      BY <2>2, FreshSecond
  <2>3. CASE Serve
    <3>1. /\ call # NoCall /\ call' = [call EXCEPT !.served = TRUE]
          /\ jobs' = jobs \cup {[ann |-> call.ann, live |-> TRUE]}
          /\ UNCHANGED <<tick, loopVars, node, failures>>
        BY <2>3 DEF Serve, boundVars
    <3>2. /\ call' # NoCall /\ call'.waited = call.waited /\ call'.ann = call.ann
        BY <3>1, FreshTypes DEF Calls, NoCall
    <3> QED
        BY <3>1, <3>2 DEF FreshInv, PromptInv, CallInv, NodeInv, loopVars, Busy
  <2>4. CASE Finish
    <3>1. PICK j \in jobs : KubectlDone(j) \/ KubectlFails(j)
        BY <2>4 DEF Finish
    <3>2. CASE KubectlDone(j)
        BY <3>2, FreshDone
    <3>3. CASE KubectlFails(j)
        BY <3>3, FreshTypes DEF KubectlFails, FreshInv
    <3> QED
        BY <3>1, <3>2, <3>3
  <2>5. CASE Timeout
    <3>1. failures = 0 => call.waited <= SlowestCall /\ call.waited = CallTimeout
        BY <2>5 DEF Timeout, FreshInv, PromptInv
    <3>2. failures # 0
        BY <3>1, AgentAssumption
    <3> QED
        BY <2>5, <3>2 DEF Timeout, FreshInv, boundVars
  <2>6. CASE SampleError \/ SampleMisread \/ Unreachable
      BY <2>6, FreshTypes DEF SampleError, SampleMisread, Unreachable, FreshInv
  <2>7. CASE Restart
    <3>1. ~Busy(lastAnnUsage') /\ over90time' = 0
        BY <2>7, AgentAssumption DEF Restart, Busy
    <3> QED
        BY <2>7, <3>1 DEF Restart, FreshInv, PromptInv, CallInv, NodeInv, Busy
  <2>8. CASE UNCHANGED vars
      BY <2>8 DEF vars, loopVars, boundVars, FreshInv, PromptInv, CallInv, NodeInv, Busy
  <2> QED
      BY <2>1, <2>2, <2>3, <2>4, <2>5, <2>6, <2>7, <2>8 DEF Next
<1> QED
    BY <1>1, <1>2, AgentInvariance, PTL DEF Spec

\* While no call fails and replies come before the timeout: whenever the loop waits for a
\* tick in a busy period, the node says that it is busy, and since when, with a bounded lag.
THEOREM NodeIsFresh ==
    ASSUME SlowestCall < CallTimeout
    PROVE  Spec => []FreshWhileBusy
<1>1. IInv /\ FreshInv => FreshWhileBusy
  <2> SUFFICES ASSUME IInv, FreshInv, call = NoCall, over90time > 0, failures = 0
               PROVE  /\ node.busy = "true" /\ Busy(node.usage)
                      /\ over90time - node.duration <= HoldSeconds + SlowestCall
      BY DEF FreshWhileBusy
  <2>1. NodeInv /\ Early <= SlowestCall
      BY FreshTypes DEF FreshInv, Early
  <2>2. node.busy = "true" /\ Busy(node.usage)
      BY <2>1 DEF NodeInv
  <2>3. node.duration \in Nat /\ over90time - node.duration <= HoldSeconds + Early
      BY <2>1, FreshTypes DEF NodeInv
  <2> QED
      BY <2>1, <2>2, <2>3, FreshTypes
<1> QED
    BY <1>1, AgentInvariance, FreshInvariance, PTL

--------------------------------------------------------------------------------
(***************************************************************************)
(* The end of a busy signal, when every reply comes in time and nothing    *)
(* fails: where in the order high, drop, wait and "false" the loop is      *)
(* bounds the seconds since the last busy sample.                          *)
(***************************************************************************)

\* The seconds from a busy sample to the next sample: its call, or a second without one.
NextSample == IF SlowestCall > 0 THEN SlowestCall ELSE 1

\* During a call: how long ago the last busy sample was when the call began, and what it says.
CallTimes ==
    call # NoCall =>
        /\ ~tick => call.waited = 0
        /\ Busy(call.ann.usage) <=> call.kind = "high"
        /\ call.kind \in {"high", "reset"} => ~waiting /\ call.ann.busy = "true"
        /\ call.kind = "high" => quiet <= call.waited
        /\ call.kind = "reset" => /\ 0 < quiet /\ quiet <= NextSample + call.waited
                                  /\ Busy(lastAnnUsage) /\ node.busy = "true"
        /\ call.kind = "clear" => /\ quiet <= BusyEnd + call.waited
                                  /\ waiting /\ call.ann.busy = "false"

\* Between calls: if the node says that it is busy, the loop knows, as it has published a busy
\* usage or waits for "false"; and either leads on to the next call in time.
LoopTimes ==
    /\ waiting => ~Busy(lastAnnUsage)
    /\ tick => 0 < quiet
    /\ call = NoCall =>
          /\ node.busy = "true" => Busy(lastAnnUsage) \/ waiting
          /\ Busy(lastAnnUsage) => /\ node.busy = "true"
                                   /\ quiet <= NextSample /\ (~tick => quiet = 0)
          /\ waiting => /\ quiet <= NextSample + SlowestCall + dropAge
                        /\ ~tick => dropAge <= HoldSeconds

ClearInv == failures = 0 /\ restarts = 0 => CallTimes /\ LoopTimes

\* The types that the comparisons need.
LEMMA ClearTypes ==
    ASSUME IInv
    PROVE  /\ quiet \in Nat /\ dropAge \in Nat /\ waiting \in BOOLEAN
           /\ quiet <= MaxQuiet /\ MaxQuiet \in Nat /\ 0 < MaxQuiet
           /\ NextSample \in Nat /\ 1 <= NextSample /\ SlowestCall <= NextSample
           /\ SlowestCall \in Nat /\ HoldSeconds \in Nat \ {0}
           /\ BusyEnd = NextSample + SlowestCall + HoldSeconds + 1
           /\ dropAge <= HoldSeconds + 1
           /\ failures \in Nat /\ restarts \in Nat
           /\ call # NoCall => call \in Calls /\ call.waited \in Nat
BY AgentAssumption DEF IInv, TypeOK, MaxAge, NextSample, BusyEnd, Calls

LEMMA ClearInit == Init => ClearInv
<1> SUFFICES ASSUME Init PROVE ClearInv
    OBVIOUS
<1>1. ~Busy(lastAnnUsage) /\ node.busy # "true"
    BY AgentAssumption DEF Init, Busy, NoAnnotations
<1> QED
    BY <1>1 DEF Init, ClearInv, CallTimes, LoopTimes

\* A sample starts the next call, or leaves it to a later one that still comes in time.
LEMMA ClearSample ==
    ASSUME IInv, ClearInv, Sample
    PROVE  ClearInv'
<1> SUFFICES ASSUME failures' = 0, restarts' = 0 PROVE (CallTimes /\ LoopTimes)'
    BY DEF ClearInv
<1>1. /\ call = NoCall /\ tick /\ tick' = FALSE
      /\ UNCHANGED <<lastAnnUsage, dropAge, node, failures, restarts>>
    BY DEF Sample, boundVars
<1>2. LoopTimes
    BY <1>1 DEF ClearInv
<1>3. PICK u \in Samples : SampleHigh(u) \/ SampleDrop(u) \/ SampleLow(u)
    BY DEF Sample
<1>4. ASSUME NEW kind, NEW duration, NEW busy, Call(kind, u, duration, busy)
      PROVE  /\ call' # NoCall /\ call'.kind = kind /\ call'.waited = 0
             /\ call'.ann.usage = u /\ call'.ann.busy = busy
  <2>1. call' = [kind |-> kind, waited |-> 0, served |-> FALSE,
                 ann |-> [usage |-> u, duration |-> duration, busy |-> busy]]
      BY <1>4 DEF Call
  <2>2. call'.waited = 0 /\ call'.kind = kind
      BY <2>1
  <2>3. call' # NoCall
      BY <2>1 DEF NoCall
  <2> QED
      BY <2>1, <2>2, <2>3
<1>5. CASE SampleHigh(u)
  <2>1. Busy(u) /\ quiet' = 0 /\ waiting' = FALSE
      BY <1>5 DEF SampleHigh
  <2>2. \/ Call("high", u, over90time', "true")
        \/ call' = NoCall /\ u = lastAnnUsage
      BY <1>5 DEF SampleHigh
  <2>3. CASE Call("high", u, over90time', "true")
    <3>1. /\ call' # NoCall /\ call'.kind = "high" /\ call'.waited = 0
          /\ call'.ann.usage = u /\ call'.ann.busy = "true"
        BY <1>4, <2>3
    <3> QED
        BY <1>1, <2>1, <3>1, ClearTypes DEF CallTimes, LoopTimes, Busy
  <2>4. CASE call' = NoCall /\ u = lastAnnUsage
      BY <1>1, <1>2, <2>1, <2>4, ClearTypes DEF CallTimes, LoopTimes, Busy, NextSample
  <2> QED
      BY <2>2, <2>3, <2>4
<1>6. CASE SampleDrop(u)
  <2>1. /\ ~Busy(u) /\ Busy(lastAnnUsage) /\ UNCHANGED <<waiting, quiet>>
        /\ Call("reset", u, 0, "true")
      BY <1>6 DEF SampleDrop
  <2>2. /\ call' # NoCall /\ call'.kind = "reset" /\ call'.waited = 0
        /\ call'.ann.usage = u /\ call'.ann.busy = "true"
      BY <1>4, <2>1
  <2>3. ~waiting /\ quiet <= NextSample /\ 0 < quiet /\ node.busy = "true"
      BY <1>1, <1>2, <2>1 DEF LoopTimes
  <2> QED
      BY <1>1, <1>2, <2>1, <2>2, <2>3, ClearTypes DEF CallTimes, LoopTimes, Busy
<1>7. CASE SampleLow(u)
  <2>1. ~Busy(u) /\ ~Busy(lastAnnUsage) /\ UNCHANGED <<waiting, quiet>>
      BY <1>7 DEF SampleLow
  <2>2. PICK due \in Passed(dropAge) :
           IF waiting /\ due THEN Call("clear", u, 0, "false") ELSE call' = NoCall
      BY <1>7 DEF SampleLow
  <2>3. CASE waiting /\ due
    <3>1. /\ call' # NoCall /\ call'.kind = "clear" /\ call'.waited = 0
          /\ call'.ann.usage = u /\ call'.ann.busy = "false"
        BY <1>4, <2>2, <2>3
    <3>2. quiet <= BusyEnd + 0
        BY <1>1, <1>2, <2>3, ClearTypes DEF LoopTimes
    <3> QED
        BY <1>1, <1>2, <2>1, <2>3, <3>1, <3>2 DEF CallTimes, LoopTimes, Busy
  <2>4. CASE ~(waiting /\ due)
    <3>1. call' = NoCall
        BY <2>2, <2>4
    <3>2. waiting => dropAge <= HoldSeconds
      <4> SUFFICES ASSUME waiting PROVE dropAge <= HoldSeconds
          OBVIOUS
      <4>1. CASE dropAge = HoldSeconds
          BY <4>1, ClearTypes
      <4>2. CASE dropAge # HoldSeconds
        <5>1. due = (dropAge > HoldSeconds)
            BY <4>2 DEF Passed
        <5>2. ~(dropAge > HoldSeconds)
            BY <2>4, <5>1
        <5> QED
            BY <5>2, ClearTypes
      <4> QED
          BY <4>1, <4>2
    <3> QED
        BY <1>1, <1>2, <2>1, <3>1, <3>2 DEF CallTimes, LoopTimes, Busy
  <2> QED
      BY <2>3, <2>4
<1> QED
    BY <1>3, <1>5, <1>6, <1>7

\* A second: what is waited for is a second nearer.
LEMMA ClearSecond ==
    ASSUME IInv, ClearInv, Second
    PROVE  ClearInv'
<1> SUFFICES ASSUME failures' = 0, restarts' = 0 PROVE (CallTimes /\ LoopTimes)'
    BY DEF ClearInv
<1>1. /\ tick' = TRUE /\ dropAge' = Older(dropAge) /\ quiet' = Quieter(quiet)
      /\ UNCHANGED <<lastAnnUsage, waiting, node, failures, restarts>>
      /\ call = NoCall => ~tick /\ call' = NoCall
      /\ call # NoCall => call' = [call EXCEPT !.waited = @ + 1]
    BY DEF Second, Quieter, boundVars
<1>2. CallTimes /\ LoopTimes
    BY <1>1 DEF ClearInv
<1>3. quiet' \in Nat /\ quiet' <= quiet + 1 /\ 0 < quiet'
    BY <1>1, ClearTypes DEF Quieter
<1>4. CASE call = NoCall
  <2>1. waiting => dropAge' = dropAge + 1
      BY <1>1, <1>2, <1>4, ClearTypes DEF LoopTimes, Older, MaxAge
  <2>2. Busy(lastAnnUsage) => quiet' <= NextSample
      BY <1>1, <1>2, <1>3, <1>4, ClearTypes DEF LoopTimes
  <2>3. waiting => quiet' <= NextSample + SlowestCall + dropAge'
      BY <1>1, <1>2, <1>3, <1>4, <2>1, ClearTypes DEF LoopTimes
  <2> QED
      BY <1>1, <1>2, <1>3, <1>4, <2>2, <2>3 DEF CallTimes, LoopTimes, Busy
<1>5. CASE call # NoCall
  <2>1. call \in Calls /\ call.waited \in Nat
      BY <1>5, ClearTypes
  <2>2. /\ call'.waited = call.waited + 1 /\ call'.ann = call.ann /\ call'.kind = call.kind
        /\ call' # NoCall
      BY <1>1, <1>5, <2>1 DEF Calls, NoCall
  <2>3. CallTimes'
      BY <1>1, <1>2, <1>3, <1>5, <2>1, <2>2, ClearTypes DEF CallTimes, Busy, BusyEnd, NextSample
  <2> QED
      BY <1>1, <1>2, <1>3, <2>2, <2>3 DEF LoopTimes, Busy
<1> QED
    BY <1>4, <1>5

\* A call has succeeded: the loop goes on to what comes next, or the node no longer says busy.
LEMMA ClearDone ==
    ASSUME IInv, FreshInv, ClearInv, NEW j \in jobs, KubectlDone(j)
    PROVE  ClearInv'
<1> SUFFICES ASSUME failures' = 0, restarts' = 0 PROVE (CallTimes /\ LoopTimes)'
    BY DEF ClearInv
<1>1. /\ node' = j.ann /\ UNCHANGED <<tick, failures, restarts, quiet>>
    BY DEF KubectlDone, boundVars
<1>2. /\ CallTimes /\ LoopTimes /\ PromptInv /\ j.live /\ call # NoCall /\ call \in Calls
      /\ j.ann = call.ann /\ call.waited \in Nat /\ call.waited <= SlowestCall
    BY <1>1, ClearTypes DEF ClearInv, FreshInv, PromptInv, IInv, RepliesInv
<1>3. /\ lastAnnUsage' = call.ann.usage /\ call' = NoCall
      /\ dropAge' = IF call.kind = "reset" THEN 0 ELSE dropAge
      /\ waiting' = CASE call.kind = "reset" -> TRUE
                      [] call.kind = "clear" -> FALSE
                      [] OTHER -> waiting
    BY <1>2 DEF KubectlDone, CallSucceeds
<1>4. call.kind \in {"high", "reset", "clear"}
    BY <1>2 DEF Calls
<1>5. CASE call.kind = "high"
  <2>1. /\ Busy(lastAnnUsage') /\ node'.busy = "true" /\ ~waiting' /\ quiet <= call.waited
        /\ (~tick => call.waited = 0)
      BY <1>1, <1>2, <1>3, <1>5 DEF CallTimes, Busy
  <2> QED
      BY <1>1, <1>2, <1>3, <2>1, ClearTypes DEF CallTimes, LoopTimes, NextSample, Busy
<1>6. CASE call.kind = "reset"
  <2>1. /\ ~Busy(lastAnnUsage') /\ dropAge' = 0 /\ quiet <= NextSample + call.waited
      BY <1>2, <1>3, <1>6 DEF CallTimes, Busy
  <2>2. waiting'
      BY <1>3, <1>6
  <2>3. quiet <= NextSample + SlowestCall + dropAge' /\ dropAge' <= HoldSeconds
      BY <1>2, <2>1, ClearTypes
  <2> QED
      BY <1>1, <1>2, <1>3, <2>1, <2>2, <2>3
         DEF CallTimes, LoopTimes, NextSample, Busy
<1>7. CASE call.kind = "clear"
  <2>1. ~Busy(lastAnnUsage') /\ node'.busy = "false"
      BY <1>1, <1>2, <1>3, <1>7 DEF CallTimes, Busy
  <2>2. ~waiting'
      BY <1>3, <1>7
  <2> QED
      BY <1>1, <1>2, <1>3, <2>1, <2>2 DEF CallTimes, LoopTimes, Busy
<1> QED
    BY <1>4, <1>5, <1>6, <1>7

\* While nothing fails and replies come before the timeout, this is an invariant.
LEMMA ClearInvariance ==
    ASSUME SlowestCall < CallTimeout
    PROVE  Spec => []ClearInv
<1>1. Init => ClearInv
    BY ClearInit
<1>2. IInv /\ FreshInv /\ ClearInv /\ [Next]_vars => ClearInv'
  <2> SUFFICES ASSUME IInv, FreshInv, ClearInv, [Next]_vars PROVE ClearInv'
      OBVIOUS
  <2>1. CASE Sample
      BY <2>1, ClearSample
  <2>2. CASE Second
      BY <2>2, ClearSecond
  <2>3. CASE Serve
    <3>1. /\ call # NoCall /\ call' = [call EXCEPT !.served = TRUE]
          /\ UNCHANGED <<tick, loopVars, node, failures, restarts, quiet>>
        BY <2>3 DEF Serve, boundVars
    <3>2. /\ call' # NoCall /\ call'.waited = call.waited /\ call'.ann = call.ann
          /\ call'.kind = call.kind
        BY <3>1, ClearTypes DEF Calls, NoCall
    <3> QED
        BY <3>1, <3>2
           DEF ClearInv, CallTimes, LoopTimes, loopVars, Busy, NextSample, BusyEnd
  <2>4. CASE Finish
    <3>1. PICK j \in jobs : KubectlDone(j) \/ KubectlFails(j)
        BY <2>4 DEF Finish
    <3>2. CASE KubectlDone(j)
        BY <3>2, ClearDone
    <3>3. CASE KubectlFails(j)
        BY <3>3, ClearTypes DEF KubectlFails, ClearInv
    <3> QED
        BY <3>1, <3>2, <3>3
  <2>5. CASE Timeout
    <3>1. failures = 0 => call.waited <= SlowestCall /\ call.waited = CallTimeout
        BY <2>5 DEF Timeout, FreshInv, PromptInv
    <3>2. failures # 0
        BY <3>1, AgentAssumption
    <3> QED
        BY <2>5, <3>2 DEF Timeout, ClearInv, boundVars
  <2>6. CASE SampleError \/ SampleMisread \/ Unreachable
      BY <2>6, ClearTypes DEF SampleError, SampleMisread, Unreachable, ClearInv
  <2>7. CASE Restart
      BY <2>7, ClearTypes DEF Restart, ClearInv
  <2>8. CASE UNCHANGED vars
      BY <2>8
         DEF vars, loopVars, boundVars, ClearInv, CallTimes, LoopTimes, Busy, NextSample, BusyEnd
  <2> QED
      BY <2>1, <2>2, <2>3, <2>4, <2>5, <2>6, <2>7, <2>8 DEF Next
<1> QED
    BY <1>1, <1>2, AgentInvariance, FreshInvariance, PTL DEF Spec

LEMMA ClearImpliesEnd == IInv /\ FreshInv /\ ClearInv => BusyIsClearedInTime
<1> SUFFICES ASSUME IInv, FreshInv, ClearInv, node.busy = "true", failures = 0, restarts = 0
             PROVE  quiet <= BusyEnd + SlowestCall
    BY DEF BusyIsClearedInTime
<1>1. CallTimes /\ LoopTimes /\ PromptInv
    BY DEF ClearInv, FreshInv
<1>2. CASE call = NoCall
    BY <1>1, <1>2, ClearTypes DEF LoopTimes
<1>3. CASE call # NoCall
  <2>1. call.kind \in {"high", "reset", "clear"} /\ call.waited <= SlowestCall
      BY <1>1, <1>3, ClearTypes DEF PromptInv, Calls
  <2> QED
      BY <1>1, <1>3, <2>1, ClearTypes DEF CallTimes
<1> QED
    BY <1>2, <1>3

\* While nothing fails and replies come before the timeout: the node says that it is busy for a
\* bounded number of seconds after the last busy sample.  "false" is sent in the end, and in time.
THEOREM BusyEndsInTime ==
    ASSUME SlowestCall < CallTimeout
    PROVE  Spec => []BusyIsClearedInTime
<1> QED
    BY AgentInvariance, FreshInvariance, ClearInvariance, ClearImpliesEnd, PTL

--------------------------------------------------------------------------------
(***************************************************************************)
(* The refinement of BusySignal.                                           *)
(***************************************************************************)

\* The phase, by what it depends on.
LEMMA PhaseValues ==
    ASSUME IInv
    PROVE  /\ waiting => Phase = "cooling"
           /\ ~waiting /\ (Busy(lastAnnUsage) \/ call.kind = "high") => Phase = "busy"
           /\ ~waiting /\ ~(Busy(lastAnnUsage) \/ call.kind = "high") => Phase = "idle"
BY DEF Phase

\* The same, after a step.
LEMMA NextPhaseValues ==
    ASSUME IInv'
    PROVE  /\ waiting' => Phase' = "cooling"
           /\ ~waiting' /\ (Busy(lastAnnUsage') \/ call'.kind = "high") => Phase' = "busy"
           /\ ~waiting' /\ ~(Busy(lastAnnUsage') \/ call'.kind = "high") => Phase' = "idle"
BY DEF Phase, Busy

\* A step that changes nothing that the signal consists of.
LEMMA SignalStutters ==
    ASSUME UNCHANGED <<waiting, lastAnnUsage, node, quiet>>, call'.kind = call.kind
    PROVE  UNCHANGED Promise!signalVars
BY DEF Promise!signalVars, Phase, Busy

\* The agent starts idle.
LEMMA SignalInitially == Init => Promise!SignalInit
<1> SUFFICES ASSUME Init PROVE Promise!SignalInit
    OBVIOUS
<1>1. ~Busy(lastAnnUsage) /\ ~waiting /\ call.kind = "none" /\ node.busy = "none"
    BY AgentAssumption DEF Init, Busy, NoCall, NoAnnotations
<1>2. Phase = "idle"
    BY <1>1 DEF Phase
<1> QED
    BY <1>1, <1>2 DEF Init, Promise!SignalInit

\* A busy sample is one of the signal; what a sample that is not busy starts changes nothing yet.
LEMMA SampleSignals ==
    ASSUME IInv, IInv', CallTimes, LoopTimes, Sample
    PROVE  Promise!BusySample \/ UNCHANGED Promise!signalVars
<1>1. /\ call = NoCall /\ call.kind = "none" /\ UNCHANGED <<lastAnnUsage, node>>
    BY DEF Sample, NoCall
<1>2. PICK u \in Samples : SampleHigh(u) \/ SampleDrop(u) \/ SampleLow(u)
    BY DEF Sample
<1>3. CASE SampleHigh(u)
  <2>1. Busy(u) /\ quiet' = 0 /\ waiting' = FALSE
      BY <1>3 DEF SampleHigh
  <2>2. call'.kind = "high" \/ Busy(lastAnnUsage')
    <3>1. \/ Call("high", u, over90time', "true")
          \/ u = lastAnnUsage
        BY <1>3 DEF SampleHigh
    <3>2. CASE Call("high", u, over90time', "true")
        BY <3>2 DEF Call
    <3>3. CASE u = lastAnnUsage
        BY <1>1, <2>1, <3>3 DEF Busy
    <3> QED
        BY <3>1, <3>2, <3>3
  <2>3. Phase' = "busy"
      BY <2>1, <2>2, NextPhaseValues
  <2> QED
      BY <1>1, <2>1, <2>3 DEF Promise!BusySample
<1>4. CASE SampleDrop(u)
  <2>1. Busy(lastAnnUsage) /\ UNCHANGED <<waiting, quiet>>
      BY <1>4 DEF SampleDrop
  <2>2. ~waiting
      BY <2>1 DEF LoopTimes
  <2>3. Phase = "busy" /\ Phase' = "busy"
    <3>1. ~waiting' /\ Busy(lastAnnUsage')
        BY <1>1, <2>1, <2>2 DEF Busy
    <3> QED
        BY <2>1, <2>2, <3>1, PhaseValues, NextPhaseValues
  <2> QED
      BY <1>1, <2>1, <2>3 DEF Promise!signalVars
<1>5. CASE SampleLow(u)
  <2>1. ~Busy(lastAnnUsage) /\ UNCHANGED <<waiting, quiet>>
      BY <1>5 DEF SampleLow
  <2>2. call'.kind # "high"
      BY <1>5 DEF SampleLow, Call, NoCall
  <2>3. Phase' = Phase
      BY <1>1, <2>1, <2>2 DEF Phase, Busy
  <2> QED
      BY <1>1, <2>1, <2>3 DEF Promise!signalVars
<1> QED
    BY <1>2, <1>3, <1>4, <1>5

\* A second passes only while the signal need not follow yet.
LEMMA SecondSignals ==
    ASSUME IInv, IInv', CallTimes, LoopTimes, BusyIsClearedInTime', Second,
           failures' = 0, restarts' = 0
    PROVE  Promise!Wait \/ UNCHANGED Promise!signalVars
<1>1. /\ UNCHANGED <<lastAnnUsage, waiting, node>> /\ quiet' = Quieter(quiet)
      /\ call = NoCall => call' = NoCall
      /\ call # NoCall => call' = [call EXCEPT !.waited = @ + 1] /\ call.waited < SlowestCall
    BY DEF Second, Quieter
<1>2. call'.kind = call.kind
  <2>1. CASE call = NoCall
      BY <1>1, <2>1
  <2>2. CASE call # NoCall
    <3>1. call \in Calls
        BY <2>2, ClearTypes
    <3> QED
        BY <1>1, <2>2, <3>1 DEF Calls
  <2> QED
      BY <2>1, <2>2
<1>3. CASE quiet < MaxQuiet
  <2>1. quiet' = quiet + 1
      BY <1>1, <1>3 DEF Quieter
  <2>2. node.busy = "true" => quiet < BusyEnd + SlowestCall
      BY <1>1, <2>1, ClearTypes DEF BusyIsClearedInTime, BusyEnd
  <2>3. ASSUME Phase = "busy", node.busy # "true"
        PROVE  quiet < SlowestCall
    <3>1. ~waiting /\ (Busy(lastAnnUsage) \/ call.kind = "high")
        BY <2>3, PhaseValues
    <3>2. call # NoCall
        BY <2>3, <3>1 DEF LoopTimes, NoCall
    <3>3. call.kind = "high"
      <4>1. call.kind \in {"high", "reset", "clear"}
          BY <3>2, ClearTypes DEF Calls
      <4> QED
          BY <2>3, <3>1, <3>2, <4>1 DEF CallTimes
    <3>4. quiet <= call.waited /\ call.waited < SlowestCall /\ call.waited \in Nat
        BY <1>1, <3>2, <3>3, ClearTypes DEF CallTimes
    <3> QED
        BY <3>4, ClearTypes
  <2>4. Phase' = Phase
      BY <1>1, <1>2 DEF Phase, Busy
  <2> QED
      BY <1>1, <1>3, <2>1, <2>2, <2>3, <2>4 DEF Promise!Wait
<1>4. CASE ~(quiet < MaxQuiet)
  <2>1. quiet' = quiet
      BY <1>1, <1>4 DEF Quieter
  <2> QED
      BY <1>1, <1>2, <2>1, SignalStutters
<1> QED
    BY <1>3, <1>4

\* The annotations of a call arrive: the signal goes up, the drop is noted, or it goes down.
LEMMA DoneSignals ==
    ASSUME IInv, IInv', PromptInv, CallTimes, LoopTimes, NEW j \in jobs, KubectlDone(j)
    PROVE  Promise!Raise \/ Promise!Drop \/ Promise!Clear
<1>1. node' = j.ann /\ UNCHANGED quiet
    BY DEF KubectlDone
<1>2. /\ j.live /\ call # NoCall /\ call \in Calls /\ j.ann = call.ann
      /\ call.waited \in Nat /\ call.waited <= SlowestCall
    BY ClearTypes DEF PromptInv, IInv, RepliesInv
<1>3. /\ lastAnnUsage' = call.ann.usage /\ call' = NoCall
      /\ waiting' = CASE call.kind = "reset" -> TRUE
                      [] call.kind = "clear" -> FALSE
                      [] OTHER -> waiting
    BY <1>2 DEF KubectlDone, CallSucceeds
<1>4. call'.kind = "none"
    BY <1>3 DEF NoCall
<1>5. call.kind \in {"high", "reset", "clear"}
    BY <1>2 DEF Calls
<1>6. CASE call.kind = "high"
  <2>1. ~waiting /\ waiting' = waiting /\ Busy(lastAnnUsage') /\ node'.busy = "true"
      BY <1>1, <1>2, <1>3, <1>6 DEF CallTimes, Busy
  <2>2. Phase = "busy" /\ Phase' = "busy"
      BY <1>6, <2>1, PhaseValues, NextPhaseValues
  <2>3. quiet <= SlowestCall
      BY <1>2, <1>6, ClearTypes DEF CallTimes
  <2> QED
      BY <1>1, <2>1, <2>2, <2>3 DEF Promise!Raise
<1>7. CASE call.kind = "reset"
  <2>1. /\ ~waiting /\ Busy(lastAnnUsage) /\ node.busy = "true" /\ node'.busy = "true"
        /\ 0 < quiet
      BY <1>1, <1>2, <1>7 DEF CallTimes
  <2>2. waiting'
      BY <1>3, <1>7
  <2>3. Phase = "busy" /\ Phase' = "cooling"
      BY <2>1, <2>2, PhaseValues, NextPhaseValues
  <2> QED
      BY <1>1, <2>1, <2>3, ClearTypes DEF Promise!Drop
<1>8. CASE call.kind = "clear"
  <2>1. waiting /\ node'.busy = "false" /\ ~Busy(lastAnnUsage')
      BY <1>1, <1>2, <1>3, <1>8 DEF CallTimes, Busy
  <2>2. ~waiting'
      BY <1>3, <1>8
  <2>3. Phase = "cooling" /\ Phase' = "idle"
      BY <1>4, <2>1, <2>2, PhaseValues, NextPhaseValues
  <2>4. quiet >= HoldSeconds
      BY <1>8 DEF IInv, FalseIsSentAfterQuiet
  <2> QED
      BY <1>1, <2>1, <2>3, <2>4 DEF Promise!Clear
<1> QED
    BY <1>5, <1>6, <1>7, <1>8

\* While nothing fails and replies come before the timeout, the agent implements the signal with
\* hysteresis: isCpuBusy goes up within a call of the first busy sample, stays while the load
\* falls and rises again, and goes down HoldSeconds after the last busy sample at the earliest and
\* a bounded time after it at the latest.
THEOREM SignalImplemented ==
    ASSUME SlowestCall < CallTimeout, MaxFailures = 0, MaxRestarts = 0
    PROVE  Spec => ImplementsBusySignal
<1> DEFINE Inv == IInv /\ FreshInv /\ ClearInv
<1>1. Inv /\ Inv' /\ [Next]_vars => [Promise!SignalNext]_(Promise!signalVars)
  <2> SUFFICES ASSUME Inv, Inv', [Next]_vars
               PROVE  Promise!SignalNext \/ UNCHANGED Promise!signalVars
      OBVIOUS
  <2>1. failures = 0 /\ restarts = 0 /\ failures' = 0 /\ restarts' = 0
      BY AgentAssumption DEF IInv, TypeOK
  <2>2. CallTimes /\ LoopTimes /\ PromptInv
      BY <2>1 DEF ClearInv, FreshInv
  <2>3. BusyIsClearedInTime'
    <3>1. IInv' /\ FreshInv' /\ ClearInv'
        OBVIOUS
    <3> QED
        BY <3>1, ClearImpliesEnd, PTL
  <2>4. CASE Sample
      BY <2>2, <2>4, SampleSignals DEF Promise!SignalNext
  <2>5. CASE Second
      BY <2>1, <2>2, <2>3, <2>5, SecondSignals DEF Promise!SignalNext
  <2>6. CASE Serve
    <3>1. /\ call # NoCall /\ call' = [call EXCEPT !.served = TRUE]
          /\ UNCHANGED <<loopVars, node, quiet>>
        BY <2>6 DEF Serve
    <3>2. call'.kind = call.kind
        BY <3>1, ClearTypes DEF Calls
    <3> QED
        BY <3>1, <3>2, SignalStutters DEF loopVars
  <2>7. CASE Finish
    <3>1. PICK j \in jobs : KubectlDone(j) \/ KubectlFails(j)
        BY <2>7 DEF Finish
    <3>2. ~KubectlFails(j)
        BY <2>1 DEF KubectlFails
    <3> QED
        BY <2>2, <3>1, <3>2, DoneSignals DEF Promise!SignalNext
  <2>8. CASE Timeout
    <3>1. call.waited <= SlowestCall /\ call.waited = CallTimeout
        BY <2>2, <2>8 DEF Timeout, PromptInv
    <3> QED
        BY <3>1, AgentAssumption
  <2>9. CASE SampleError \/ SampleMisread \/ Unreachable \/ Restart
      BY <2>1, <2>9 DEF SampleError, SampleMisread, Unreachable, Restart
  <2>10. CASE UNCHANGED vars
      BY <2>10, SignalStutters DEF vars, loopVars
  <2> QED
      BY <2>4, <2>5, <2>6, <2>7, <2>8, <2>9, <2>10 DEF Next
<1> QED
    BY <1>1, SignalInitially, AgentInvariance, FreshInvariance, ClearInvariance, PTL
       DEF Spec, ImplementsBusySignal, Promise!SignalSpec

================================================================================
