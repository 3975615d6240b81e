-------------------------------- MODULE CpuAgent --------------------------------
(***************************************************************************)
(* The node's CPU agent, src/cpu_util_sender/main.go: a loop that samples  *)
(* /proc/stat on a one-second ticker and publishes usage, duration and     *)
(* isCpuBusy as node annotations.  It does so by an HTTP request to the    *)
(* API server in the same process, whose handler runs "kubectl annotate".  *)
(* The loop waits for the reply, with a timeout; the handler and kubectl   *)
(* have none, so a kubectl whose caller has given up runs on and its       *)
(* annotations may arrive at any later time.                               *)
(*                                                                         *)
(* Time is counted in whole seconds; what the agent does between two       *)
(* ticks takes no time except for the reply to a request.                  *)
(***************************************************************************)
EXTENDS Integers, FiniteSets

CONSTANTS
    Usages,       \* the CPU usages, in percent, that a second may have
    Threshold,    \* 90 in the code
    HoldSeconds,  \* 5 in the code: refresh period, and delay of "false"
    CallTimeout,  \* 3 in the code: seconds after which a call is given up
    SlowestCall,  \* bound: seconds that the reply to a call may take
    MaxFailures,  \* bound: sampling errors, misread samples and failed calls
    MaxRestarts,  \* bound: restarts of the agent in a behaviour
    MaxOrphans,   \* bound: kubectl processes whose caller has given up
    MaxBusy,      \* bound: seconds of a busy period
    MaxQuiet      \* bound: seconds of a quiet period that are counted

ASSUME AgentAssumption ==
    /\ Usages \subseteq 0..100
    /\ Threshold \in 0..100
    /\ HoldSeconds \in Nat \ {0}
    /\ CallTimeout \in Nat \ {0}
    /\ SlowestCall \in 0..CallTimeout
    /\ MaxFailures \in Nat /\ MaxRestarts \in Nat /\ MaxOrphans \in Nat
    /\ MaxBusy \in Nat
    /\ MaxQuiet \in Nat /\ MaxQuiet > HoldSeconds

VARIABLES
    load,          \* the usage of the last second
    seen,          \* the usages of the seconds since the last sample
    tick,          \* a tick waits in the ticker's channel (capacity 1)
    over90time,    \* number of consecutive samples above the threshold
    lastAnnUsage,  \* the usage of the last call that succeeded, or -1
    annAge,        \* seconds since then
    waiting,       \* waitingForBusyFalse
    dropAge,       \* seconds since droppedBelowTime
    call,          \* the call to the API server the loop is blocked in
    jobs,          \* the running kubectl processes
    node,          \* the annotations of the node
    failures, restarts,
    highFor,       \* history: seconds the load has been above the threshold
    quiet          \* history: seconds since a sample was above it

loopVars == <<over90time, lastAnnUsage, annAge, waiting, dropAge>>
boundVars == <<failures, restarts>>
vars == <<load, seen, tick, loopVars, call, jobs, node, boundVars, highFor, quiet>>

Busy(u) == u > Threshold

MaxAge == HoldSeconds + 1
Older(age) == IF age < MaxAge THEN age + 1 ELSE age

Annotations == [usage : Usages, duration : 0..(MaxBusy + 1), busy : {"true", "false"}]
NoAnnotations == [usage |-> -1, duration |-> 0, busy |-> "none"]
NoCall == [kind |-> "none"]

TypeOK ==
    /\ load \in Usages /\ seen \subseteq Usages /\ tick \in BOOLEAN
    /\ over90time \in 0..(MaxBusy + 1)
    /\ lastAnnUsage \in Usages \cup {-1}
    /\ annAge \in 0..MaxAge /\ dropAge \in 0..MaxAge
    /\ waiting \in BOOLEAN
    /\ call \in {NoCall} \cup [kind : {"high", "reset", "clear"}, waited : 0..CallTimeout,
                               served : BOOLEAN, ann : Annotations]
    /\ jobs \subseteq [ann : Annotations, live : BOOLEAN]
    /\ node \in Annotations \cup {NoAnnotations}
    /\ failures \in 0..MaxFailures /\ restarts \in 0..MaxRestarts
    /\ highFor \in 0..MaxBusy /\ quiet \in 0..MaxQuiet

Init ==
    /\ load \in Usages /\ ~Busy(load)
    /\ seen = {} /\ tick = FALSE
    /\ over90time = 0 /\ lastAnnUsage = -1 /\ annAge = MaxAge
    /\ waiting = FALSE /\ dropAge = MaxAge
    /\ call = NoCall /\ jobs = {} /\ node = NoAnnotations
    /\ failures = 0 /\ restarts = 0
    /\ highFor = 0 /\ quiet = MaxQuiet

--------------------------------------------------------------------------------
(***************************************************************************)
(* Calls.                                                                  *)
(***************************************************************************)

\* The loop calls annotateViaHTTP and is blocked until the call returns.
Call(kind, u, duration, busy) ==
    call' = [kind |-> kind, waited |-> 0, served |-> FALSE,
             ann |-> [usage |-> u, duration |-> duration, busy |-> busy]]

\* Faulty variant of CallSucceeds: the drop does not start the wait for "false".
CallSucceedsNoWait ==
    /\ lastAnnUsage' = call.ann.usage
    /\ annAge' = 0
    /\ dropAge' = IF call.kind = "reset" THEN 0 ELSE dropAge
    /\ waiting' = (waiting /\ call.kind # "clear")
    /\ call' = NoCall
    /\ UNCHANGED over90time

\* annotateViaHTTP returned no error: what the branch of the loop records.
CallSucceeds ==
    /\ lastAnnUsage' = call.ann.usage
    /\ annAge' = 0
    /\ dropAge' = IF call.kind = "reset" THEN 0 ELSE dropAge
    /\ waiting' = CASE call.kind = "reset" -> TRUE
                    [] call.kind = "clear" -> FALSE
                    [] OTHER -> waiting
    /\ call' = NoCall
    /\ UNCHANGED over90time

\* annotateViaHTTP returned an error: the loop records nothing.
CallFails ==
    /\ call' = NoCall
    /\ UNCHANGED loopVars

\* The handler of the API server starts kubectl.
Serve ==
    /\ call # NoCall /\ ~call.served
    /\ call' = [call EXCEPT !.served = TRUE]
    /\ jobs' = jobs \cup {[ann |-> call.ann, live |-> TRUE]}
    /\ UNCHANGED <<load, seen, tick, loopVars, node, boundVars, highFor, quiet>>

\* The API server cannot be reached: its port is taken or it is gone.
Unreachable ==
    /\ call # NoCall /\ ~call.served
    /\ failures < MaxFailures
    /\ failures' = failures + 1
    /\ CallFails
    /\ UNCHANGED <<load, seen, tick, jobs, node, restarts, highFor, quiet>>

\* kubectl has set the annotations; a caller that still waits gets the 200.
KubectlDone(j) ==
    /\ node' = j.ann
    /\ jobs' = jobs \ {j}
    /\ IF j.live THEN CallSucceeds ELSE UNCHANGED <<call, loopVars>>
    /\ UNCHANGED <<load, seen, tick, boundVars, highFor, quiet>>

\* kubectl has failed; a caller that still waits gets the 500.
KubectlFails(j) ==
    /\ failures < MaxFailures
    /\ failures' = failures + 1
    /\ jobs' = jobs \ {j}
    /\ IF j.live THEN CallFails ELSE UNCHANGED <<call, loopVars>>
    /\ UNCHANGED <<load, seen, tick, node, restarts, highFor, quiet>>

\* Faulty variant of Timeout: a late reply is taken for that of the next call.
TimeoutKeepsReply ==
    /\ call # NoCall /\ call.waited = CallTimeout
    /\ CallFails
    /\ UNCHANGED <<load, seen, tick, jobs, node, boundVars, highFor, quiet>>

\* The loop gives the call up; its kubectl runs on, and a request that has not
\* reached its handler yet may still do so.
Timeout ==
    /\ call # NoCall /\ call.waited = CallTimeout
    /\ CallFails
    /\ \E late \in {{}, IF call.served THEN {} ELSE {[ann |-> call.ann, live |-> FALSE]}} :
         jobs' = {[j EXCEPT !.live = FALSE] : j \in jobs} \cup late
    /\ UNCHANGED <<load, seen, tick, node, boundVars, highFor, quiet>>

--------------------------------------------------------------------------------
(***************************************************************************)
(* The loop.                                                               *)
(***************************************************************************)

\* What computeUsage may find for a span of several seconds: an average.
Samples == {u \in Usages : \E a, b \in seen : a <= u /\ u <= b}

\* Whether HoldSeconds have passed for an age in whole seconds.  At exactly
\* that age it depends on the jitter of the ticker and of the reply.
Passed(age) == IF age = HoldSeconds THEN BOOLEAN ELSE {age > HoldSeconds}

\* Faulty variants of SampleHigh: an unchanged value is never published again;
\* the pending "false" is not cancelled.
SampleHighNoRefresh(u) ==
    /\ Busy(u)
    /\ over90time' = over90time + 1
    /\ quiet' = 0
    /\ waiting' = FALSE
    /\ IF u # lastAnnUsage THEN Call("high", u, over90time', "true") ELSE call' = NoCall

SampleHighKeepsWaiting(u) ==
    /\ Busy(u)
    /\ over90time' = over90time + 1
    /\ quiet' = 0
    /\ UNCHANGED waiting
    /\ \E due \in Passed(annAge) :
         IF u # lastAnnUsage \/ due
         THEN Call("high", u, over90time', "true")
         ELSE call' = NoCall

\* Above the threshold: publish a new value, and an old one after a while.
SampleHigh(u) ==
    /\ Busy(u)
    /\ over90time' = over90time + 1
    /\ quiet' = 0
    /\ waiting' = FALSE
    /\ \E due \in Passed(annAge) :
         IF u # lastAnnUsage \/ due
         THEN Call("high", u, over90time', "true")
         ELSE call' = NoCall

\* The first sample below since a published one above: still "true".
SampleDrop(u) ==
    /\ ~Busy(u) /\ Busy(lastAnnUsage)
    /\ over90time' = 0
    /\ UNCHANGED <<waiting, quiet>>
    /\ Call("reset", u, 0, "true")

\* Faulty variant of SampleLow: "false" is only published with a new usage.
SampleLowNewOnly(u) ==
    /\ ~Busy(u) /\ ~Busy(lastAnnUsage)
    /\ over90time' = 0
    /\ UNCHANGED <<waiting, quiet>>
    /\ \E due \in Passed(dropAge) :
         IF waiting /\ due /\ u # lastAnnUsage THEN Call("clear", u, 0, "false") ELSE call' = NoCall

\* Below the threshold: "false" once HoldSeconds have passed since the drop.
SampleLow(u) ==
    /\ ~Busy(u) /\ ~Busy(lastAnnUsage)
    /\ over90time' = 0
    /\ UNCHANGED <<waiting, quiet>>
    /\ \E due \in Passed(dropAge) :
         IF waiting /\ due THEN Call("clear", u, 0, "false") ELSE call' = NoCall

Sample ==
    /\ call = NoCall /\ tick
    /\ tick' = FALSE
    /\ seen' = {}
    /\ \E u \in Samples : SampleHigh(u) \/ SampleDrop(u) \/ SampleLow(u)
    /\ UNCHANGED <<load, lastAnnUsage, annAge, dropAge, jobs, node, boundVars, highFor>>

\* /proc/stat could not be read: the tick is skipped, prev stays.
SampleError ==
    /\ call = NoCall /\ tick
    /\ failures < MaxFailures
    /\ failures' = failures + 1
    /\ tick' = FALSE
    /\ UNCHANGED <<load, seen, loopVars, call, jobs, node, restarts, highFor, quiet>>

\* Faulty variant of SampleMisread: the result is not clamped, so that it falls below 0.
SampleMisreadNegative ==
    /\ call = NoCall /\ tick
    /\ failures < MaxFailures
    /\ failures' = failures + 1
    /\ tick' = FALSE
    /\ seen' = {}
    /\ SampleDrop(-100) \/ SampleLow(-100)
    /\ UNCHANGED <<load, lastAnnUsage, annAge, dropAge, jobs, node, restarts, highFor>>

\* computeUsage makes 0 of a span in which the counters fell, as iowait may, or stood
\* still, however busy it was; prev moves on.  Any usage that is not busy stands for 0.
SampleMisread ==
    /\ call = NoCall /\ tick
    /\ failures < MaxFailures
    /\ failures' = failures + 1
    /\ tick' = FALSE
    /\ seen' = {}
    /\ \E u \in Usages : SampleDrop(u) \/ SampleLow(u)
    /\ UNCHANGED <<load, lastAnnUsage, annAge, dropAge, jobs, node, restarts, highFor>>

--------------------------------------------------------------------------------
(***************************************************************************)
(* Time and restarts.                                                      *)
(***************************************************************************)

Orphans == {j \in jobs : ~j.live}

\* A second passes.  The loop is prompt; a tick is dropped when the previous
\* one has not been taken.
Second ==
    /\ call = NoCall => ~tick
    /\ call # NoCall => call.waited < SlowestCall
    /\ Cardinality(Orphans) <= MaxOrphans
    /\ load' \in {u \in Usages : Busy(u) => highFor < MaxBusy /\ over90time < MaxBusy}
    /\ seen' = seen \cup {load'}
    /\ tick' = TRUE
    /\ annAge' = Older(annAge)
    /\ dropAge' = Older(dropAge)
    /\ call' = IF call = NoCall THEN NoCall ELSE [call EXCEPT !.waited = @ + 1]
    /\ highFor' = IF Busy(load') THEN highFor + 1 ELSE 0
    /\ quiet' = IF quiet < MaxQuiet THEN quiet + 1 ELSE quiet
    /\ UNCHANGED <<over90time, lastAnnUsage, waiting, jobs, node, boundVars>>

\* The container is restarted: the loop starts afresh and its kubectl
\* processes are gone; the node keeps its annotations.
Restart ==
    /\ restarts < MaxRestarts
    /\ restarts' = restarts + 1
    /\ seen' = {} /\ tick' = FALSE
    /\ over90time' = 0 /\ lastAnnUsage' = -1 /\ annAge' = MaxAge
    /\ waiting' = FALSE /\ dropAge' = MaxAge
    /\ call' = NoCall /\ jobs' = {}
    /\ UNCHANGED <<load, node, failures, highFor, quiet>>

Finish == \E j \in jobs : KubectlDone(j) \/ KubectlFails(j)

Next ==
    \/ Second \/ Sample \/ SampleError \/ SampleMisread
    \/ Serve \/ Unreachable \/ Finish \/ Timeout
    \/ Restart

Spec == Init /\ [][Next]_vars

\* Time goes on, the loop takes its ticks, a request reaches its handler, and
\* every kubectl ends.
Fairness ==
    /\ WF_vars(Second)
    /\ WF_vars(Sample)
    /\ WF_vars(Serve)
    /\ WF_vars(Finish)
    /\ WF_vars(Timeout)

FairSpec == Spec /\ Fairness

--------------------------------------------------------------------------------
(***************************************************************************)
(* Properties.                                                             *)
(***************************************************************************)

\* While nothing fails, neither a call nor a sample: whenever the loop waits for its next tick in a busy
\* period, the node says so, and the duration it shows is no older than the
\* refresh period and the time that a call takes.
FreshWhileBusy ==
    call = NoCall /\ over90time > 0 /\ failures = 0
        => /\ node.busy = "true"
           /\ Busy(node.usage)
           /\ over90time - node.duration <= HoldSeconds + SlowestCall

\* "false" is never sent less than HoldSeconds after a busy sample: a load that
\* rises again, even if that could not be published, cancels it.
FalseIsSentAfterQuiet ==
    call.kind = "clear" => quiet >= HoldSeconds

\* Once the load stays below the threshold, the node stops saying that it is
\* busy: "if still below 90% after 5 seconds, set isCpuBusy to false".
BusyIsCleared ==
    <>[](~Busy(load)) => <>[](node.busy # "true")

\* While nothing fails, the node says that it is busy for a bounded time after the last busy sample:
\* the call of that sample or the second to the next one, the call of the drop, the wait for "false",
\* which may be a second longer, and its call.  So no drop is forgotten and no wait lost.
BusyEnd == (IF SlowestCall > 0 THEN SlowestCall ELSE 1) + SlowestCall + HoldSeconds + 1
BusyIsClearedInTime ==
    node.busy = "true" /\ failures = 0 /\ restarts = 0 => quiet <= BusyEnd + SlowestCall

\* The agent is the signal with hysteresis of module BusySignal while nothing fails: published as
\* busy, or about to be, it is busy; waiting for "false", it is cooling.
Phase ==
    CASE waiting -> "cooling"
      [] ~waiting /\ (Busy(lastAnnUsage) \/ call.kind = "high") -> "busy"
      [] OTHER -> "idle"
Promise == INSTANCE BusySignal WITH phase <- Phase, signal <- node.busy,
                                    Lag <- SlowestCall, Latest <- BusyEnd + SlowestCall
ImplementsBusySignal == Promise!SignalSpec

\* The node says that it is busy, and the loop neither knows nor waits to withdraw it: it will not,
\* before another busy period.
Forgotten ==
    node.busy = "true" /\ call = NoCall /\ ~waiting /\ ~Busy(lastAnnUsage)

\* What may go wrong with a publication or with the agent.
Mishap ==
    \/ Restart \/ Unreachable \/ Timeout
    \/ \E j \in jobs : KubectlFails(j) \/ (~j.live /\ KubectlDone(j))

\* The loop loses sight of a busy node only when it is restarted, when its call fails or is given up,
\* or when a call that it has given up takes effect: never by its own samples, in whatever order the load
\* rises and falls around earlier mishaps, and every call that succeeds ends it.
ForgottenByMishapOnly == [][~Forgotten /\ Forgotten' => Mishap]_vars

\* over90time is the duration above the threshold "in seconds": it misses no more
\* than the seconds of one sample, however long the busy period lasts.
DurationIsSeconds ==
    call = NoCall /\ ~tick => highFor - over90time <= CallTimeout

--------------------------------------------------------------------------------
(***************************************************************************)
(* Why "false" comes late enough: an inductive invariant.                  *)
(***************************************************************************)

\* Only the kubectl of the present call can answer it.
RepliesInv ==
    \A j \in jobs : j.live => call # NoCall /\ call.served /\ j.ann = call.ann

\* The loop waits for "false" only since a drop that no busy sample followed.
WaitingInv == waiting => dropAge <= quiet

\* The bound on busy periods bounds the samples that find one.
BusyInv ==
    /\ over90time <= MaxBusy
    /\ (\E u \in seen : Busy(u)) => over90time < MaxBusy

\* Whatever fails and however late kubectl ends: replies reach the call they
\* belong to, and the wait for "false" is never older than the quiet period.
IInv == TypeOK /\ RepliesInv /\ WaitingInv /\ BusyInv /\ FalseIsSentAfterQuiet
================================================================================
