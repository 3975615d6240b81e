--------------------------------- MODULE Renice --------------------------------
(***************************************************************************)
(* POST /renice of the resource controller, src/resource/main.go: a        *)
(* handler asks the container runtime for the PID of a container's process *)
(* (crictl inspect, jq) and runs renice on that PID.  Handlers run beside  *)
(* each other, and beside a kernel that gives the PID of a process that    *)
(* has exited to another one.                                              *)
(*                                                                         *)
(* External: a container is started at most once under its id; crictl      *)
(* gives PID 0 for one that is not running; renice -p 0 sets the niceness  *)
(* of the renice command itself and succeeds.                              *)
(***************************************************************************)
EXTENDS FiniteSets

CONSTANTS
    Handlers,    \* the requests that may be in progress at a time
    Containers,  \* container ids
    Pids,        \* the PIDs of the node
    Nices,       \* the values of the request's "nice"
    NoPid,       \* 0, the PID of a container that is not running
    Other,       \* the owner of a process that is in no container
    Nobody       \* no owner, or no container

ASSUME ReniceAssumption ==
    /\ NoPid \notin Pids
    /\ Other \notin Containers /\ Nobody \notin Containers /\ Other # Nobody

VARIABLES
    proc,      \* proc[p]: the container that process p belongs to, Other, or Nobody
    nice,      \* nice[p]: "default", or the niceness that renice gave it
    started,   \* the containers that have been started
    hung,      \* crictl does not answer
    pc,        \* pc[h]: the next step of handler h
    req,       \* req[h]: the request that h serves, or served last
    pid,       \* pid[h]: pidStr
    answer,    \* answer[h]: the reply to the last request of h
    by         \* history: the container whose request gave p its niceness, or Nobody

nodeVars == <<proc, started, hung>>
vars == <<nodeVars, nice, pc, req, pid, answer, by>>

ReniceRequest == [container : Containers, nice : Nices]
NoRequest == [container |-> Nobody]

TypeOK ==
    /\ proc \in [Pids -> Containers \cup {Other, Nobody}]
    /\ nice \in [Pids -> Nices \cup {"default"}]
    /\ started \subseteq Containers
    /\ hung \in BOOLEAN
    /\ pc \in [Handlers -> {"idle", "inspect", "renice"}]
    /\ req \in [Handlers -> ReniceRequest \cup {NoRequest}]
    /\ pid \in [Handlers -> Pids \cup {NoPid}]
    /\ answer \in [Handlers -> {"none", "ok", "failed", "lost"}]
    /\ by \in [Pids -> Containers \cup {Nobody}]
    /\ \A h \in Handlers : pc[h] # "idle" => req[h] \in ReniceRequest

Init ==
    /\ proc \in [Pids -> {Other, Nobody}]
    /\ nice = [p \in Pids |-> "default"]
    /\ started = {} /\ hung = FALSE
    /\ pc = [h \in Handlers |-> "idle"]
    /\ req = [h \in Handlers |-> NoRequest]
    /\ pid = [h \in Handlers |-> NoPid]
    /\ answer = [h \in Handlers |-> "none"]
    /\ by = [p \in Pids |-> Nobody]

Runs(c) == \E p \in Pids : proc[p] = c
Exited(c) == c \in started /\ ~Runs(c)

--------------------------------------------------------------------------------
(***************************************************************************)
(* The node.                                                               *)
(***************************************************************************)

\* A process of the given owner starts, with a PID that is free.
Spawn(owner) ==
    \E p \in Pids :
        /\ proc[p] = Nobody
        /\ proc' = [proc EXCEPT ![p] = owner]

StartContainer(c) ==
    /\ c \notin started
    /\ started' = started \cup {c}
    /\ Spawn(c)
    /\ UNCHANGED <<hung, nice, pc, req, pid, answer, by>>

StartOther ==
    /\ Spawn(Other)
    /\ UNCHANGED <<started, hung, nice, pc, req, pid, answer, by>>

\* A process exits, and its container with it; its PID is free.
Exit(p) ==
    /\ proc[p] # Nobody
    /\ proc' = [proc EXCEPT ![p] = Nobody]
    /\ nice' = [nice EXCEPT ![p] = "default"]
    /\ by' = [by EXCEPT ![p] = Nobody]
    /\ UNCHANGED <<started, hung, pc, req, pid, answer>>

\* The container runtime stops answering, or answers again.
Hang ==
    /\ hung' = ~hung
    /\ UNCHANGED <<proc, started, nice, pc, req, pid, answer, by>>

--------------------------------------------------------------------------------
(***************************************************************************)
(* A handler.                                                              *)
(***************************************************************************)

Reply(h, a) ==
    /\ pc' = [pc EXCEPT ![h] = "idle"]
    /\ answer' = [answer EXCEPT ![h] = a]

Receive(h) ==
    /\ pc[h] = "idle"
    /\ pc' = [pc EXCEPT ![h] = "inspect"]
    /\ \E r \in ReniceRequest : req' = [req EXCEPT ![h] = r]
    /\ pid' = [pid EXCEPT ![h] = NoPid]
    /\ answer' = [answer EXCEPT ![h] = "none"]
    /\ UNCHANGED <<nodeVars, nice, by>>

\* The PID of a container's process, as crictl knows it.
PidOf(c) == IF Runs(c) THEN CHOOSE p \in Pids : proc[p] = c ELSE NoPid

\* Faulty variants of Inspect: the PID is kept in a variable that handlers share; the
\* handler waits for the container to run.
InspectShared(h) ==
    /\ pc[h] = "inspect" /\ ~hung
    /\ pid' = [i \in Handlers |-> PidOf(req[h].container)]
    /\ pc' = [pc EXCEPT ![h] = "renice"]
    /\ UNCHANGED <<nodeVars, nice, req, answer, by>>

InspectWaits(h) ==
    /\ pc[h] = "inspect" /\ ~hung
    /\ Runs(req[h].container)
    /\ pid' = [pid EXCEPT ![h] = PidOf(req[h].container)]
    /\ pc' = [pc EXCEPT ![h] = "renice"]
    /\ UNCHANGED <<nodeVars, nice, req, answer, by>>

\* crictl inspect, then jq .info.pid on what it said; crictl has no timeout.
Inspect(h) ==
    /\ pc[h] = "inspect" /\ ~hung
    /\ pid' = [pid EXCEPT ![h] = PidOf(req[h].container)]
    /\ pc' = [pc EXCEPT ![h] = "renice"]
    /\ UNCHANGED <<nodeVars, nice, req, answer, by>>

\* renice finds a process with that PID, whichever it is.
Apply(h) ==
    /\ pc[h] = "renice"
    /\ pid[h] \in Pids /\ proc[pid[h]] # Nobody
    /\ nice' = [nice EXCEPT ![pid[h]] = req[h].nice]
    /\ by' = [by EXCEPT ![pid[h]] = req[h].container]
    /\ Reply(h, "ok")
    /\ UNCHANGED <<nodeVars, req, pid>>

\* The container is not running: renice -p 0 succeeds and changes nothing.
ApplyToNone(h) ==
    /\ pc[h] = "renice" /\ pid[h] = NoPid
    /\ Reply(h, "ok")
    /\ UNCHANGED <<nodeVars, nice, req, pid, by>>

\* The process is gone: renice fails.
ApplyToGone(h) ==
    /\ pc[h] = "renice"
    /\ pid[h] \in Pids /\ proc[pid[h]] = Nobody
    /\ Reply(h, "failed")
    /\ UNCHANGED <<nodeVars, nice, req, pid, by>>

\* crictl, jq or renice fails for another reason.
Fail(h) ==
    /\ pc[h] # "idle"
    /\ pc[h] = "inspect" => ~hung
    /\ Reply(h, "failed")
    /\ UNCHANGED <<nodeVars, nice, req, pid, by>>

\* The daemon is killed and started again.
Crash ==
    /\ \E h \in Handlers : pc[h] # "idle"
    /\ pc' = [h \in Handlers |-> "idle"]
    /\ answer' = [h \in Handlers |-> IF pc[h] = "idle" THEN answer[h] ELSE "lost"]
    /\ UNCHANGED <<nodeVars, nice, req, pid, by>>

Node ==
    \/ \E c \in Containers : StartContainer(c)
    \/ StartOther
    \/ \E p \in Pids : Exit(p)
    \/ Hang

Handle(h) == Inspect(h) \/ Apply(h) \/ ApplyToNone(h) \/ ApplyToGone(h)

Next ==
    \/ Node
    \/ Crash
    \/ \E h \in Handlers : Receive(h) \/ Handle(h) \/ Fail(h)

Spec == Init /\ [][Next]_vars

\* A handler runs on, unless it waits for a runtime that hangs.  Nothing is assumed of failures.
Fairness == \A h \in Handlers : WF_vars(Handle(h))

FairSpec == Spec /\ Fairness

--------------------------------------------------------------------------------
(***************************************************************************)
(* Properties.                                                             *)
(***************************************************************************)

\* A process has the niceness that was asked for its own container, or else for a container that
\* has exited: only the reuse of a PID between crictl and renice makes a request hit another one's
\* process, never the handler of another container that runs at the same time.
OnlyExitedHitsOthers ==
    \A p \in Pids : by[p] # Nobody => by[p] = proc[p] \/ Exited(by[p])

\* A request is answered, also one for a container that does not run, however often the runtime has
\* hung before, if only it stays up in the end: crictl is run without a timeout, and waits.
RequestsEnd ==
    <>[](~hung) => \A h \in Handlers : pc[h] = "inspect" ~> pc[h] = "idle"

--------------------------------------------------------------------------------
(***************************************************************************)
(* Why: an inductive invariant.                                            *)
(***************************************************************************)

\* A container has one process, and none before it is started.
OwnersInv ==
    /\ \A p, q \in Pids : proc[p] = proc[q] /\ proc[p] \in Containers => p = q
    /\ \A p \in Pids : proc[p] \in Containers => proc[p] \in started

\* The PID that a handler holds is that of its container's process, or that was it.
PidInv(h) ==
    pc[h] = "renice" /\ pid[h] # NoPid =>
        proc[pid[h]] = req[h].container \/ Exited(req[h].container)

IInv ==
    /\ TypeOK
    /\ OwnersInv
    /\ \A h \in Handlers : PidInv(h)
    /\ OnlyExitedHitsOthers
================================================================================
