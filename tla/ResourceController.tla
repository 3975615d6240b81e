-------------------------- MODULE ResourceController --------------------------
(***************************************************************************)
(* The node's resource controller, src/resource/main.go: an HTTP daemon    *)
(* whose POST /cgroup handlers set the real-time period, runtime and CPU   *)
(* set of one container and of its pod.  The HTTP server runs a goroutine  *)
(* per request and takes no lock, so the steps of several handlers         *)
(* interleave; one step here is one read or write of a cgroup file.        *)
(*                                                                         *)
(* A handler validates the request, does the preflight checks, reads the   *)
(* pod's values, decides from them alone whether to write the container    *)
(* before the pod ("lower") and, group by group, in which order to write   *)
(* the files, and then writes them; the kernel may refuse any write, and   *)
(* a refusal ends the request with what was written before left in place.  *)
(***************************************************************************)
EXTENDS CgroupBandwidth

CONSTANTS
    Handlers,       \* the requests that may be in progress at a time
    Requests,       \* Requests[h]: the requests that handler h may receive
    DefaultPeriod,  \* the period of a fresh group
    RootPeriod,     \* cpu.rt_period_us of kubepods.slice; 0: not limiting
    SysPeriod,      \* /proc/sys/kernel/sched_rt_period_us
    SysRuntime,     \* /proc/sys/kernel/sched_rt_runtime_us
    Faults,         \* whether crictl, a read or a write may fail
    MayCrash        \* whether the daemon may be killed and restarted

CgroupRequest == [container : Containers, period : Int, runtime : Int,
                  core : Dims, only : BOOLEAN]

ASSUME ControllerAssumption ==
    /\ Requests \in [Handlers -> SUBSET CgroupRequest]
    /\ DefaultPeriod \in Nat \ {0}
    /\ RootPeriod \in Nat
    /\ SysPeriod \in Int
    /\ SysRuntime \in Int
    /\ Faults \in BOOLEAN
    /\ MayCrash \in BOOLEAN

VARIABLES
    cg,      \* cg[g]: the kernel's record of group g; survives the daemon
    pc,      \* pc[h]: the next step of handler h
    req,     \* req[h]: the request handler h serves, or served last
    lower,   \* lower[h]: a "decrease": container first, runtime before period
    second,  \* second[h]: the handler is at the second of the two groups
    blind,   \* blind[h]: the pod's per-core runtime was not read, 0 stands for it
    answer   \* answer[h]: the reply to the last request of h

vars == <<cg, pc, req, lower, second, blind, answer>>

\* The files that writeRtValues and writeRuntimeOnly write in a group.
Files == {"period", "runtime", "cpuset"}
Steps == {"idle", "inspect", "readPeriod", "readRuntime", "readCore"} \cup Files

\* "refused" and "failed" are both the HTTP 500 of the code: the kernel turned
\* a write down, or something else went wrong.  "lost": no reply was sent.
Answers == {"none", "ok", "bad", "refused", "failed", "lost"}

NoRequest == [container |-> Pod]

\* The checks of handleCgroup on the request itself.
Valid(r) == r.period > 0 /\ r.runtime <= r.period

TypeOK ==
    /\ cg \in [Groups -> Group]
    /\ pc \in [Handlers -> Steps]
    /\ req \in [Handlers -> CgroupRequest \cup {NoRequest}]
    /\ lower \in [Handlers -> BOOLEAN]
    /\ second \in [Handlers -> BOOLEAN]
    /\ blind \in [Handlers -> BOOLEAN]
    /\ answer \in [Handlers -> Answers]
    /\ \A h \in Handlers :
          pc[h] # "idle" \/ answer[h] \in {"ok", "refused"}
              => req[h] \in Requests[h] /\ Valid(req[h])

FreshGroup == [period  |-> DefaultPeriod,
               runtime |-> [d \in Dims |-> 0],
               cpus    |-> AnyCore]

Init ==
    /\ cg = [g \in Groups |-> FreshGroup]
    /\ pc = [h \in Handlers |-> "idle"]
    /\ req = [h \in Handlers |-> NoRequest]
    /\ lower = [h \in Handlers |-> FALSE]
    /\ second = [h \in Handlers |-> FALSE]
    /\ blind = [h \in Handlers |-> FALSE]
    /\ answer = [h \in Handlers |-> "none"]

--------------------------------------------------------------------------------
(***************************************************************************)
(* Decisions.                                                              *)
(***************************************************************************)

\* The preflight checks of applyCgroup.
Admissible(r) ==
    /\ SysRuntime >= 0
    /\ SysPeriod > 0
    /\ RootPeriod # 0 => r.period <= RootPeriod

\* isRuntimeDecrease: a negative runtime is unlimited.
IsRuntimeDecrease(old, new) == new >= 0 /\ (old < 0 \/ new < old)

\* The runtime to be written: normal mode turns a negative one into 0
\* (writeRtValues), escalation passes it on (writeRuntimeOnly).
WrittenRuntime(r) == IF ~r.only /\ r.runtime < 0 THEN 0 ELSE r.runtime

\* What a reader of the runtime file finds once the request is applied.
GrantedRuntime(r) == StoredRuntime(WrittenRuntime(r))

\* Faulty variant of Target: the pod first even when decreasing.
TargetPodFirst(h) == IF second[h] THEN req[h].container ELSE Pod

\* The group that handler h is writing, and the files it writes in it, in order.
Target(h) == IF lower[h] # second[h] THEN req[h].container ELSE Pod

FirstFile(r, low) == IF r.only \/ low THEN "runtime" ELSE "period"

\* Faulty variant of NextFile: the decreasing branch forgets the CPU set.
NextFileNoCpuset(r, low, file) ==
    IF r.only THEN "done"
    ELSE IF file = FirstFile(r, low) THEN (IF low THEN "period" ELSE "runtime")
    ELSE IF file = "runtime" /\ r.core # AnyCore THEN "cpuset"
    ELSE "done"

NextFile(r, low, file) ==
    IF r.only THEN "done"
    ELSE IF file = FirstFile(r, low) THEN (IF low THEN "period" ELSE "runtime")
    ELSE IF file # "cpuset" /\ r.core # AnyCore THEN "cpuset"
    ELSE "done"

--------------------------------------------------------------------------------
(***************************************************************************)
(* Steps of a handler.                                                     *)
(***************************************************************************)

\* Handler h ends its request with the given reply.
Reply(h, a) ==
    /\ pc' = [pc EXCEPT ![h] = "idle"]
    /\ answer' = [answer EXCEPT ![h] = a]
    /\ UNCHANGED second

\* Faulty variant of Receive: the request is not validated.
ReceiveUnchecked(h) ==
    /\ pc[h] = "idle"
    /\ \E r \in Requests[h] : req' = [req EXCEPT ![h] = r]
    /\ pc' = [pc EXCEPT ![h] = "inspect"]
    /\ answer' = [answer EXCEPT ![h] = "none"]
    /\ lower' = [lower EXCEPT ![h] = FALSE]
    /\ second' = [second EXCEPT ![h] = FALSE]
    /\ blind' = [blind EXCEPT ![h] = FALSE]
    /\ UNCHANGED cg

\* A request arrives; one that is not valid is turned down on the spot.
Receive(h) ==
    /\ pc[h] = "idle"
    /\ \E r \in Requests[h] :
        /\ req' = [req EXCEPT ![h] = r]
        /\ pc' = [pc EXCEPT ![h] = IF Valid(r) THEN "inspect" ELSE "idle"]
        /\ answer' = [answer EXCEPT ![h] = IF Valid(r) THEN "none" ELSE "bad"]
    /\ lower' = [lower EXCEPT ![h] = FALSE]
    /\ second' = [second EXCEPT ![h] = FALSE]
    /\ blind' = [blind EXCEPT ![h] = FALSE]
    /\ UNCHANGED cg

\* crictl inspect gives the paths of the groups; then the preflight checks.
Preflight(h) ==
    /\ pc[h] = "inspect"
    /\ IF Admissible(req[h])
       THEN /\ pc' = [pc EXCEPT ![h] = "readPeriod"]
            /\ UNCHANGED <<second, answer>>
       ELSE Reply(h, "failed")
    /\ UNCHANGED <<cg, req, lower, blind>>

\* readRtValues reads the pod's two files one after the other.
ReadPeriod(h) ==
    /\ pc[h] = "readPeriod"
    /\ lower' = [lower EXCEPT ![h] = ~req[h].only /\ req[h].period < cg[Pod].period]
    /\ pc' = [pc EXCEPT ![h] = "readRuntime"]
    /\ UNCHANGED <<cg, req, second, blind, answer>>

\* The global runtime counts in normal mode, and in escalation without a core.
ReadRuntime(h) ==
    LET r == req[h]
        low == \/ lower[h]
               \/ /\ ~r.only \/ r.core = AnyCore
                  /\ IsRuntimeDecrease(cg[Pod].runtime[AnyCore], r.runtime)
    IN  /\ pc[h] = "readRuntime"
        /\ lower' = [lower EXCEPT ![h] = low]
        /\ pc' = [pc EXCEPT ![h] = IF r.core = AnyCore THEN FirstFile(r, low)
                                                       ELSE "readCore"]
        /\ UNCHANGED <<cg, req, second, blind, answer>>

\* Faulty variants of ReadCore: the container's value decides instead of the
\* pod's; the per-core value is not used at all.
ReadCoreOfContainer(h) ==
    LET r == req[h]
        low == lower[h] \/ IsRuntimeDecrease(cg[r.container].runtime[r.core], r.runtime)
    IN  /\ pc[h] = "readCore"
        /\ lower' = [lower EXCEPT ![h] = low]
        /\ pc' = [pc EXCEPT ![h] = FirstFile(r, low)]
        /\ UNCHANGED <<cg, req, second, blind, answer>>

ReadCoreUnused(h) ==
    /\ pc[h] = "readCore"
    /\ pc' = [pc EXCEPT ![h] = FirstFile(req[h], lower[h])]
    /\ UNCHANGED <<cg, req, lower, second, blind, answer>>

\* getCurrentMultiRuntime: a file that cannot be read counts as runtime 0.
ReadCore(h) ==
    LET r == req[h]
    IN  /\ pc[h] = "readCore"
        /\ \E unread \in {FALSE, Faults} :
             LET old == IF unread THEN 0 ELSE cg[Pod].runtime[r.core]
                 low == lower[h] \/ IsRuntimeDecrease(old, r.runtime)
             IN  /\ lower' = [lower EXCEPT ![h] = low]
                 /\ blind' = [blind EXCEPT ![h] = unread]
                 /\ pc' = [pc EXCEPT ![h] = FirstFile(r, low)]
        /\ UNCHANGED <<cg, req, second, answer>>

\* Faulty variant of Advance: the reply is sent after the first group.
AdvanceEarly(h) ==
    LET next == NextFile(req[h], lower[h], pc[h])
    IN  \/ /\ next # "done"
           /\ pc' = [pc EXCEPT ![h] = next]
           /\ UNCHANGED <<second, answer>>
        \/ next = "done" /\ Reply(h, "ok")

\* After a file: the next file of this group, the second group, or the reply.
Advance(h) ==
    LET next == NextFile(req[h], lower[h], pc[h])
    IN  \/ /\ next # "done"
           /\ pc' = [pc EXCEPT ![h] = next]
           /\ UNCHANGED <<second, answer>>
        \/ /\ next = "done" /\ ~second[h]
           /\ pc' = [pc EXCEPT ![h] = FirstFile(req[h], lower[h])]
           /\ second' = [second EXCEPT ![h] = TRUE]
           /\ UNCHANGED answer
        \/ /\ next = "done" /\ second[h]
           /\ Reply(h, "ok")

\* Faulty variants of Write: a refusal is only logged, at either group or at the
\* first one.
WriteUnchecked(h, new) ==
    /\ cg' = IF Schedulable(new) THEN new ELSE cg
    /\ Advance(h)

WriteFirstUnchecked(h, new) ==
    \/ Schedulable(new) /\ cg' = new /\ Advance(h)
    \/ ~Schedulable(new) /\ ~second[h] /\ UNCHANGED cg /\ Advance(h)
    \/ ~Schedulable(new) /\ second[h] /\ UNCHANGED cg /\ Reply(h, "refused")

\* The kernel accepts the write that leads to the groups `new`, or refuses it;
\* a refusal ends the request and undoes nothing.
Write(h, new) ==
    \/ Schedulable(new) /\ cg' = new /\ Advance(h)
    \/ ~Schedulable(new) /\ UNCHANGED cg /\ Reply(h, "refused")

WriteRuntime(h) ==
    /\ pc[h] = "runtime"
    /\ Write(h, SetRuntime(cg, Target(h), req[h].core, WrittenRuntime(req[h])))
    /\ UNCHANGED <<req, lower, blind>>

\* The code skips the write when the file holds the period already; to write
\* it again would be accepted and change nothing.
WritePeriod(h) ==
    /\ pc[h] = "period"
    /\ Write(h, SetPeriod(cg, Target(h), req[h].period))
    /\ UNCHANGED <<req, lower, blind>>

WriteCpuset(h) ==
    /\ pc[h] = "cpuset"
    /\ cg' = SetCpus(cg, Target(h), req[h].core)
    /\ Advance(h)
    /\ UNCHANGED <<req, lower, blind>>

\* crictl or jq fails, a file cannot be read, or a write fails for a reason
\* that is not the admission rule (EBUSY).  Only getCurrentMultiRuntime, the
\* step "readCore", does not report an error.
Fault(h) ==
    /\ Faults
    /\ pc[h] \notin {"idle", "readCore"}
    /\ Reply(h, "failed")
    /\ UNCHANGED <<cg, req, lower, blind>>

\* The daemon dies and is restarted by systemd or the DaemonSet: the requests
\* in progress get no reply, the kernel's groups stay as they are.
Crash ==
    /\ MayCrash
    /\ \E h \in Handlers : pc[h] # "idle"
    /\ pc' = [h \in Handlers |-> "idle"]
    /\ answer' = [h \in Handlers |-> IF pc[h] = "idle" THEN answer[h] ELSE "lost"]
    /\ UNCHANGED <<cg, req, lower, second, blind>>

Handle(h) ==
    \/ Receive(h) \/ Preflight(h)
    \/ ReadPeriod(h) \/ ReadRuntime(h) \/ ReadCore(h)
    \/ WriteRuntime(h) \/ WritePeriod(h) \/ WriteCpuset(h)
    \/ Fault(h)

Next == Crash \/ \E h \in Handlers : Handle(h)

Spec == Init /\ [][Next]_vars

--------------------------------------------------------------------------------
(***************************************************************************)
(* Properties.                                                             *)
(***************************************************************************)

\* What request r asks of the groups it names, pod and container.
InForce(r) ==
    \A g \in {Pod, r.container} :
        /\ cg[g].runtime[r.core] = GrantedRuntime(r)
        /\ ~r.only => /\ cg[g].period = r.period
                      /\ r.core # AnyCore => cg[g].cpus = r.core

\* The utilization that request r asks for, were its period that of the groups.
Utilization(r) ==
    IF GrantedRuntime(r) < 0 THEN BwUnit
                             ELSE (GrantedRuntime(r) * BwUnit) \div r.period

OverBudget(r) == Utilization(r) > Budget

\* Once every request has been answered with "applied successfully" (the 200 of
\* handleCgroup), the settings of at least one of them are in force on both of
\* its groups: the requests took effect as if one after the other.
OkMeansInForce ==
    (\A h \in Handlers : pc[h] = "idle" /\ answer[h] = "ok")
        => \E h \in Handlers : InForce(req[h])

\* The same for requests that own their core: an answer "ok" means that the pod
\* and the container hold the requested runtime for that core, whatever crashed
\* half-way before and whatever the handlers of other cores did meanwhile.
OkMeansReserved ==
    \A h \in Handlers :
        pc[h] = "idle" /\ answer[h] = "ok"
            => \A g \in {Pod, req[h].container} :
                   cg[g].runtime[req[h].core] = GrantedRuntime(req[h])

\* The circumstances under which applyCgroup's choice of the write order can
\* fail: it compares periods and runtimes one by one though the kernel compares
\* their ratios; its global flag decides for a request about one core; a
\* negative runtime, which it takes for an increase, is written as 0; and the
\* pod is to hold what the container asks for, not the sum over its containers.
OrderMayFail(r) ==
    \/ \E g \in {Pod, r.container} : cg[g].period # r.period
    \/ ~r.only /\ r.core # AnyCore
               /\ IsRuntimeDecrease(cg[Pod].runtime[AnyCore], r.runtime)
    \/ ~r.only /\ r.runtime < 0
    \/ \E c \in Containers \ {r.container} : Share(cg[c], r.core) > 0

\* With one request at a time, the kernel refuses a request only if it asks for
\* more than the pod may have, or in the circumstances just listed, or when the
\* per-core runtime could not be read (getCurrentMultiRuntime then says 0).
RefusalExplained ==
    \A h \in Handlers :
        pc[h] = "idle" /\ answer[h] = "refused" /\ ~blind[h]
            => OverBudget(req[h]) \/ OrderMayFail(req[h])

\* The pod is given the runtime of one container: an answer "ok" means that no other
\* container of the pod holds a share of that core (or of the global runtime), so that
\* two containers of a pod are never both served on one core.
OkMeansExclusive ==
    \A h \in Handlers :
        LET r == req[h]
        IN  pc[h] = "idle" /\ answer[h] = "ok" /\ cg[Pod].period = cg[r.container].period
                => \A c \in Containers \ {r.container} : Share(cg[c], r.core) = 0

\* The requests that the write order of applyCgroup is right for: one period
\* for everyone, no negative runtime, one handler and one container per core,
\* and no global runtimes beside normal requests about one core.
Disciplined ==
    /\ \A h \in Handlers : \A r \in Requests[h] :
          /\ r.runtime >= 0
          /\ r.period = DefaultPeriod
    /\ \A h, i \in Handlers : h # i =>
          \A r \in Requests[h], s \in Requests[i] : r.core # s.core
    /\ \A h, i \in Handlers : \A r \in Requests[h], s \in Requests[i] :
          /\ r.core = AnyCore => s.core = AnyCore \/ s.only
          /\ r.core = s.core => r.container = s.container

\* Of disciplined requests the kernel refuses those and only those that exceed
\* the pod's budget: for no interleaving of handlers, and in no half-written
\* state that a crash left, does the order "child first when decreasing, parent
\* first when increasing" run into the kernel's rule.
RefusedOnlyOverBudget ==
    \A h \in Handlers :
        answer[h] = "refused" /\ ~blind[h] => OverBudget(req[h])

\* And a refusal comes before anything was changed: no error leaves the first
\* group rewritten and the second one as it was.
RefusalIsClean ==
    \A h \in Handlers :
        answer[h] = "refused" => ~second[h]

\* A request that asks for more than the pod holds writes the pod first: "When
\* increasing, write pod (parent) first, then container (child)".
IncreaseWritesPodFirst ==
    \A h \in Handlers :
        /\ pc[h] \in Files /\ ~second[h]
        /\ Utilization(req[h]) > Share(cg[Pod], req[h].core)
        => Target(h) = Pod

\* An accepted request for the unlimited runtime ("negative means unlimited")
\* leaves the container unlimited.
NegativeMeansUnlimited ==
    \A h \in Handlers :
        pc[h] = "idle" /\ answer[h] = "ok" /\ req[h].runtime < 0
            => cg[req[h].container].runtime[req[h].core] < 0

--------------------------------------------------------------------------------
(***************************************************************************)
(* Why disciplined requests are safe: an inductive invariant.  No handler  *)
(* needs to know how the groups came to be as they are, only that nobody   *)
(* else touches its core between its reading the pod and its last write.   *)
(***************************************************************************)

\* Handler h has written the runtime of the group it is at.
RuntimeDone(h) == pc[h] = "cpuset" \/ (pc[h] = "period" /\ lower[h])

\* The group of the pair that handler h is not writing now.
Other(h) == IF lower[h] # second[h] THEN Pod ELSE req[h].container

\* A container holds something on a core only if some request is about the two.
OwnersOnly ==
    \A c \in Containers, d \in Dims :
        cg[c].runtime[d] > 0
            => \E h \in Handlers : \E r \in Requests[h] : r.container = c /\ r.core = d

\* Everyone has the one period; runtimes are not negative; the kernel's rule.
GroupsInv ==
    /\ Schedulable(cg)
    /\ \A g \in Groups : /\ cg[g].period = DefaultPeriod
                         /\ \A d \in Dims : cg[g].runtime[d] >= 0
    /\ (\E h \in Handlers : \E r \in Requests[h] : ~r.only /\ r.core # AnyCore)
           => cg[Pod].runtime[AnyCore] = 0
    /\ OwnersOnly

\* The handler has read, decided nothing yet, and what it reads it can use.
ReadingInv(h) ==
    /\ pc[h] # "idle" => answer[h] = "none"
    /\ pc[h] \in {"inspect", "readPeriod", "readRuntime", "readCore"}
          => ~lower[h] /\ ~second[h] /\ ~blind[h]
    /\ pc[h] \in {"readCore", "cpuset"} => req[h].core # AnyCore
    /\ pc[h] \in {"period", "cpuset"} => ~req[h].only

\* The order it chose is still right, and what it wrote is still there.
WritingInv(h) ==
    LET r == req[h]
    IN  pc[h] \in Files =>
          /\ lower[h] => r.runtime <= cg[Pod].runtime[r.core]
          /\ ~lower[h] /\ ~blind[h] => cg[Pod].runtime[r.core] <= r.runtime
          /\ second[h] => cg[Other(h)].runtime[r.core] = r.runtime
          /\ RuntimeDone(h) => cg[Target(h)].runtime[r.core] = r.runtime

IInv ==
    /\ TypeOK
    /\ GroupsInv
    /\ \A h \in Handlers : ReadingInv(h) /\ WritingInv(h)
    /\ OkMeansReserved
    /\ RefusedOnlyOverBudget
    /\ RefusalIsClean
================================================================================
