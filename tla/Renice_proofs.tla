----------------------------- MODULE Renice_proofs -----------------------------
(***************************************************************************)
(* Proofs about POST /renice: for any number of handlers, containers and   *)
(* PIDs, and with the daemon killed at any time, the only way to give a    *)
(* niceness to another one's process is a container that exits between     *)
(* crictl and renice.                                                      *)
(***************************************************************************)
EXTENDS Renice, TLAPS

\* What crictl says of a container is its process, if it runs.
LEMMA PidOfIsProcess ==
    ASSUME NEW c
    PROVE  /\ PidOf(c) \in Pids \cup {NoPid}
           /\ PidOf(c) # NoPid => PidOf(c) \in Pids /\ proc[PidOf(c)] = c
<1>1. CASE Runs(c)
  <2>1. \E p \in Pids : proc[p] = c
      BY <1>1 DEF Runs
  <2> QED
      BY <1>1, <2>1, ReniceAssumption DEF PidOf
<1>2. CASE ~Runs(c)
    BY <1>2 DEF PidOf
<1> QED
    BY <1>1, <1>2

\* The invariant in the initial states.
LEMMA InitInvariant == Init => IInv
<1> SUFFICES ASSUME Init
             PROVE  IInv
    OBVIOUS
<1>1. TypeOK
    BY DEF Init, TypeOK
<1>2. OwnersInv
    BY ReniceAssumption DEF Init, OwnersInv
<1>3. OnlyExitedHitsOthers /\ \A h \in Handlers : PidInv(h)
    BY DEF Init, OnlyExitedHitsOthers, PidInv
<1> QED
    BY <1>1, <1>2, <1>3 DEF IInv

\* Steps of the node: a container that has exited does not come back, and a process that
\* a handler knows can only exit.
LEMMA NodeInvariant ==
    ASSUME IInv, Node
    PROVE  IInv'
<1> DEFINE Gone(c) == c \in started' /\ \A r \in Pids : proc'[r] # c
<1>1. ASSUME NEW owner \in Containers \cup {Other}, Spawn(owner),
             owner \in Containers => owner \notin started /\ started' = started \cup {owner},
             owner = Other => started' = started,
             UNCHANGED <<hung, nice, pc, req, pid, answer, by>>
      PROVE  IInv'
  <2>1. PICK p \in Pids : proc[p] = Nobody /\ proc' = [proc EXCEPT ![p] = owner]
      BY <1>1 DEF Spawn
  <2>2. /\ TypeOK /\ OwnersInv /\ OnlyExitedHitsOthers
        /\ \A h \in Handlers : PidInv(h)
      BY DEF IInv
  <2>3. /\ proc'[p] = owner /\ \A q \in Pids : q # p => proc'[q] = proc[q]
        /\ started \subseteq started'
      BY <1>1, <2>1, <2>2 DEF TypeOK
  <2>4. TypeOK'
    <3>1. proc' \in [Pids -> Containers \cup {Other, Nobody}] /\ started' \subseteq Containers
        BY <1>1, <2>1, <2>2 DEF TypeOK
    <3> QED
        BY <1>1, <2>2, <3>1 DEF TypeOK
  <2>5. OwnersInv'
      BY <1>1, <2>1, <2>2, <2>3, ReniceAssumption DEF OwnersInv
  <2>6. ASSUME NEW c \in Containers, Exited(c)
        PROVE  Gone(c)
    <3>1. c # owner
        BY <1>1, <2>6, ReniceAssumption DEF Exited
    <3> QED
        BY <2>3, <2>6, <3>1 DEF Exited, Runs
  <2>7. ASSUME NEW h \in Handlers
        PROVE  PidInv(h)'
    <3>1. ASSUME pc[h] = "renice", pid[h] # NoPid
          PROVE  proc'[pid[h]] = req[h].container \/ Gone(req[h].container)
      <4>1. req[h].container \in Containers /\ pid[h] \in Pids
          BY <2>2, <3>1 DEF TypeOK, ReniceRequest
      <4>2. CASE proc[pid[h]] = req[h].container
          BY <2>1, <2>3, <4>1, <4>2, ReniceAssumption
      <4>3. CASE Exited(req[h].container)
          BY <2>6, <4>1, <4>3
      <4> QED
          BY <2>2, <3>1, <4>2, <4>3 DEF PidInv
    <3> QED
        BY <1>1, <3>1 DEF PidInv, Exited, Runs
  <2>8. OnlyExitedHitsOthers'
    <3> SUFFICES ASSUME NEW q \in Pids, by[q] # Nobody
                 PROVE  by[q] = proc'[q] \/ Gone(by[q])
        BY <1>1 DEF OnlyExitedHitsOthers, Exited, Runs
    <3>1. by[q] \in Containers
        BY <2>2 DEF TypeOK
    <3>2. CASE by[q] = proc[q]
        BY <2>1, <2>3, <3>1, <3>2, ReniceAssumption
    <3>3. CASE Exited(by[q])
        BY <2>6, <3>1, <3>3
    <3> QED
        BY <2>2, <3>2, <3>3 DEF OnlyExitedHitsOthers
  <2> QED
      BY <2>4, <2>5, <2>7, <2>8 DEF IInv
<1>2. ASSUME NEW p \in Pids, Exit(p)
      PROVE  IInv'
  <2>1. /\ TypeOK /\ OwnersInv /\ OnlyExitedHitsOthers
        /\ \A h \in Handlers : PidInv(h)
        /\ UNCHANGED <<started, hung, pc, req, pid, answer>>
      BY <1>2 DEF IInv, Exit
  <2>2. /\ proc[p] # Nobody /\ proc'[p] = Nobody /\ by'[p] = Nobody
        /\ \A q \in Pids : q # p => proc'[q] = proc[q] /\ by'[q] = by[q]
      BY <1>2, <2>1 DEF Exit, TypeOK
  <2>3. TypeOK'
      BY <1>2, <2>1 DEF Exit, TypeOK
  <2>4. OwnersInv'
      BY <2>1, <2>2, ReniceAssumption DEF OwnersInv
  <2>5. ASSUME NEW c \in Containers, Exited(c)
        PROVE  Gone(c)
      BY <2>1, <2>2, <2>5, ReniceAssumption DEF Exited, Runs
  <2>6. ASSUME NEW c \in Containers, NEW q \in Pids, proc[q] = c
        PROVE  proc'[q] = c \/ Gone(c)
    <3>1. CASE q # p
        BY <2>2, <2>6, <3>1
    <3>2. CASE q = p
      <4>1. c \in started' /\ \A r \in Pids : r # p => proc[r] # c
          BY <2>1, <2>6, <3>2 DEF OwnersInv
      <4> QED
          BY <2>2, <4>1, ReniceAssumption DEF Exited, Runs
    <3> QED
        BY <3>1, <3>2
  <2>7. ASSUME NEW h \in Handlers
        PROVE  PidInv(h)'
    <3>1. ASSUME pc[h] = "renice", pid[h] # NoPid
          PROVE  proc'[pid[h]] = req[h].container \/ Gone(req[h].container)
      <4>1. req[h].container \in Containers /\ pid[h] \in Pids
          BY <2>1, <3>1 DEF TypeOK, ReniceRequest
      <4> QED
          BY <2>1, <2>5, <2>6, <3>1, <4>1 DEF PidInv
    <3> QED
        BY <2>1, <3>1 DEF PidInv, Exited, Runs
  <2>8. OnlyExitedHitsOthers'
    <3> SUFFICES ASSUME NEW q \in Pids, by'[q] # Nobody
                 PROVE  by'[q] = proc'[q] \/ Gone(by'[q])
        BY DEF OnlyExitedHitsOthers, Exited, Runs
    <3>1. q # p /\ by'[q] = by[q] /\ by[q] \in Containers /\ proc'[q] = proc[q]
        BY <2>1, <2>2 DEF TypeOK
    <3>2. by[q] = proc[q] \/ Exited(by[q])
        BY <2>1, <3>1 DEF OnlyExitedHitsOthers
    <3>3. CASE Exited(by[q])
        BY <2>5, <3>1, <3>3
    <3> QED
        BY <3>1, <3>2, <3>3
  <2> QED
      BY <2>3, <2>4, <2>7, <2>8 DEF IInv
<1>3. CASE Hang
    BY <1>3 DEF Hang, IInv, TypeOK, OwnersInv, PidInv, OnlyExitedHitsOthers, Exited, Runs
<1>4. ASSUME NEW c \in Containers, StartContainer(c)
      PROVE  IInv'
    BY <1>1, <1>4, ReniceAssumption DEF StartContainer
<1>5. CASE StartOther
    BY <1>1, <1>5, ReniceAssumption DEF StartOther
<1> QED
    BY <1>2, <1>3, <1>4, <1>5 DEF Node

\* Steps of a handler.
LEMMA HandlerInvariant ==
    ASSUME IInv, NEW h \in Handlers, Receive(h) \/ Handle(h) \/ Fail(h)
    PROVE  IInv'
<1>1. /\ TypeOK /\ OwnersInv /\ OnlyExitedHitsOthers
      /\ \A i \in Handlers : PidInv(i)
      /\ UNCHANGED nodeVars
    BY DEF IInv, Receive, Handle, Inspect, Apply, ApplyToNone, ApplyToGone, Fail
<1>2. OwnersInv'
    BY <1>1 DEF OwnersInv, nodeVars
<1>3. \A c : Exited(c)' <=> Exited(c)
    BY <1>1 DEF Exited, Runs, nodeVars
<1>4. CASE Receive(h)
  <2>1. PICK r \in ReniceRequest : req' = [req EXCEPT ![h] = r]
      BY <1>4 DEF Receive
  <2>2. TypeOK'
      BY <1>1, <1>4, <2>1 DEF Receive, TypeOK, nodeVars
  <2>3. \A i \in Handlers : PidInv(i)'
      BY <1>1, <1>4, <2>1 DEF Receive, PidInv, TypeOK, nodeVars, Exited, Runs
  <2>4. OnlyExitedHitsOthers'
      BY <1>1, <1>4 DEF Receive, OnlyExitedHitsOthers, nodeVars, Exited, Runs
  <2> QED
      BY <1>2, <2>2, <2>3, <2>4 DEF IInv
<1>5. CASE Inspect(h)
  <2>1. pid'[h] = PidOf(req[h].container) /\ pid' \in [Handlers -> Pids \cup {NoPid}]
      BY <1>1, <1>5, PidOfIsProcess DEF Inspect, TypeOK
  <2>2. TypeOK'
      BY <1>1, <1>5, <2>1 DEF Inspect, TypeOK, nodeVars
  <2>3. PidInv(h)'
      BY <1>1, <1>5, <2>1, PidOfIsProcess DEF Inspect, PidInv, nodeVars
  <2>4. \A i \in Handlers : i # h => PidInv(i)'
      BY <1>1, <1>5 DEF Inspect, PidInv, TypeOK, nodeVars, Exited, Runs
  <2>5. OnlyExitedHitsOthers'
      BY <1>1, <1>5 DEF Inspect, OnlyExitedHitsOthers, nodeVars, Exited, Runs
  <2> QED
      BY <1>2, <2>2, <2>3, <2>4, <2>5 DEF IInv
<1>6. CASE Apply(h)
  <2>1. pc[h] = "renice" /\ pid[h] \in Pids /\ req[h] \in ReniceRequest
      BY <1>1, <1>6 DEF Apply, TypeOK
  <2>2. req[h].container \in Containers /\ req[h].nice \in Nices
      BY <2>1 DEF ReniceRequest
  <2>3. TypeOK'
      BY <1>1, <1>6, <2>1, <2>2 DEF Apply, Reply, TypeOK, nodeVars
  <2>4. \A i \in Handlers : PidInv(i)'
      BY <1>1, <1>6 DEF Apply, Reply, PidInv, TypeOK, nodeVars, Exited, Runs
  <2>5. OnlyExitedHitsOthers'
    <3> SUFFICES ASSUME NEW q \in Pids, by'[q] # Nobody
                 PROVE  by'[q] = proc[q] \/ Exited(by'[q])
        BY <1>1, <1>3 DEF OnlyExitedHitsOthers, nodeVars, Exited, Runs
    <3>1. CASE q = pid[h]
      <4>1. by'[q] = req[h].container
          BY <1>1, <1>6, <2>1, <3>1 DEF Apply, TypeOK
      <4>2. proc[q] = req[h].container \/ Exited(req[h].container)
          BY <1>1, <2>1, <3>1, ReniceAssumption DEF PidInv
      <4> QED
          BY <4>1, <4>2
    <3>2. CASE q # pid[h]
      <4>1. by'[q] = by[q]
          BY <1>1, <1>6, <3>2 DEF Apply, TypeOK
      <4> QED
          BY <1>1, <4>1 DEF OnlyExitedHitsOthers
    <3> QED
        BY <3>1, <3>2
  <2> QED
      BY <1>2, <2>3, <2>4, <2>5 DEF IInv
<1>7. CASE ApplyToNone(h) \/ ApplyToGone(h) \/ Fail(h)
  <2>1. /\ pc' = [pc EXCEPT ![h] = "idle"]
        /\ \E a \in {"ok", "failed"} : answer' = [answer EXCEPT ![h] = a]
        /\ UNCHANGED <<nice, req, pid, by>>
      BY <1>7 DEF ApplyToNone, ApplyToGone, Fail, Reply
  <2>2. TypeOK'
      BY <1>1, <2>1 DEF TypeOK, nodeVars
  <2>3. \A i \in Handlers : PidInv(i)'
      BY <1>1, <2>1 DEF PidInv, TypeOK, nodeVars, Exited, Runs
  <2>4. OnlyExitedHitsOthers'
      BY <1>1, <2>1 DEF OnlyExitedHitsOthers, nodeVars, Exited, Runs
  <2> QED
      BY <1>2, <2>2, <2>3, <2>4 DEF IInv
<1> QED
    BY <1>4, <1>5, <1>6, <1>7 DEF Handle

\* The daemon is killed.
LEMMA CrashInvariant ==
    ASSUME IInv, Crash
    PROVE  IInv'
<1>1. /\ TypeOK /\ OwnersInv /\ OnlyExitedHitsOthers
      /\ pc' = [h \in Handlers |-> "idle"]
      /\ answer' = [h \in Handlers |-> IF pc[h] = "idle" THEN answer[h] ELSE "lost"]
      /\ UNCHANGED <<nodeVars, nice, req, pid, by>>
    BY DEF IInv, Crash
<1>2. TypeOK'
    BY <1>1 DEF TypeOK, nodeVars
<1>3. OwnersInv' /\ OnlyExitedHitsOthers'
    BY <1>1 DEF OwnersInv, OnlyExitedHitsOthers, nodeVars, Exited, Runs
<1>4. \A h \in Handlers : PidInv(h)'
    BY <1>1 DEF PidInv
<1> QED
    BY <1>2, <1>3, <1>4 DEF IInv

\* The inductive invariant holds in every reachable state.
THEOREM Invariance == Spec => []IInv
<1>1. Init => IInv
    BY InitInvariant
<1>2. IInv /\ [Next]_vars => IInv'
  <2> SUFFICES ASSUME IInv, [Next]_vars
               PROVE  IInv'
      OBVIOUS
  <2>1. CASE UNCHANGED vars
      BY <2>1 DEF vars, nodeVars, IInv, TypeOK, OwnersInv, PidInv, OnlyExitedHitsOthers, Exited, Runs
  <2>2. CASE Node
      BY <2>2, NodeInvariant
  <2>3. CASE Crash
      BY <2>3, CrashInvariant
  <2>4. CASE \E h \in Handlers : Receive(h) \/ Handle(h) \/ Fail(h)
      BY <2>4, HandlerInvariant
  <2> QED
      BY <2>1, <2>2, <2>3, <2>4 DEF Next
<1> QED
    BY <1>1, <1>2, PTL DEF Spec

\* A request hits another one's process only if its own container has exited in between.
THEOREM OthersAreSafe == Spec => []OnlyExitedHitsOthers
<1>1. IInv => OnlyExitedHitsOthers
    BY DEF IInv
<1> QED
    BY <1>1, Invariance, PTL
================================================================================
