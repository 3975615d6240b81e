--------------------- MODULE ControllerReservation_proofs ---------------------
(***************************************************************************)
(* Proof that the resource controller implements the atomic reservation of *)
(* module Reservation for disciplined requests: the initial state maps to  *)
(* the initial state, and every step of the controller to a step or a      *)
(* stutter.                                                                *)
(***************************************************************************)
EXTENDS ControllerReservation, ResourceController_proofs

\* Handler h will have written the container's runtime after the write it is at.
WrittenAfter(h) ==
    RuntimeWritten(h) \/ (pc[h] = "runtime" /\ Target(h) = req[h].container)

\* Two functions that differ at one argument.
LEMMA ChangeAt ==
    ASSUME NEW S, NEW f, NEW g, NEW x \in S,
           f = [y \in S |-> f[y]], g = [y \in S |-> g[y]],
           \A y \in S : y # x => g[y] = f[y]
    PROVE  g = [f EXCEPT ![x] = g[x]]
OBVIOUS

\* A step in which only handler h moves changes nobody else's phase or reply.
LEMMA OtherPhases ==
    ASSUME NEW h \in Handlers, req' = req,
           \A i \in Handlers : i # h => /\ pc'[i] = pc[i] /\ lower'[i] = lower[i]
                                        /\ second'[i] = second[i] /\ blind'[i] = blind[i]
                                        /\ answer'[i] = answer[i]
    PROVE  /\ Phase' = [Phase EXCEPT ![h] = Phase'[h]]
           /\ ReplyTo' = [ReplyTo EXCEPT ![h] = ReplyTo'[h]]
<1>1. \A i \in Handlers : i # h => Phase'[i] = Phase[i]
    BY DEF Phase, RuntimeWritten, Target
<1>2. \A i \in Handlers : i # h => ReplyTo'[i] = ReplyTo[i]
    BY DEF ReplyTo
<1>3. Phase = [i \in Handlers |-> Phase[i]] /\ ReplyTo = [i \in Handlers |-> ReplyTo[i]]
    BY DEF Phase, ReplyTo
<1>4. Phase' = [i \in Handlers |-> Phase'[i]] /\ ReplyTo' = [i \in Handlers |-> ReplyTo'[i]]
    BY DEF Phase, ReplyTo
<1>5. Phase' = [Phase EXCEPT ![h] = Phase'[h]]
    BY <1>1, <1>3, <1>4, ChangeAt
<1>6. ReplyTo' = [ReplyTo EXCEPT ![h] = ReplyTo'[h]]
    BY <1>2, <1>3, <1>4, ChangeAt
<1> QED
    BY <1>5, <1>6

\* The phase of a handler that moves on from a file: it is granted if the
\* container's runtime has been written, and only then is it answered "ok".
LEMMA AdvancePhase ==
    ASSUME TypeOK, NEW h \in Handlers, pc[h] \in Files, ReadingInv(h), Advance(h),
           req[h] \in CgroupRequest, req' = req, lower' = lower
    PROVE  /\ \A i \in Handlers : i # h => /\ pc'[i] = pc[i] /\ second'[i] = second[i]
                                           /\ answer'[i] = answer[i]
           /\ \/ /\ pc'[h] \in Files /\ answer' = answer
                 /\ RuntimeWritten(h)' <=> WrittenAfter(h)
              \/ /\ pc'[h] = "idle" /\ answer'[h] = "ok"
                 /\ WrittenAfter(h)
<1> DEFINE r == req[h]
           next == NextFile(r, lower[h], pc[h])
<1>1. /\ r.container # Pod /\ lower[h] \in BOOLEAN /\ second[h] \in BOOLEAN
      /\ pc \in [Handlers -> Steps] /\ second \in [Handlers -> BOOLEAN]
      /\ answer \in [Handlers -> Answers]
    BY BandwidthAssumption DEF CgroupRequest, TypeOK
<1>2. pc[h] \in {"period", "cpuset"} => ~r.only
    BY DEF ReadingInv
<1>3. \A i \in Handlers : i # h => /\ pc'[i] = pc[i] /\ second'[i] = second[i]
                                   /\ answer'[i] = answer[i]
    BY <1>1 DEF Advance, Reply
<1>4. CASE next # "done"
  <2>1. pc'[h] = next /\ second' = second /\ answer' = answer
      BY <1>1, <1>4 DEF Advance
  <2>2. next \in Files /\ ~r.only
      BY <1>4 DEF NextFile, FirstFile, Files
  <2>3. Target(h)' = Target(h)
      BY <2>1 DEF Target
  <2>4. RuntimeWritten(h)' <=> WrittenAfter(h)
      BY <1>1, <1>4, <2>1, <2>2, <2>3
         DEF WrittenAfter, RuntimeWritten, Target, NextFile, FirstFile, Files
  <2> QED
      BY <1>3, <2>1, <2>2, <2>4
<1>5. CASE next = "done" /\ ~second[h]
  <2>1. /\ pc'[h] = FirstFile(r, lower[h]) /\ second'[h] = TRUE /\ answer' = answer
      BY <1>1, <1>5 DEF Advance
  <2>2. RuntimeWritten(h)' <=> lower[h]
      BY <1>1, <2>1 DEF RuntimeWritten, FirstFile
  <2>3. WrittenAfter(h) <=> lower[h]
      BY <1>1, <1>2, <1>5
         DEF WrittenAfter, RuntimeWritten, Target, NextFile, FirstFile, Files
  <2> QED
      BY <1>3, <2>1, <2>2, <2>3 DEF FirstFile, Files
<1>6. CASE next = "done" /\ second[h]
  <2>1. pc'[h] = "idle" /\ answer'[h] = "ok"
      BY <1>1, <1>6 DEF Advance, Reply
  <2>2. WrittenAfter(h)
      BY <1>1, <1>2, <1>6
         DEF WrittenAfter, RuntimeWritten, Target, NextFile, FirstFile, Files
  <2> QED
      BY <1>3, <2>1, <2>2
<1> QED
    BY <1>4, <1>5, <1>6

\* A handler that is about to write the container's runtime asks for no more than
\* the pod has, and so for no more than the budget.
LEMMA WrittenIsWithinBudget ==
    ASSUME Disciplined, TypeOK, GroupsOK(cg), NEW h \in Handlers, pc[h] = "runtime",
           WritingInv(h), Target(h) = req[h].container
    PROVE  ~OverBudget(req[h])
<1> DEFINE r == req[h]
           d == r.core
           v == r.runtime
           want == [cg[Pod] EXCEPT !.runtime = [cg[Pod].runtime EXCEPT ![d] = v]]
<1>1. /\ r.container # Pod /\ d \in Dims /\ v \in Nat /\ r.period = DefaultPeriod
      /\ GrantedRuntime(r) = v
    BY DisciplinedRequest, BandwidthAssumption DEF CgroupRequest
<1>2. /\ cg[Pod] \in Group /\ cg[Pod].period = DefaultPeriod
      /\ cg[Pod].runtime[d] \in Nat /\ Share(cg[Pod], d) <= Budget
    BY <1>1 DEF GroupsOK, Groups, Group, Schedulable
<1>3. v <= cg[Pod].runtime[d]
  <2>1. CASE lower[h]
      BY <2>1 DEF WritingInv, Files
  <2>2. CASE ~lower[h]
    <3>1. second[h] /\ Other(h) = Pod
        BY <1>1, <2>2 DEF TypeOK, Target, Other
    <3> QED
        BY <1>1, <3>1 DEF WritingInv, Files
  <2> QED
      BY <2>1, <2>2
<1>4. want.period = DefaultPeriod /\ want.runtime[d] = v
    BY <1>1, <1>2 DEF Group
<1>5. DefaultPeriod \in Nat \ {0} /\ BwUnit \in Nat \ {0} /\ Budget \in Nat
    BY ControllerAssumption, BandwidthAssumption
<1>6. Share(want, d) <= Share(cg[Pod], d)
  <2> HIDE DEF want
  <2> QED
    BY <1>1, <1>2, <1>3, <1>4, <1>5, ShareMonotone
<1>7. Share(want, d) = Utilization(r)
    BY <1>1, <1>4 DEF Share, Utilization
<1>8. Share(want, d) \in Int /\ Share(cg[Pod], d) \in Int
  <2> HIDE DEF want
  <2> QED
    BY <1>1, <1>2, <1>4, <1>5, ShareType
<1> QED
    BY <1>2, <1>5, <1>6, <1>7, <1>8 DEF OverBudget

\* The register of a container follows the write of its runtime file; a write to
\* the pod, or of another file, leaves all registers alone.
LEMMA RegisterSet ==
    ASSUME NEW c \in Containers, NEW d \in Dims, NEW v \in Nat,
           cg \in [Groups -> Group], cg' = SetRuntime(cg, c, d, v)
    PROVE  Reserved' = [Reserved EXCEPT ![<<c, d>>] = v]
<1>1. c \in Groups
    BY DEF Groups
<1>2. /\ cg'[c].runtime[d] = v
      /\ \A k \in Groups : k # c => cg'[k] = cg[k]
      /\ \A k \in Groups, e \in Dims : e # d => cg'[k].runtime[e] = cg[k].runtime[e]
    BY <1>1, SetRuntimeValues
<1>3. \A s \in Containers \X Dims :
         cg'[s[1]].runtime[s[2]] = IF s = <<c, d>> THEN v ELSE cg[s[1]].runtime[s[2]]
    BY <1>2 DEF Groups
<1>4. <<c, d>> \in Containers \X Dims
    OBVIOUS
<1> QED
    BY <1>3, <1>4 DEF Reserved

LEMMA RegisterKept ==
    ASSUME \A c \in Containers, d \in Dims : cg'[c].runtime[d] = cg[c].runtime[d]
    PROVE  Reserved' = Reserved
<1>1. \A s \in Containers \X Dims : cg'[s[1]].runtime[s[2]] = cg[s[1]].runtime[s[2]]
    OBVIOUS
<1> QED
    BY <1>1 DEF Reserved

\* A handler's step that is invisible to its client.
LEMMA Stutters ==
    ASSUME NEW h \in Handlers, req' = req, Reserved' = Reserved,
           \A i \in Handlers : i # h => /\ pc'[i] = pc[i] /\ lower'[i] = lower[i]
                                        /\ second'[i] = second[i] /\ blind'[i] = blind[i]
                                        /\ answer'[i] = answer[i],
           Phase'[h] = Phase[h], ReplyTo'[h] = ReplyTo[h]
    PROVE  UNCHANGED Promise!avars
<1>1. /\ Phase' = [Phase EXCEPT ![h] = Phase[h]]
      /\ ReplyTo' = [ReplyTo EXCEPT ![h] = ReplyTo[h]]
    BY OtherPhases
<1>2. Phase' = Phase
    BY <1>1 DEF Phase
<1>3. ReplyTo' = ReplyTo
    BY <1>1 DEF ReplyTo
<1> QED
    BY <1>2, <1>3 DEF Promise!avars

\* A handler that ends its request with an error, whatever it has written.
LEMMA Fails ==
    ASSUME NEW h \in Handlers, req' = req, Reserved' = Reserved,
           \A i \in Handlers : i # h => /\ pc'[i] = pc[i] /\ lower'[i] = lower[i]
                                        /\ second'[i] = second[i] /\ blind'[i] = blind[i]
                                        /\ answer'[i] = answer[i],
           pc[h] # "idle", pc'[h] = "idle",
           \/ answer'[h] = "failed"
           \/ answer'[h] = "refused" /\ blind'[h]
    PROVE  Promise!Fail(h)
<1>1. Phase[h] # "none" /\ Phase'[h] = "none" /\ ReplyTo'[h] = "failed"
    BY DEF Phase, ReplyTo
<1>2. /\ Phase' = [Phase EXCEPT ![h] = "none"]
      /\ ReplyTo' = [ReplyTo EXCEPT ![h] = "failed"]
    BY <1>1, OtherPhases
<1> QED
    BY <1>1, <1>2 DEF Promise!Fail

\* A step after which handler h goes on or replies "ok", seen by its client.
LEMMA Proceeds ==
    ASSUME IInv, NEW h \in Handlers, pc[h] \in Files, req[h] \in CgroupRequest,
           Advance(h), req' = req, lower' = lower, blind' = blind,
           \/ Reserved' = Reserved /\ (WrittenAfter(h) <=> RuntimeWritten(h))
           \/ /\ Reserved' = [Reserved EXCEPT ![SlotOf(req[h])] = GrantedRuntime(req[h])]
              /\ WrittenAfter(h) /\ ~RuntimeWritten(h) /\ WithinBudget(req[h])
    PROVE  [Promise!ANext]_(Promise!avars)
<1>1. TypeOK /\ ReadingInv(h) /\ answer[h] = "none" /\ pc[h] # "idle"
    BY DEF IInv, ReadingInv, Files
<1>2. /\ \A i \in Handlers : i # h => /\ pc'[i] = pc[i] /\ second'[i] = second[i]
                                       /\ answer'[i] = answer[i]
      /\ \/ /\ pc'[h] \in Files /\ answer' = answer
            /\ RuntimeWritten(h)' <=> WrittenAfter(h)
         \/ /\ pc'[h] = "idle" /\ answer'[h] = "ok"
            /\ WrittenAfter(h)
    BY <1>1, AdvancePhase
<1>3. /\ Phase' = [Phase EXCEPT ![h] = Phase'[h]]
      /\ ReplyTo' = [ReplyTo EXCEPT ![h] = ReplyTo'[h]]
    BY <1>2, OtherPhases
<1>4. Phase[h] = IF RuntimeWritten(h) THEN "granted" ELSE "asked"
    BY <1>1 DEF Phase
<1>5. CASE Reserved' = Reserved /\ (WrittenAfter(h) <=> RuntimeWritten(h))
  <2>1. CASE pc'[h] \in Files /\ answer' = answer /\ (RuntimeWritten(h)' <=> WrittenAfter(h))
    <3>1. Phase'[h] = Phase[h] /\ ReplyTo'[h] = ReplyTo[h]
        BY <1>1, <1>4, <1>5, <2>1 DEF Phase, ReplyTo, Files
    <3> QED
        BY <1>2, <1>5, <3>1, Stutters
  <2>2. CASE pc'[h] = "idle" /\ answer'[h] = "ok" /\ WrittenAfter(h)
    <3>1. Phase[h] = "granted" /\ Phase'[h] = "none" /\ ReplyTo'[h] = "ok"
        BY <1>4, <1>5, <2>2 DEF Phase, ReplyTo
    <3>2. Promise!Confirm(h)
        BY <1>3, <1>5, <3>1 DEF Promise!Confirm
    <3> QED
        BY <3>2 DEF Promise!ANext
  <2> QED
      BY <1>2, <2>1, <2>2
<1>6. CASE /\ Reserved' = [Reserved EXCEPT ![SlotOf(req[h])] = GrantedRuntime(req[h])]
           /\ WrittenAfter(h) /\ ~RuntimeWritten(h) /\ WithinBudget(req[h])
  <2>1. CASE pc'[h] \in Files /\ answer' = answer /\ (RuntimeWritten(h)' <=> WrittenAfter(h))
    <3>1. Phase[h] = "asked" /\ Phase'[h] = "granted" /\ ReplyTo'[h] = ReplyTo[h]
        BY <1>1, <1>4, <1>6, <2>1 DEF Phase, ReplyTo, Files
    <3>2. ReplyTo' = ReplyTo
        BY <1>3, <3>1 DEF ReplyTo
    <3>3. Promise!Grant(h)
        BY <1>3, <1>6, <3>1, <3>2 DEF Promise!Grant
    <3> QED
        BY <3>3 DEF Promise!ANext
  <2>2. CASE pc'[h] = "idle" /\ answer'[h] = "ok" /\ WrittenAfter(h)
    <3>1. Phase[h] = "asked" /\ Phase'[h] = "none" /\ ReplyTo'[h] = "ok"
        BY <1>4, <1>6, <2>2 DEF Phase, ReplyTo
    <3>2. Promise!GrantAndConfirm(h)
        BY <1>3, <1>6, <3>1 DEF Promise!GrantAndConfirm
    <3> QED
        BY <3>2 DEF Promise!ANext
  <2> QED
      BY <1>2, <2>1, <2>2
<1> QED
    BY <1>5, <1>6

\* Every step of the controller is a step of the reservation, or invisible to the
\* clients.
LEMMA StepImplements ==
    ASSUME Disciplined, IInv, IInv', [Next]_vars
    PROVE  [Promise!ANext]_(Promise!avars)
<1>1. /\ TypeOK /\ GroupsInv /\ cg \in [Groups -> Group]
      /\ \A h \in Handlers : ReadingInv(h) /\ WritingInv(h)
    BY DEF IInv, TypeOK
<1>2. GroupsOK(cg)
    BY <1>1 DEF GroupsOK, GroupsInv
<1>3. cg' = cg => Reserved' = Reserved
    BY DEF Reserved
<1>4. ASSUME NEW h \in Handlers, pc[h] \in Files
      PROVE  /\ req[h] \in Requests[h] /\ req[h] \in CgroupRequest
             /\ req[h].container \in Containers /\ req[h].container # Pod
             /\ req[h].core \in Dims /\ req[h].runtime \in Nat
             /\ req[h].period = DefaultPeriod
             /\ WrittenRuntime(req[h]) = req[h].runtime
             /\ GrantedRuntime(req[h]) = req[h].runtime
             /\ pc[h] # "idle" /\ answer[h] = "none"
  <2>1. pc[h] # "idle" /\ answer[h] = "none"
      BY <1>1, <1>4 DEF Files, ReadingInv
  <2> QED
      BY <1>1, <2>1, DisciplinedRequest, BandwidthAssumption DEF CgroupRequest
<1>5. ASSUME NEW h \in Handlers, Receive(h) PROVE Promise!Ask(h)
  <2>1. PICK r \in Requests[h] :
           /\ req' = [req EXCEPT ![h] = r]
           /\ pc' = [pc EXCEPT ![h] = IF Valid(r) THEN "inspect" ELSE "idle"]
           /\ answer' = [answer EXCEPT ![h] = IF Valid(r) THEN "none" ELSE "bad"]
      BY <1>5 DEF Receive
  <2>2. /\ pc[h] = "idle" /\ cg' = cg
        /\ \A i \in Handlers : i # h => /\ pc'[i] = pc[i] /\ lower'[i] = lower[i]
                                        /\ second'[i] = second[i] /\ blind'[i] = blind[i]
                                        /\ answer'[i] = answer[i] /\ req'[i] = req[i]
        /\ pc'[h] = IF Valid(r) THEN "inspect" ELSE "idle"
        /\ answer'[h] = IF Valid(r) THEN "none" ELSE "bad"
      BY <1>1, <1>5, <2>1 DEF Receive, TypeOK
  <2>3. /\ Phase[h] = "none"
        /\ Phase'[h] = IF NotValid(r) THEN "none" ELSE "asked"
        /\ ReplyTo'[h] = IF NotValid(r) THEN "bad" ELSE "none"
      BY <2>2 DEF Phase, ReplyTo, NotValid, Files
  <2>4. \A i \in Handlers : i # h => Phase'[i] = Phase[i] /\ ReplyTo'[i] = ReplyTo[i]
      BY <2>2 DEF Phase, ReplyTo, RuntimeWritten, Target
  <2>5. /\ Phase = [i \in Handlers |-> Phase[i]] /\ ReplyTo = [i \in Handlers |-> ReplyTo[i]]
        /\ Phase' = [i \in Handlers |-> Phase'[i]]
        /\ ReplyTo' = [i \in Handlers |-> ReplyTo'[i]]
      BY DEF Phase, ReplyTo
  <2>6. Phase' = [Phase EXCEPT ![h] = Phase'[h]]
      BY <2>4, <2>5, ChangeAt
  <2>7. ReplyTo' = [ReplyTo EXCEPT ![h] = ReplyTo'[h]]
      BY <2>4, <2>5, ChangeAt
  <2> QED
      BY <1>3, <2>1, <2>2, <2>3, <2>6, <2>7 DEF Promise!Ask, RequestsOf
<1>6. ASSUME NEW h \in Handlers, Preflight(h) PROVE [Promise!ANext]_(Promise!avars)
  <2>1. /\ pc[h] = "inspect" /\ cg' = cg /\ req' = req
        /\ \A i \in Handlers : i # h => /\ pc'[i] = pc[i] /\ lower'[i] = lower[i]
                                        /\ second'[i] = second[i] /\ blind'[i] = blind[i]
                                        /\ answer'[i] = answer[i]
      BY <1>1, <1>6 DEF Preflight, Reply, TypeOK
  <2>2. CASE pc'[h] = "readPeriod" /\ answer' = answer /\ blind' = blind
    <3>1. Phase'[h] = Phase[h] /\ ReplyTo'[h] = ReplyTo[h]
        BY <2>1, <2>2 DEF Phase, ReplyTo, Files
    <3> QED
        BY <1>3, <2>1, <3>1, Stutters
  <2>3. CASE pc'[h] = "idle" /\ answer'[h] = "failed"
    <3>1. Promise!Fail(h)
        BY <1>3, <2>1, <2>3, Fails
    <3> QED
        BY <3>1 DEF Promise!ANext
  <2> QED
      BY <1>1, <1>6, <2>2, <2>3 DEF Preflight, Reply, TypeOK
<1>7. ASSUME NEW h \in Handlers, ReadPeriod(h) \/ ReadRuntime(h) \/ ReadCore(h)
      PROVE  UNCHANGED Promise!avars
  <2>1. /\ pc[h] \in {"readPeriod", "readRuntime", "readCore"} /\ ~second[h]
        /\ answer[h] = "none"
      BY <1>1, <1>7 DEF ReadPeriod, ReadRuntime, ReadCore, ReadingInv
  <2>2. /\ UNCHANGED <<cg, req, second, answer>>
        /\ \A i \in Handlers : i # h => /\ pc'[i] = pc[i] /\ lower'[i] = lower[i]
                                        /\ blind'[i] = blind[i]
    <3>1. CASE ReadPeriod(h)
        BY <1>1, <3>1 DEF ReadPeriod, TypeOK
    <3>2. CASE ReadRuntime(h)
        BY <1>1, <3>2 DEF ReadRuntime, TypeOK
    <3>3. CASE ReadCore(h)
        BY <1>1, <3>3 DEF ReadCore, TypeOK
    <3> QED
        BY <1>7, <3>1, <3>2, <3>3
  <2>3. \/ pc'[h] \in {"readRuntime", "readCore"}
        \/ pc'[h] = FirstFile(req[h], lower'[h])
    <3>1. CASE ReadPeriod(h)
        BY <1>1, <3>1 DEF ReadPeriod, TypeOK
    <3>2. CASE ReadRuntime(h)
        BY <1>1, <3>2 DEF ReadRuntime, TypeOK
    <3>3. CASE ReadCore(h)
        BY <1>1, <3>3 DEF ReadCore, TypeOK
    <3> QED
        BY <1>7, <3>1, <3>2, <3>3
  <2>4. pc[h] # "idle" /\ pc[h] \notin Files
      BY <2>1 DEF Files
  <2>5. pc'[h] # "idle" /\ (pc'[h] \in Files => ~RuntimeWritten(h)')
      BY <2>1, <2>2, <2>3 DEF FirstFile, Files, RuntimeWritten
  <2>6. Phase'[h] = Phase[h]
      BY <2>4, <2>5 DEF Phase
  <2>7. ReplyTo'[h] = ReplyTo[h]
      BY <2>1, <2>2 DEF ReplyTo
  <2> QED
      BY <1>3, <2>2, <2>6, <2>7, Stutters
<1>8. ASSUME NEW h \in Handlers, WriteRuntime(h) PROVE [Promise!ANext]_(Promise!avars)
  <2> DEFINE r == req[h]
             new == SetRuntime(cg, Target(h), r.core, r.runtime)
  <2>1. /\ pc[h] = "runtime" /\ pc[h] \in Files /\ UNCHANGED <<req, lower, blind>>
      BY <1>8 DEF WriteRuntime, Files
  <2>2. Target(h) \in Groups
      BY <1>4, <2>1 DEF Target, Groups
  <2>3. CASE cg' = new /\ Advance(h)
    <3>1. CASE Target(h) = r.container
      <4>1. Reserved' = [Reserved EXCEPT ![SlotOf(r)] = GrantedRuntime(r)]
          BY <1>1, <1>4, <2>1, <2>3, <3>1, RegisterSet DEF SlotOf
      <4>2. WithinBudget(r)
          BY <1>1, <1>2, <2>1, <3>1, WrittenIsWithinBudget DEF WithinBudget
      <4>3. WrittenAfter(h)
          BY <2>1, <3>1 DEF WrittenAfter
      <4>4. ~RuntimeWritten(h)
          BY <1>1, <1>4, <2>1, <3>1 DEF RuntimeWritten, Target, TypeOK
      <4> QED
          BY <1>4, <2>1, <2>3, <4>1, <4>2, <4>3, <4>4, Proceeds
    <3>2. CASE Target(h) # r.container
      <4>1. \A c \in Containers : c # Target(h)
          BY <3>2, BandwidthAssumption DEF Target
      <4>2. \A c \in Containers : cg'[c] = cg[c]
        <5>1. r.core \in Dims /\ r.runtime \in Nat
            BY <1>4, <2>1
        <5>2. \A g \in Groups : g # Target(h) => cg'[g] = cg[g]
            BY <1>1, <2>2, <2>3, <5>1, SetRuntimeValues
        <5> QED
            BY <4>1, <5>2 DEF Groups
      <4>3. Reserved' = Reserved
          BY <4>2, RegisterKept
      <4>4. WrittenAfter(h) <=> RuntimeWritten(h)
          BY <3>2 DEF WrittenAfter
      <4> QED
          BY <1>4, <2>1, <2>3, <4>3, <4>4, Proceeds
    <3> QED
        BY <3>1, <3>2
  <2>4. CASE UNCHANGED cg /\ Reply(h, "refused")
    <3>1. /\ pc'[h] = "idle" /\ answer'[h] = "refused" /\ second' = second
          /\ \A i \in Handlers : i # h => pc'[i] = pc[i] /\ answer'[i] = answer[i]
        BY <1>1, <2>4 DEF Reply, TypeOK
    <3>2. CASE blind[h]
      <4>1. Promise!Fail(h)
          BY <1>3, <1>4, <2>1, <2>4, <3>1, <3>2, Fails
      <4> QED
          BY <4>1 DEF Promise!ANext
    <3>3. CASE ~blind[h]
      <4>1. OverBudget(r)' /\ ~second[h]
          BY <2>1, <3>1, <3>3 DEF IInv, RefusedOnlyOverBudget, RefusalIsClean
      <4>2. ~WithinBudget(r)
          BY <2>1, <4>1 DEF WithinBudget, OverBudget, Utilization, GrantedRuntime,
                            StoredRuntime, WrittenRuntime
      <4>3. ~RuntimeWritten(h)
          BY <2>1, <4>1 DEF RuntimeWritten
      <4>4. Phase[h] = "asked" /\ Phase'[h] = "none" /\ ReplyTo'[h] = "refused"
          BY <2>1, <3>1, <3>3, <4>3 DEF Phase, ReplyTo
      <4>5. /\ Phase' = [Phase EXCEPT ![h] = "none"]
            /\ ReplyTo' = [ReplyTo EXCEPT ![h] = "refused"]
          BY <2>1, <3>1, <4>4, OtherPhases
      <4>6. Promise!Refuse(h)
          BY <1>3, <2>1, <2>4, <4>2, <4>4, <4>5 DEF Promise!Refuse
      <4> QED
          BY <4>6 DEF Promise!ANext
    <3> QED
        BY <3>2, <3>3
  <2> QED
      BY <1>4, <1>8, <2>1, <2>3, <2>4 DEF WriteRuntime, Write
<1>9. ASSUME NEW h \in Handlers, WritePeriod(h) PROVE [Promise!ANext]_(Promise!avars)
  <2>1. /\ pc[h] = "period" /\ pc[h] \in Files /\ UNCHANGED <<req, lower, blind>>
      BY <1>9 DEF WritePeriod, Files
  <2>2. Target(h) \in Groups /\ cg[Target(h)] \in Group
      BY <1>1, <1>4, <2>1 DEF Target, Groups
  <2>3. SetPeriod(cg, Target(h), req[h].period) = cg
    <3>1. cg[Target(h)].period = DefaultPeriod
        BY <1>2, <2>2 DEF GroupsOK
    <3>2. [cg[Target(h)] EXCEPT !.period = DefaultPeriod] = cg[Target(h)]
        BY <2>2, <3>1 DEF Group
    <3> QED
        BY <1>1, <1>4, <2>1, <2>2, <3>2 DEF SetPeriod
  <2>4. cg' = cg /\ Advance(h)
      BY <1>2, <1>9, <2>3 DEF WritePeriod, Write, GroupsOK
  <2>5. WrittenAfter(h) <=> RuntimeWritten(h)
      BY <2>1 DEF WrittenAfter
  <2> QED
      BY <1>3, <1>4, <2>1, <2>4, <2>5, Proceeds
<1>10. ASSUME NEW h \in Handlers, WriteCpuset(h) PROVE [Promise!ANext]_(Promise!avars)
  <2>1. /\ pc[h] = "cpuset" /\ pc[h] \in Files /\ UNCHANGED <<req, lower, blind>>
        /\ cg' = SetCpus(cg, Target(h), req[h].core) /\ Advance(h)
      BY <1>10 DEF WriteCpuset, Files
  <2>2. \A g \in Groups : cg'[g].runtime = cg[g].runtime
    <3>1. \A g \in Groups : cg[g] \in Group
        BY <1>1
    <3> QED
        BY <1>1, <2>1, <3>1 DEF SetCpus, Group
  <2>3. Reserved' = Reserved
      BY <2>2, RegisterKept DEF Groups
  <2>4. WrittenAfter(h) <=> RuntimeWritten(h)
      BY <2>1 DEF WrittenAfter
  <2> QED
      BY <1>4, <2>1, <2>3, <2>4, Proceeds
<1>11. ASSUME NEW h \in Handlers, Fault(h) PROVE Promise!Fail(h)
  <2>1. /\ pc[h] # "idle" /\ cg' = cg /\ pc'[h] = "idle" /\ answer'[h] = "failed"
        /\ UNCHANGED <<req, lower, second, blind>>
        /\ \A i \in Handlers : i # h => pc'[i] = pc[i] /\ answer'[i] = answer[i]
      BY <1>1, <1>11 DEF Fault, Reply, TypeOK
  <2> QED
      BY <1>3, <2>1, Fails
<1>12. ASSUME Crash PROVE Promise!Die
  <2>1. \A h \in Handlers : /\ Phase'[h] = "none"
                            /\ ReplyTo'[h] = IF Phase[h] = "none" THEN ReplyTo[h] ELSE "lost"
      BY <1>12 DEF Crash, Phase, ReplyTo
  <2>2. Phase' = [h \in Handlers |-> Phase'[h]] /\ ReplyTo' = [h \in Handlers |-> ReplyTo'[h]]
      BY DEF Phase, ReplyTo
  <2>3. /\ Phase' = [h \in Handlers |-> "none"]
        /\ ReplyTo' = [h \in Handlers |-> IF Phase[h] = "none" THEN ReplyTo[h] ELSE "lost"]
      BY <2>1, <2>2
  <2> QED
      BY <1>3, <1>12, <2>3 DEF Crash, Promise!Die
<1>13. ASSUME UNCHANGED vars PROVE UNCHANGED Promise!avars
    BY <1>13 DEF vars, Promise!avars, Reserved, Phase, ReplyTo, RuntimeWritten, Target
<1> QED
    BY <1>5, <1>6, <1>7, <1>8, <1>9, <1>10, <1>11, <1>12, <1>13
       DEF Next, Handle, Promise!ANext

\* The initial groups are the initial registers.
LEMMA InitImplements == Init => Promise!AInit
<1> SUFFICES ASSUME Init PROVE Promise!AInit
    OBVIOUS
<1>1. Reserved = [s \in Containers \X Dims |-> 0]
    BY DEF Init, Reserved, FreshGroup, Groups
<1>2. Phase = [h \in Handlers |-> "none"] /\ ReplyTo = [h \in Handlers |-> "none"]
    BY DEF Init, Phase, ReplyTo
<1> QED
    BY <1>1, <1>2 DEF Init, Promise!AInit

\* For disciplined requests the controller sets each container's runtime as if in
\* one atomic step, within the budget always and beyond it never, with any number
\* of concurrent handlers, with faults and with restarts of the daemon.
THEOREM Implementation ==
    ASSUME Disciplined
    PROVE  Spec => ImplementsReservation
<1>1. Init => Promise!AInit
    BY InitImplements
<1>2. IInv /\ IInv' /\ [Next]_vars => [Promise!ANext]_(Promise!avars)
    BY StepImplements
<1> QED
    BY <1>1, <1>2, Invariance, PTL DEF Spec, ImplementsReservation, Promise!ASpec
================================================================================
