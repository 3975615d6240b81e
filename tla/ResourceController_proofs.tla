----------------------- MODULE ResourceController_proofs -----------------------
(***************************************************************************)
(* Proofs about the resource controller, for every set of handlers and     *)
(* requests.                                                               *)
(***************************************************************************)
EXTENDS ResourceController, SumFacts

--------------------------------------------------------------------------------
(***************************************************************************)
(* The kernel's admission rule: division is monotone, so a larger runtime  *)
(* is a larger share; and the demand on a pod is the sum of its            *)
(* containers' shares, for any finite number of containers.                *)
(***************************************************************************)

\* A product grows with its first factor.
LEMMA ProductMonotone ==
    ASSUME NEW a \in Int, NEW b \in Int, NEW u \in Nat, a <= b
    PROVE  a * u <= b * u
OBVIOUS

\* What an integer division by a positive number returns.
LEMMA DivisionBounds ==
    ASSUME NEW x \in Int, NEW p \in Int, p > 0
    PROVE  x \div p \in Int /\ p * (x \div p) <= x /\ x < p * (x \div p) + p
OBVIOUS

\* Two multiples of p that differ, differ by p.
LEMMA MultiplesApart ==
    ASSUME NEW q \in Int, NEW r \in Int, NEW p \in Int, p > 0, q > r
    PROVE  p * q >= p * r + p
<1>1. q >= r + 1
    OBVIOUS
<1>2. p * q >= p * (r + 1)
    BY <1>1
<1> QED
    BY <1>2

\* Dividing by the same period keeps the order.
LEMMA DivisionMonotone ==
    ASSUME NEW x \in Int, NEW y \in Int, NEW p \in Int, p > 0, x <= y
    PROVE  x \div p <= y \div p
<1> DEFINE q == x \div p
           r == y \div p
<1>1. q \in Int /\ r \in Int /\ p * q <= x /\ y < p * r + p
    BY DivisionBounds
<1>2. q > r => p * q >= p * r + p
    BY <1>1, MultiplesApart
<1> HIDE DEF q, r
<1>3. p * q \in Int /\ p * r \in Int
    BY <1>1
<1>4. q <= r
    BY <1>1, <1>2, <1>3
<1> QED
    BY <1>4 DEF q, r

\* Of two limited groups with the same period, the one with the larger runtime
\* has the larger share: the fact on which "child first when decreasing, parent
\* first when increasing" rests.
LEMMA ShareMonotone ==
    ASSUME NEW g, NEW k, NEW d,
           g.period \in Nat \ {0}, k.period = g.period, BwUnit \in Nat \ {0},
           g.runtime[d] \in Nat, k.runtime[d] \in Nat,
           g.runtime[d] <= k.runtime[d]
    PROVE  Share(g, d) <= Share(k, d)
<1>1. g.runtime[d] * BwUnit <= k.runtime[d] * BwUnit
    BY ProductMonotone
<1>2. g.runtime[d] * BwUnit \in Int /\ k.runtime[d] * BwUnit \in Int
    OBVIOUS
<1>3. (g.runtime[d] * BwUnit) \div g.period <= (k.runtime[d] * BwUnit) \div g.period
    BY <1>1, <1>2, DivisionMonotone
<1> QED
    BY <1>3 DEF Share

\* A quotient of natural numbers is one.
LEMMA QuotientNatural ==
    ASSUME NEW x \in Nat, NEW p \in Nat \ {0}
    PROVE  x \div p \in Nat
OBVIOUS

\* A share is a natural number.
LEMMA ShareType ==
    ASSUME NEW g, NEW d, g.period \in Nat \ {0}, g.runtime[d] \in Int,
           BwUnit \in Nat \ {0}
    PROVE  Share(g, d) \in Nat
<1>1. CASE g.runtime[d] < 0
    BY <1>1 DEF Share
<1>2. CASE g.runtime[d] >= 0
  <2>1. g.runtime[d] * BwUnit \in Nat
      BY <1>2
  <2>2. (g.runtime[d] * BwUnit) \div g.period \in Nat
      BY <2>1, QuotientNatural
  <2> QED
      BY <1>2, <2>2 DEF Share
<1> QED
    BY <1>1, <1>2

\* All of a period is all of the time.
LEMMA WholePeriod ==
    ASSUME NEW u \in Nat, NEW p \in Nat \ {0}
    PROVE  (p * u) \div p = u
<1> DEFINE q == (p * u) \div p
<1>1. q \in Int /\ p * q <= p * u /\ p * u < p * q + p
    BY DivisionBounds
<1> HIDE DEF q
<1>2. /\ q > u => p * q >= p * u + p
      /\ u > q => p * u >= p * q + p
    BY <1>1, MultiplesApart
<1>3. p * q \in Int /\ p * u \in Int
    BY <1>1
<1>4. q = u
    BY <1>1, <1>2, <1>3
<1> QED
    BY <1>4 DEF q

\* No group has a share of more than the whole.
LEMMA ShareWhole ==
    ASSUME NEW g, NEW d, g.period \in Nat \ {0}, g.runtime[d] \in Int,
           g.runtime[d] <= g.period, BwUnit \in Nat \ {0}
    PROVE  Share(g, d) <= BwUnit
<1>1. CASE g.runtime[d] < 0
    BY <1>1 DEF Share
<1>2. CASE g.runtime[d] >= 0
  <2>1. g.runtime[d] * BwUnit <= g.period * BwUnit
      BY ProductMonotone
  <2>2. g.runtime[d] * BwUnit \in Int /\ g.period * BwUnit \in Int
      OBVIOUS
  <2>3. (g.runtime[d] * BwUnit) \div g.period <= (g.period * BwUnit) \div g.period
      BY <2>1, <2>2, DivisionMonotone
  <2>4. (g.period * BwUnit) \div g.period = BwUnit
      BY WholePeriod
  <2> QED
      BY <1>2, <2>3, <2>4 DEF Share
<1> QED
    BY <1>1, <1>2

\* No runtime, no share.
LEMMA NoShare ==
    ASSUME NEW g, NEW d, g.period \in Nat \ {0}, g.runtime[d] = 0, BwUnit \in Nat \ {0}
    PROVE  Share(g, d) = 0
<1>1. 0 * BwUnit = 0 /\ 0 \div g.period = 0
    OBVIOUS
<1> QED
    BY <1>1 DEF Share

\* Two states that give every container the same share: the same demand.
LEMMA DemandSame ==
    ASSUME NEW s, NEW t, NEW d, \A c \in Containers : Share(t[c], d) = Share(s[c], d)
    PROVE  Demand(t, d) = Demand(s, d)
<1>1. [c \in Containers |-> Share(t[c], d)] = [c \in Containers |-> Share(s[c], d)]
    BY Zenon
<1> QED
    BY <1>1, Zenon DEF Demand

\* The demand is a sum over the containers.
LEMMA DemandIsSum ==
    ASSUME NEW s, NEW d
    PROVE  \E w : /\ Demand(s, d) = SumFunctionOnSet(w, Containers)
                  /\ \A c \in Containers : w[c] = Share(s[c], d)
<1> DEFINE w == [c \in Containers |-> Share(s[c], d)]
<1>1. Demand(s, d) = SumFunctionOnSet(w, Containers)
    BY Zenon DEF Demand, SumFunction
<1>2. \A c \in Containers : w[c] = Share(s[c], d)
    OBVIOUS
<1> HIDE DEF w
<1> QED
    BY <1>1, <1>2

\* If at most one container has a share, the demand is that container's share.
LEMMA DemandOfOwner ==
    ASSUME NEW s, NEW d, NEW c \in Containers, Share(s[c], d) \in Int,
           \A x \in Containers \ {c} : Share(s[x], d) = 0
    PROVE  Demand(s, d) = Share(s[c], d)
<1>1. PICK w : /\ Demand(s, d) = SumFunctionOnSet(w, Containers)
               /\ \A x \in Containers : w[x] = Share(s[x], d)
    BY DemandIsSum
<1>2. IsFiniteSet(Containers) /\ w[c] \in Int /\ \A x \in Containers \ {c} : w[x] = 0
    BY <1>1, BandwidthAssumption
<1>3. SumFunctionOnSet(w, Containers) = w[c]
    BY <1>2, SumOfOne
<1> QED
    BY <1>1, <1>3

LEMMA DemandOfNobody ==
    ASSUME NEW s, NEW d, \A x \in Containers : Share(s[x], d) = 0
    PROVE  Demand(s, d) = 0
<1>1. PICK w : /\ Demand(s, d) = SumFunctionOnSet(w, Containers)
               /\ \A x \in Containers : w[x] = Share(s[x], d)
    BY DemandIsSum
<1>2. IsFiniteSet(Containers) /\ \A x \in Containers : w[x] = 0
    BY <1>1, BandwidthAssumption
<1>3. SumFunctionOnSet(w, Containers) = 0
    BY <1>2, SumOfZeros
<1> QED
    BY <1>1, <1>3

\* The demand covers the shares of any two containers.
LEMMA DemandCovers ==
    ASSUME NEW s, NEW d, \A x \in Containers : Share(s[x], d) \in Nat
    PROVE  /\ Demand(s, d) \in Nat
           /\ \A a, b \in Containers : a # b => Share(s[a], d) + Share(s[b], d) <= Demand(s, d)
<1>1. PICK w : /\ Demand(s, d) = SumFunctionOnSet(w, Containers)
               /\ \A x \in Containers : w[x] = Share(s[x], d)
    BY DemandIsSum
<1>2. IsFiniteSet(Containers) /\ \A x \in Containers : w[x] \in Nat
    BY <1>1, BandwidthAssumption
<1>3. /\ SumFunctionOnSet(w, Containers) \in Nat
      /\ \A x \in Containers : w[x] <= SumFunctionOnSet(w, Containers)
      /\ \A x, y \in Containers : x # y => w[x] + w[y] <= SumFunctionOnSet(w, Containers)
    BY <1>2, SumOfNaturals
<1> QED
    BY <1>1, <1>3

--------------------------------------------------------------------------------
(***************************************************************************)
(* The controller.                                                         *)
(***************************************************************************)

\* A write of a file keeps the groups well-formed.
LEMMA UpdateType ==
    ASSUME NEW s \in [Groups -> Group], NEW g \in Groups
    PROVE  /\ \A d \in Dims, v \in Int : SetRuntime(s, g, d, v) \in [Groups -> Group]
           /\ \A p \in Nat \ {0} : SetPeriod(s, g, p) \in [Groups -> Group]
           /\ \A k \in Dims : SetCpus(s, g, k) \in [Groups -> Group]
<1>1. \A d \in Dims, v \in Int : SetRuntime(s, g, d, v) \in [Groups -> Group]
  <2> SUFFICES ASSUME NEW d \in Dims, NEW v \in Int
               PROVE  SetRuntime(s, g, d, v) \in [Groups -> Group]
    OBVIOUS
  <2>1. s[g] \in Group /\ StoredRuntime(v) \in Int
    BY DEF StoredRuntime
  <2>2. [s[g].runtime EXCEPT ![d] = StoredRuntime(v)] \in [Dims -> Int]
    BY <2>1 DEF Group
  <2>3. [s[g] EXCEPT !.runtime = [s[g].runtime EXCEPT ![d] = StoredRuntime(v)]] \in Group
    BY <2>1, <2>2 DEF Group
  <2> QED
    BY <2>3 DEF SetRuntime
<1>2. \A p \in Nat \ {0} : SetPeriod(s, g, p) \in [Groups -> Group]
    BY DEF SetPeriod, Group
<1>3. \A k \in Dims : SetCpus(s, g, k) \in [Groups -> Group]
    BY DEF SetCpus, Group
<1> QED
    BY <1>1, <1>2, <1>3

\* What a handler in progress has is a valid request, for a group of its own.
LEMMA ActiveRequest ==
    ASSUME TypeOK, NEW h \in Handlers, pc[h] # "idle"
    PROVE  /\ req[h] \in CgroupRequest
           /\ req[h].period \in Nat \ {0}
           /\ WrittenRuntime(req[h]) \in Int
           /\ Target(h) \in Groups
<1>1. req[h] \in Requests[h] /\ Valid(req[h])
    BY DEF TypeOK
<1>2. req[h] \in CgroupRequest
    BY <1>1, ControllerAssumption
<1>3. req[h].period \in Nat \ {0} /\ WrittenRuntime(req[h]) \in Int
    BY <1>1, <1>2 DEF Valid, CgroupRequest, WrittenRuntime
<1> QED
    BY <1>2, <1>3 DEF Target, Groups, CgroupRequest

\* Moving on from a file, or replying, keeps the handler's variables well-formed.
LEMMA AdvanceType ==
    ASSUME TypeOK, NEW h \in Handlers, pc[h] # "idle",
           Advance(h) \/ \E a \in Answers : Reply(h, a)
    PROVE  /\ pc' \in [Handlers -> Steps]
           /\ second' \in [Handlers -> BOOLEAN]
           /\ answer' \in [Handlers -> Answers]
           /\ \A i \in Handlers : i # h => pc'[i] = pc[i] /\ answer'[i] = answer[i]
<1>1. NextFile(req[h], lower[h], pc[h]) \in Files \cup {"done"}
    BY DEF NextFile, Files
<1>2. FirstFile(req[h], lower[h]) \in Files
    BY DEF FirstFile, Files
<1>3. CASE Advance(h)
    BY <1>1, <1>2, <1>3 DEF Advance, Reply, TypeOK, Steps, Answers
<1>4. CASE \E a \in Answers : Reply(h, a)
    BY <1>4 DEF Reply, TypeOK, Steps, Answers
<1> QED
    BY <1>3, <1>4

\* Every reachable state is well-formed, and a request in progress is one that
\* the handler may receive and that passed handleCgroup's checks.
THEOREM TypeCorrect == Spec => []TypeOK
<1>1. Init => TypeOK
  <2> SUFFICES ASSUME Init PROVE TypeOK
    OBVIOUS
  <2>1. FreshGroup \in Group
    BY ControllerAssumption DEF FreshGroup, Group, Dims
  <2> QED
    BY <2>1 DEF Init, TypeOK, Steps, Answers
<1>2. TypeOK /\ [Next]_vars => TypeOK'
  <2> SUFFICES ASSUME TypeOK, [Next]_vars PROVE TypeOK'
    OBVIOUS
  <2>1. ASSUME NEW h \in Handlers, Receive(h) PROVE TypeOK'
    <3>1. PICK r \in Requests[h] :
            /\ req' = [req EXCEPT ![h] = r]
            /\ pc' = [pc EXCEPT ![h] = IF Valid(r) THEN "inspect" ELSE "idle"]
            /\ answer' = [answer EXCEPT ![h] = IF Valid(r) THEN "none" ELSE "bad"]
        BY <2>1 DEF Receive
    <3>2. r \in CgroupRequest
        BY ControllerAssumption
    <3>3. /\ pc' \in [Handlers -> Steps]
          /\ req' \in [Handlers -> CgroupRequest \cup {NoRequest}]
          /\ answer' \in [Handlers -> Answers]
        BY <3>1, <3>2 DEF TypeOK, Steps, Answers
    <3>4. \A i \in Handlers :
             pc'[i] # "idle" \/ answer'[i] \in {"ok", "refused"}
                 => req'[i] \in Requests[i] /\ Valid(req'[i])
        BY <3>1 DEF TypeOK
    <3>5. /\ cg' = cg
          /\ lower' \in [Handlers -> BOOLEAN]
          /\ second' \in [Handlers -> BOOLEAN]
          /\ blind' \in [Handlers -> BOOLEAN]
        BY <2>1 DEF Receive, TypeOK
    <3> QED
        BY <3>3, <3>4, <3>5 DEF TypeOK, Valid
  <2>2. ASSUME NEW h \in Handlers, Preflight(h) PROVE TypeOK'
    <3>1. CASE Admissible(req[h])
        BY <2>2, <3>1 DEF Preflight, TypeOK, Steps, Valid
    <3>2. CASE ~Admissible(req[h])
        BY <2>2, <3>2 DEF Preflight, Reply, TypeOK, Steps, Answers, Valid
    <3> QED
        BY <3>1, <3>2
  <2>3. ASSUME NEW h \in Handlers, ReadPeriod(h) PROVE TypeOK'
    <3>1. (~req[h].only /\ req[h].period < cg[Pod].period) \in BOOLEAN
        OBVIOUS
    <3> QED
        BY <2>3, <3>1 DEF ReadPeriod, TypeOK, Steps, Valid
  <2>4. ASSUME NEW h \in Handlers, ReadRuntime(h) PROVE TypeOK'
    <3>1. \A low \in BOOLEAN : FirstFile(req[h], low) \in Steps
        BY DEF FirstFile, Steps, Files
    <3> QED
        BY <2>4, <3>1 DEF ReadRuntime, TypeOK, Steps, Valid
  <2>5. ASSUME NEW h \in Handlers, ReadCore(h) PROVE TypeOK'
    <3>1. PICK unread \in {FALSE, Faults}, low \in BOOLEAN :
            /\ lower' = [lower EXCEPT ![h] = low]
            /\ blind' = [blind EXCEPT ![h] = unread]
            /\ pc' = [pc EXCEPT ![h] = FirstFile(req[h], low)]
        BY <2>5 DEF ReadCore
    <3>2. FirstFile(req[h], low) \in Steps /\ unread \in BOOLEAN
        BY ControllerAssumption DEF FirstFile, Steps, Files
    <3>3. pc[h] = "readCore" /\ UNCHANGED <<cg, req, second, answer>>
        BY <2>5 DEF ReadCore
    <3> QED
        BY <3>1, <3>2, <3>3 DEF TypeOK, Valid
  <2>6. ASSUME NEW h \in Handlers, WriteRuntime(h) \/ WritePeriod(h) \/ WriteCpuset(h)
        PROVE  TypeOK'
    <3>1. pc[h] # "idle" /\ UNCHANGED <<req, lower, blind>>
        BY <2>6 DEF WriteRuntime, WritePeriod, WriteCpuset
    <3>2. cg' \in [Groups -> Group]
      <4>1. /\ cg \in [Groups -> Group]
            /\ req[h].core \in Dims
            /\ req[h].period \in Nat \ {0}
            /\ WrittenRuntime(req[h]) \in Int
            /\ Target(h) \in Groups
          BY <3>1, ActiveRequest DEF TypeOK, CgroupRequest
      <4>2. CASE WriteRuntime(h)
          BY <4>1, <4>2, UpdateType DEF WriteRuntime, Write
      <4>3. CASE WritePeriod(h)
          BY <4>1, <4>3, UpdateType DEF WritePeriod, Write
      <4>4. CASE WriteCpuset(h)
          BY <4>1, <4>4, UpdateType DEF WriteCpuset
      <4> QED
          BY <2>6, <4>2, <4>3, <4>4
    <3>3. Advance(h) \/ \E a \in Answers : Reply(h, a)
        BY <2>6 DEF WriteRuntime, WritePeriod, WriteCpuset, Write, Answers
    <3> QED
        BY <3>1, <3>2, <3>3, AdvanceType DEF TypeOK, Valid
  <2>7. ASSUME NEW h \in Handlers, Fault(h) PROVE TypeOK'
      BY <2>7, AdvanceType DEF Fault, TypeOK, Answers, Valid
  <2>8. CASE Crash
      BY <2>8 DEF Crash, TypeOK, Steps, Answers, Valid
  <2>9. CASE UNCHANGED vars
      BY <2>9 DEF vars, TypeOK, Valid
  <2> QED
      BY <2>1, <2>2, <2>3, <2>4, <2>5, <2>6, <2>7, <2>8, <2>9 DEF Next, Handle
<1> QED
    BY <1>1, <1>2, PTL DEF Spec

--------------------------------------------------------------------------------
(***************************************************************************)
(* Disciplined requests, in a pod with any containers.                     *)
(***************************************************************************)

\* The groups as the kernel keeps them for disciplined requests.
GroupsOK(s) ==
    /\ s \in [Groups -> Group]
    /\ Schedulable(s)
    /\ \A g \in Groups : /\ s[g].period = DefaultPeriod
                         /\ \A d \in Dims : s[g].runtime[d] >= 0

\* What a write of a runtime changes, and what it leaves alone.
LEMMA SetRuntimeStored ==
    ASSUME NEW s \in [Groups -> Group], NEW g \in Groups, NEW d \in Dims, NEW v \in Int
    PROVE  LET t == SetRuntime(s, g, d, v)
           IN  /\ t \in [Groups -> Group]
               /\ t[g].runtime[d] = StoredRuntime(v)
               /\ \A k \in Groups : t[k].period = s[k].period
               /\ \A k \in Groups : k # g => t[k] = s[k]
               /\ \A k \in Groups, e \in Dims : e # d => t[k].runtime[e] = s[k].runtime[e]
<1> DEFINE t == SetRuntime(s, g, d, v)
           w == StoredRuntime(v)
<1>1. t \in [Groups -> Group]
    BY UpdateType
<1>2. s[g] \in Group /\ s[g].runtime \in [Dims -> Int]
    BY DEF Group
<1>3. t[g] = [s[g] EXCEPT !.runtime = [s[g].runtime EXCEPT ![d] = w]]
    BY DEF SetRuntime
<1> HIDE DEF w
<1>4. t[g].period = s[g].period /\ t[g].runtime = [s[g].runtime EXCEPT ![d] = w]
    BY <1>2, <1>3 DEF Group
<1>5. \A k \in Groups : k # g => t[k] = s[k]
    BY DEF SetRuntime
<1>6. \A e \in Dims : t[g].runtime[e] = IF e = d THEN w ELSE s[g].runtime[e]
    BY <1>2, <1>4
<1> HIDE DEF t
<1> QED
    BY <1>1, <1>4, <1>5, <1>6 DEF t, w

\* The same of a runtime that is not negative.
LEMMA SetRuntimeValues ==
    ASSUME NEW s \in [Groups -> Group], NEW g \in Groups, NEW d \in Dims, NEW v \in Nat
    PROVE  LET t == SetRuntime(s, g, d, v)
           IN  /\ t \in [Groups -> Group]
               /\ t[g].runtime[d] = v
               /\ \A k \in Groups : t[k].period = s[k].period
               /\ \A k \in Groups : k # g => t[k] = s[k]
               /\ \A k \in Groups, e \in Dims : e # d => t[k].runtime[e] = s[k].runtime[e]
<1>1. StoredRuntime(v) = v
    BY DEF StoredRuntime
<1> QED
    BY <1>1, SetRuntimeStored

\* A write of a CPU set leaves periods and runtimes alone.
LEMMA SetCpusValues ==
    ASSUME NEW s \in [Groups -> Group], NEW g \in Groups, NEW k \in Dims
    PROVE  LET t == SetCpus(s, g, k)
           IN  /\ t \in [Groups -> Group]
               /\ \A x \in Groups : t[x].period = s[x].period /\ t[x].runtime = s[x].runtime
<1>1. SetCpus(s, g, k) \in [Groups -> Group]
    BY UpdateType
<1>2. \A x \in Groups : s[x] \in Group
    OBVIOUS
<1> QED
    BY <1>1, <1>2 DEF SetCpus, Group

\* The shares of the groups are natural numbers.
LEMMA Shares ==
    ASSUME NEW s \in [Groups -> Group]
    PROVE  \A g \in Groups, d \in Dims : Share(s[g], d) \in Nat
<1> SUFFICES ASSUME NEW g \in Groups, NEW d \in Dims
             PROVE  Share(s[g], d) \in Nat
    OBVIOUS
<1>1. s[g].period \in Nat \ {0} /\ s[g].runtime[d] \in Int
    BY DEF Group
<1> QED
    BY <1>1, ShareType, BandwidthAssumption

\* Admission looks at periods and runtimes only.
LEMMA SameBandwidth ==
    ASSUME NEW s \in [Groups -> Group], NEW t \in [Groups -> Group], Schedulable(s),
           \A g \in Groups : /\ t[g].period = s[g].period
                             /\ \A d \in Dims : t[g].runtime[d] = s[g].runtime[d]
    PROVE  Schedulable(t)
<1>1. \A g \in Groups, d \in Dims : Share(t[g], d) = Share(s[g], d)
    BY DEF Share
<1>2. ASSUME NEW d \in Dims
      PROVE  /\ \A g \in Groups : t[g].runtime[d] <= t[g].period
             /\ Demand(t, d) <= Share(t[Pod], d)
             /\ Share(t[Pod], d) <= Budget
  <2>1. Demand(t, d) = Demand(s, d)
      BY <1>1, DemandSame DEF Groups
  <2>2. Share(t[Pod], d) = Share(s[Pod], d)
      BY <1>1 DEF Groups
  <2> QED
      BY <2>1, <2>2 DEF Schedulable
<1> QED
    BY <1>2 DEF Schedulable

\* A write of one runtime changes the demand and the shares of its own core at most.
LEMMA OtherCores ==
    ASSUME NEW s \in [Groups -> Group], NEW t \in [Groups -> Group], NEW d \in Dims,
           \A k \in Groups : t[k].period = s[k].period,
           \A k \in Groups, e \in Dims : e # d => t[k].runtime[e] = s[k].runtime[e],
           Schedulable(s),
           /\ \A g \in Groups : t[g].runtime[d] <= t[g].period
           /\ Demand(t, d) <= Share(t[Pod], d)
           /\ Share(t[Pod], d) <= Budget
    PROVE  Schedulable(t)
<1>1. ASSUME NEW e \in Dims, e # d
      PROVE  /\ \A g \in Groups : t[g].runtime[e] <= t[g].period
             /\ Demand(t, e) <= Share(t[Pod], e)
             /\ Share(t[Pod], e) <= Budget
  <2>1. \A g \in Groups : t[g].runtime[e] = s[g].runtime[e] /\ Share(t[g], e) = Share(s[g], e)
      BY <1>1 DEF Share
  <2>2. Demand(t, e) = Demand(s, e)
      BY <2>1, DemandSame DEF Groups
  <2> QED
      BY <2>1, <2>2 DEF Schedulable, Groups
<1> QED
    BY <1>1 DEF Schedulable

\* The container may be given what the pod has, where no other container holds anything:
\* the second step of an increase and the first step of a decrease are never refused.
LEMMA ContainerFits ==
    ASSUME NEW s, GroupsOK(s), NEW c \in Containers, NEW d \in Dims, NEW v \in Nat,
           v <= s[Pod].runtime[d],
           \A x \in Containers \ {c} : s[x].runtime[d] = 0
    PROVE  Schedulable(SetRuntime(s, c, d, v))
<1> DEFINE t == SetRuntime(s, c, d, v)
<1>1. c \in Groups /\ Pod \in Groups /\ c # Pod /\ Containers \subseteq Groups
    BY BandwidthAssumption DEF Groups
<1>2. s \in [Groups -> Group] /\ Schedulable(s)
    BY DEF GroupsOK
<1>3. /\ t \in [Groups -> Group]
      /\ t[c].runtime[d] = v
      /\ \A k \in Groups : t[k].period = s[k].period
      /\ \A k \in Groups : k # c => t[k] = s[k]
      /\ \A k \in Groups, e \in Dims : e # d => t[k].runtime[e] = s[k].runtime[e]
    BY <1>1, <1>2, SetRuntimeValues
<1> HIDE DEF t
<1>4. /\ s[Pod].period = DefaultPeriod /\ t[c].period = DefaultPeriod
      /\ s[Pod].runtime[d] \in Nat
    BY <1>1, <1>2, <1>3 DEF GroupsOK, Group
<1>5. DefaultPeriod \in Nat \ {0} /\ BwUnit \in Nat \ {0}
    BY BandwidthAssumption, ControllerAssumption
<1>6. Share(t[c], d) <= Share(s[Pod], d)
    BY <1>3, <1>4, <1>5, ShareMonotone
<1>7. Demand(t, d) = Share(t[c], d)
  <2>1. Share(t[c], d) \in Int
      BY <1>1, <1>3, Shares
  <2>2. ASSUME NEW x \in Containers \ {c}
        PROVE  Share(t[x], d) = 0
    <3>1. t[x].runtime[d] = 0 /\ t[x].period = DefaultPeriod
        BY <1>1, <1>3 DEF GroupsOK
    <3> QED
        BY <3>1, <1>5, NoShare
  <2> QED
      BY <2>1, <2>2, DemandOfOwner
<1>8. \A g \in Groups : t[g].runtime[d] <= t[g].period
  <2>1. \A g \in Groups : s[g].runtime[d] <= s[g].period
      BY <1>2 DEF Schedulable
  <2>2. v <= DefaultPeriod
      BY <1>1, <1>4, <1>5, <2>1
  <2> QED
      BY <1>3, <1>4, <2>1, <2>2
<1>9. Share(t[Pod], d) = Share(s[Pod], d) /\ Share(s[Pod], d) <= Budget
    BY <1>1, <1>2, <1>3 DEF Schedulable
<1>10. Demand(t, d) <= Share(t[Pod], d) /\ Share(t[Pod], d) <= Budget
    BY <1>6, <1>7, <1>9
<1>11. Schedulable(t)
    BY <1>2, <1>3, <1>8, <1>10, OtherCores
<1> QED
    BY <1>11 DEF t

\* The pod may be given what its containers hold, within the budget.
LEMMA PodFits ==
    ASSUME NEW s, GroupsOK(s), NEW d \in Dims, NEW v \in Nat,
           v <= DefaultPeriod,
           Demand(s, d) <= (v * BwUnit) \div DefaultPeriod,
           (v * BwUnit) \div DefaultPeriod <= Budget
    PROVE  Schedulable(SetRuntime(s, Pod, d, v))
<1> DEFINE t == SetRuntime(s, Pod, d, v)
<1>1. Pod \in Groups /\ Containers \subseteq Groups /\ Pod \notin Containers
    BY BandwidthAssumption DEF Groups
<1>2. s \in [Groups -> Group] /\ Schedulable(s)
    BY DEF GroupsOK
<1>3. /\ t \in [Groups -> Group]
      /\ t[Pod].runtime[d] = v
      /\ \A k \in Groups : t[k].period = s[k].period
      /\ \A k \in Groups : k # Pod => t[k] = s[k]
      /\ \A k \in Groups, e \in Dims : e # d => t[k].runtime[e] = s[k].runtime[e]
    BY <1>1, <1>2, SetRuntimeValues
<1> HIDE DEF t
<1>4. t[Pod].period = DefaultPeriod
    BY <1>1, <1>3 DEF GroupsOK
<1>5. Share(t[Pod], d) = (v * BwUnit) \div DefaultPeriod
    BY <1>3, <1>4 DEF Share
<1>6. Demand(t, d) = Demand(s, d)
    BY <1>1, <1>3, DemandSame
<1>7. \A g \in Groups : t[g].runtime[d] <= t[g].period
    BY <1>2, <1>3, <1>4 DEF Schedulable
<1>8. Demand(t, d) <= Share(t[Pod], d) /\ Share(t[Pod], d) <= Budget
    BY <1>5, <1>6
<1>9. Schedulable(t)
    BY <1>2, <1>3, <1>7, <1>8, OtherCores
<1> QED
    BY <1>9 DEF t

--------------------------------------------------------------------------------
\* The part of the invariant that is about one handler.
HandlerInv(h) ==
    /\ ReadingInv(h) /\ WritingInv(h)
    /\ pc[h] = "idle" /\ answer[h] = "ok"
          => \A g \in {Pod, req[h].container} :
                 cg[g].runtime[req[h].core] = GrantedRuntime(req[h])
    /\ answer[h] = "refused" /\ ~blind[h] => OverBudget(req[h])
    /\ answer[h] = "refused" => ~second[h]

LEMMA InvariantParts ==
    IInv <=> TypeOK /\ GroupsInv /\ \A h \in Handlers : HandlerInv(h)
BY DEF IInv, HandlerInv, OkMeansReserved, RefusedOnlyOverBudget, RefusalIsClean

\* A disciplined request asks for a natural number and the one period.
LEMMA DisciplinedRequest ==
    ASSUME Disciplined, TypeOK, NEW h \in Handlers,
           pc[h] # "idle" \/ answer[h] \in {"ok", "refused"}
    PROVE  LET r == req[h]
           IN  /\ r \in Requests[h]
               /\ r \in CgroupRequest
               /\ r.runtime \in Nat
               /\ r.period = DefaultPeriod
               /\ r.runtime <= DefaultPeriod
               /\ WrittenRuntime(r) = r.runtime
               /\ GrantedRuntime(r) = r.runtime
<1>1. req[h] \in Requests[h] /\ Valid(req[h])
    BY DEF TypeOK
<1>2. req[h] \in CgroupRequest
    BY <1>1, ControllerAssumption
<1>3. req[h].runtime >= 0 /\ req[h].period = DefaultPeriod
    BY <1>1 DEF Disciplined
<1>4. req[h].runtime \in Nat /\ req[h].runtime <= DefaultPeriod
    BY <1>1, <1>2, <1>3 DEF Valid, CgroupRequest
<1>5. WrittenRuntime(req[h]) = req[h].runtime /\ GrantedRuntime(req[h]) = req[h].runtime
    BY <1>4 DEF WrittenRuntime, GrantedRuntime, StoredRuntime
<1> QED
    BY <1>1, <1>2, <1>3, <1>4, <1>5

\* On the core of a disciplined request, only its own container holds anything.
LEMMA SoleOwner ==
    ASSUME Disciplined, TypeOK, GroupsInv, NEW h \in Handlers, pc[h] # "idle",
           NEW x \in Containers \ {req[h].container}
    PROVE  cg[x].runtime[req[h].core] = 0
<1>1. req[h] \in Requests[h] /\ req[h].core \in Dims
    BY DisciplinedRequest DEF CgroupRequest
<1>2. cg[x] \in Group /\ cg[x].runtime[req[h].core] \in Int /\ cg[x].runtime[req[h].core] >= 0
    BY <1>1 DEF TypeOK, Group, Groups, GroupsInv
<1>3. ~(cg[x].runtime[req[h].core] > 0)
  <2> SUFFICES ASSUME cg[x].runtime[req[h].core] > 0
               PROVE  FALSE
      OBVIOUS
  <2>1. PICK i \in Handlers :
           \E r \in Requests[i] : r.container = x /\ r.core = req[h].core
      BY <1>1 DEF GroupsInv, OwnersOnly
  <2>2. PICK r \in Requests[i] : r.container = x /\ r.core = req[h].core
      BY <2>1
  <2>3. r.container = req[h].container
      BY <1>1, <2>2 DEF Disciplined
  <2> QED
      BY <2>2, <2>3
<1> QED
    BY <1>2, <1>3

\* A step of handler h that writes at most the runtimes of its own core leaves
\* the others' part of the invariant as it was.
LEMMA OthersKeepInvariant ==
    ASSUME Disciplined, TypeOK,
           NEW h \in Handlers, NEW i \in Handlers, i # h, HandlerInv(i),
           pc'[i] = pc[i], req'[i] = req[i], lower'[i] = lower[i],
           second'[i] = second[i], blind'[i] = blind[i], answer'[i] = answer[i],
           \/ cg' = cg
           \/ /\ pc[h] # "idle"
              /\ \A g \in Groups, d \in Dims :
                    d # req[h].core => cg'[g].runtime[d] = cg[g].runtime[d]
    PROVE  HandlerInv(i)'
<1>1. ReadingInv(i)'
    BY DEF HandlerInv, ReadingInv
<1>2. /\ (answer[i] = "refused" /\ ~blind[i] => OverBudget(req[i]))'
      /\ (answer[i] = "refused" => ~second[i])'
    BY DEF HandlerInv, OverBudget, Utilization, GrantedRuntime, StoredRuntime, WrittenRuntime
<1>3. ASSUME pc[i] # "idle" \/ answer[i] \in {"ok", "refused"}
      PROVE  /\ req[i].container \in Groups /\ req[i].core \in Dims
             /\ \A g \in Groups :
                   cg'[g].runtime[req[i].core] = cg[g].runtime[req[i].core]
  <2>1. /\ req[i] \in Requests[i] /\ req[i] \in CgroupRequest
      BY <1>3, DisciplinedRequest
  <2>2. CASE cg' = cg
      BY <2>1, <2>2 DEF CgroupRequest, Groups
  <2>3. CASE pc[h] # "idle" /\ \A g \in Groups, d \in Dims :
                    d # req[h].core => cg'[g].runtime[d] = cg[g].runtime[d]
    <3>1. req[h] \in Requests[h]
        BY <2>3, DisciplinedRequest
    <3>2. req[i].core # req[h].core
        BY <2>1, <3>1 DEF Disciplined
    <3> QED
        BY <2>1, <2>3, <3>2 DEF CgroupRequest, Groups
  <2> QED
      BY <2>2, <2>3
<1>4. Pod \in Groups
    BY DEF Groups
<1>5. WritingInv(i)'
  <2>1. CASE pc[i] \in Files
    <3>1. /\ pc[i] # "idle" /\ RuntimeDone(i)' = RuntimeDone(i)
        BY <2>1 DEF Files, RuntimeDone
    <3>2. Other(i)' = Other(i) /\ Target(i)' = Target(i)
        BY DEF Other, Target
    <3>3. Other(i) \in Groups /\ Target(i) \in Groups
        BY <3>1, <1>3, <1>4 DEF Other, Target
    <3>4. /\ cg'[Pod].runtime[req[i].core] = cg[Pod].runtime[req[i].core]
          /\ cg'[Other(i)].runtime[req[i].core] = cg[Other(i)].runtime[req[i].core]
          /\ cg'[Target(i)].runtime[req[i].core] = cg[Target(i)].runtime[req[i].core]
        BY <3>1, <3>3, <1>3, <1>4
    <3> QED
        BY <2>1, <3>1, <3>2, <3>4 DEF HandlerInv, WritingInv
  <2>2. CASE pc[i] \notin Files
      BY <2>2 DEF WritingInv
  <2> QED
      BY <2>1, <2>2
<1>6. (pc[i] = "idle" /\ answer[i] = "ok"
          => \A g \in {Pod, req[i].container} :
                 cg[g].runtime[req[i].core] = GrantedRuntime(req[i]))'
    BY <1>3, <1>4 DEF HandlerInv, GrantedRuntime, StoredRuntime, WrittenRuntime
<1> QED
    BY <1>1, <1>2, <1>5, <1>6 DEF HandlerInv

\* After a file is written, what is known of the two groups carries over to the
\* next file, to the second group, or to the answer.
LEMMA AfterFile ==
    ASSUME Disciplined, TypeOK, NEW h \in Handlers, pc[h] \in Files,
           ReadingInv(h), Advance(h),
           req' = req, lower' = lower, blind' = blind,
           lower[h] => req[h].runtime <= cg'[Pod].runtime[req[h].core],
           ~lower[h] /\ ~blind[h] => cg'[Pod].runtime[req[h].core] <= req[h].runtime,
           second[h] => cg'[Other(h)].runtime[req[h].core] = req[h].runtime,
           pc[h] = "runtime" \/ RuntimeDone(h)
               => cg'[Target(h)].runtime[req[h].core] = req[h].runtime
    PROVE  HandlerInv(h)'
<1> DEFINE r == req[h]
           next == NextFile(r, lower[h], pc[h])
<1>1. /\ pc[h] # "idle" /\ answer[h] = "none"
      /\ pc \in [Handlers -> Steps] /\ answer \in [Handlers -> Answers]
      /\ second \in [Handlers -> BOOLEAN] /\ lower[h] \in BOOLEAN
    BY DEF ReadingInv, Files, TypeOK
<1>2. GrantedRuntime(r) = r.runtime
    BY <1>1, DisciplinedRequest
<1>3. CASE next # "done"
  <2>1. pc'[h] = next /\ second' = second /\ answer' = answer
      BY <1>1, <1>3 DEF Advance
  <2>2. /\ next \in Files
        /\ next # "idle" /\ next \notin {"inspect", "readPeriod", "readRuntime", "readCore"}
        /\ next = "cpuset" => r.core # AnyCore
        /\ next \in {"period", "cpuset"} => ~r.only
        /\ next = "cpuset" \/ (next = "period" /\ lower[h])
              => pc[h] = "runtime" \/ RuntimeDone(h)
      BY <1>3 DEF NextFile, FirstFile, Files, RuntimeDone
  <2>3. ReadingInv(h)'
      BY <1>1, <2>1, <2>2 DEF ReadingInv
  <2>4. WritingInv(h)'
      BY <2>1, <2>2 DEF WritingInv, RuntimeDone, Other, Target
  <2> QED
      BY <1>1, <2>1, <2>2, <2>3, <2>4 DEF HandlerInv
<1>4. CASE next = "done" /\ ~second[h]
  <2>1. pc'[h] = FirstFile(r, lower[h]) /\ second'[h] = TRUE /\ answer' = answer
      BY <1>1, <1>4 DEF Advance
  <2>2. /\ pc'[h] \in Files /\ pc'[h] # "cpuset" /\ ~(pc'[h] = "period" /\ lower[h])
        /\ pc'[h] # "idle"
        /\ pc'[h] = "period" => ~r.only
        /\ pc'[h] \notin {"inspect", "readPeriod", "readRuntime", "readCore"}
      BY <2>1 DEF FirstFile, Files
  <2>3. pc[h] = "runtime" \/ RuntimeDone(h)
      BY <1>4 DEF NextFile, FirstFile, Files, RuntimeDone, ReadingInv
  <2>4. Other(h)' = Target(h)
      BY <1>1, <1>4, <2>1 DEF Other, Target
  <2>5. ReadingInv(h)'
      BY <1>1, <2>1, <2>2 DEF ReadingInv
  <2>6. WritingInv(h)'
      BY <2>2, <2>3, <2>4 DEF WritingInv, RuntimeDone
  <2> QED
      BY <1>1, <2>1, <2>2, <2>5, <2>6 DEF HandlerInv
<1>5. CASE next = "done" /\ second[h]
  <2>1. pc'[h] = "idle" /\ answer'[h] = "ok"
      BY <1>1, <1>5 DEF Advance, Reply
  <2>2. pc[h] = "runtime" \/ RuntimeDone(h)
      BY <1>5 DEF NextFile, FirstFile, Files, RuntimeDone, ReadingInv
  <2>3. {Other(h), Target(h)} = {Pod, r.container}
      BY DEF Other, Target
  <2>4. \A g \in {Pod, r.container} : cg'[g].runtime[r.core] = r.runtime
      BY <1>5, <2>2, <2>3
  <2>5. GrantedRuntime(r)' = r.runtime
      BY <1>2 DEF GrantedRuntime, StoredRuntime, WrittenRuntime
  <2> QED
      BY <2>1, <2>4, <2>5 DEF HandlerInv, ReadingInv, WritingInv, Files
<1> QED
    BY <1>3, <1>4, <1>5

\* The kernel refuses the runtime of a handler only at its first group, and, if
\* the handler knew the pod's runtime, only for the budget.
LEMMA RefusedRuntime ==
    ASSUME Disciplined, TypeOK, GroupsInv, GroupsOK(cg),
           NEW h \in Handlers, pc[h] = "runtime", WritingInv(h),
           ~Schedulable(SetRuntime(cg, Target(h), req[h].core, req[h].runtime))
    PROVE  ~second[h] /\ (~blind[h] => OverBudget(req[h]))
<1> DEFINE r == req[h]
           d == r.core
           v == r.runtime
           c == r.container
<1>1. /\ d \in Dims /\ v \in Nat /\ v <= DefaultPeriod
      /\ c \in Containers /\ r.period = DefaultPeriod
      /\ GrantedRuntime(r) = v
    BY DisciplinedRequest DEF CgroupRequest
<1>2. /\ lower[h] => v <= cg[Pod].runtime[d]
      /\ ~lower[h] /\ ~blind[h] => cg[Pod].runtime[d] <= v
      /\ second[h] => cg[Other(h)].runtime[d] = v
    BY DEF WritingInv, Files
<1>3. /\ c \in Groups /\ Pod \in Groups /\ c # Pod /\ cg \in [Groups -> Group]
      /\ \A x \in Containers \ {c} : cg[x].runtime[d] = 0
    BY <1>1, SoleOwner, BandwidthAssumption DEF Groups, GroupsOK
<1>4. /\ Demand(cg, d) <= Share(cg[Pod], d)
      /\ Share(cg[Pod], d) <= Budget
    BY <1>1 DEF GroupsOK, Schedulable
<1>5. /\ cg[c].period = DefaultPeriod /\ cg[Pod].period = DefaultPeriod
      /\ cg[c].runtime[d] \in Nat /\ cg[Pod].runtime[d] \in Nat
    BY <1>1, <1>3 DEF GroupsOK, Group
<1>6. lower[h] \in BOOLEAN /\ second[h] \in BOOLEAN
    BY DEF TypeOK
<1> DEFINE want == (v * BwUnit) \div DefaultPeriod
<1>7. want \in Int
  <2>1. v * BwUnit \in Int
      BY <1>1, BandwidthAssumption
  <2> QED
      BY <2>1, DivisionBounds, ControllerAssumption
<1>8. Share(cg[c], d) \in Int /\ Share(cg[Pod], d) \in Int /\ Demand(cg, d) = Share(cg[c], d)
  <2>1. Share(cg[c], d) \in Int /\ Share(cg[Pod], d) \in Int
      BY <1>1, <1>3, Shares
  <2>2. ASSUME NEW x \in Containers \ {c}
        PROVE  Share(cg[x], d) = 0
    <3>1. cg[x].runtime[d] = 0 /\ cg[x].period = DefaultPeriod
        BY <1>3 DEF GroupsOK, Groups
    <3> QED
        BY <3>1, NoShare, BandwidthAssumption, ControllerAssumption
  <2> QED
      BY <1>1, <2>1, <2>2, DemandOfOwner
<1>9. ASSUME Target(h) = c PROVE FALSE
  <2>1. v <= cg[Pod].runtime[d]
    <3>1. c # Pod
        BY <1>3
    <3>2. (lower[h] /\ ~second[h]) \/ (~lower[h] /\ second[h] /\ Other(h) = Pod)
               \/ ~(lower[h] # second[h])
        BY <1>6 DEF Other
    <3>3. lower[h] # second[h]
        BY <1>9, <3>1 DEF Target
    <3> QED
        BY <3>2, <3>3, <1>2, <1>5
  <2> QED
      BY <2>1, <1>1, <1>3, <1>9, ContainerFits
<1>10. Target(h) = Pod /\ lower[h] = second[h]
    BY <1>1, <1>6, <1>9 DEF Target
<1>11. ~(Share(cg[c], d) <= want /\ want <= Budget)
    BY <1>1, <1>8, <1>10, PodFits
<1>12. ~second[h]
  <2> SUFFICES ASSUME second[h] PROVE FALSE
      OBVIOUS
  <2>1. Other(h) = c /\ cg[c].runtime[d] = v
      BY <1>1, <1>2, <1>10 DEF Other
  <2>2. Share(cg[c], d) = want
      BY <2>1, <1>1, <1>5 DEF Share
  <2> QED
      BY <2>2, <1>4, <1>8, <1>11, BandwidthAssumption
<1>13. ASSUME ~blind[h] PROVE OverBudget(r)
  <2>1. cg[Pod].runtime[d] <= v
      BY <1>2, <1>10, <1>12, <1>13
  <2>2. Share(cg[Pod], d) <= want
    <3>1. cg[Pod].runtime[d] * BwUnit <= v * BwUnit
        BY <2>1, <1>1, <1>5, ProductMonotone, BandwidthAssumption
    <3>2. cg[Pod].runtime[d] * BwUnit \in Int /\ v * BwUnit \in Int
        BY <1>1, <1>5, BandwidthAssumption
    <3>3. (cg[Pod].runtime[d] * BwUnit) \div DefaultPeriod <= want
        BY <3>1, <3>2, DivisionMonotone, ControllerAssumption
    <3> QED
        BY <3>3, <1>5 DEF Share
  <2>3. Share(cg[c], d) <= want
      BY <2>2, <1>4, <1>7, <1>8
  <2>4. want > Budget
      BY <2>3, <1>7, <1>11, BandwidthAssumption
  <2> QED
      BY <2>4, <1>1 DEF OverBudget, Utilization
<1> QED
    BY <1>12, <1>13

\* The kernel's rule holds of fresh groups.
LEMMA FreshSchedulable ==
    ASSUME Init, TypeOK
    PROVE  Schedulable(cg)
<1>1. Containers \subseteq Groups /\ Pod \in Groups
    BY DEF Groups
<1>2. \A g \in Groups : cg[g].period = DefaultPeriod /\ \A d \in Dims : cg[g].runtime[d] = 0
    BY DEF Init, FreshGroup
<1>3. \A g \in Groups, d \in Dims : Share(cg[g], d) = 0
    BY <1>2, NoShare, BandwidthAssumption, ControllerAssumption
<1>4. \A d \in Dims : Demand(cg, d) = 0
    BY <1>1, <1>3, DemandOfNobody
<1> QED
    BY <1>1, <1>2, <1>3, <1>4, BandwidthAssumption, ControllerAssumption DEF Schedulable

\* The initial state satisfies the invariant.
LEMMA InitInvariant ==
    ASSUME Disciplined, Init, TypeOK
    PROVE  IInv
<1>1. Containers \subseteq Groups /\ Pod \in Groups /\ AnyCore \in Dims
    BY DEF Groups, Dims
<1>2. \A g \in Groups : cg[g].period = DefaultPeriod /\ \A d \in Dims : cg[g].runtime[d] = 0
    BY DEF Init, FreshGroup
<1>4. Schedulable(cg)
    BY FreshSchedulable
<1>5. GroupsInv
    BY <1>1, <1>2, <1>4 DEF GroupsInv, OwnersOnly
<1>6. \A h \in Handlers : HandlerInv(h)
    BY DEF Init, HandlerInv, ReadingInv, WritingInv, Files
<1> QED
    BY <1>5, <1>6, InvariantParts

\* Each step of a handler preserves the invariant.
LEMMA StepInvariant ==
    ASSUME Disciplined, IInv, TypeOK', [Next]_vars
    PROVE  IInv'
<1>1. TypeOK /\ GroupsInv /\ \A h \in Handlers : HandlerInv(h)
    BY InvariantParts
<1>2. GroupsOK(cg)
    BY <1>1 DEF GroupsOK, GroupsInv, TypeOK
<1>3. Containers \subseteq Groups /\ Pod \in Groups /\ AnyCore \in Dims
    BY DEF Groups, Dims
<1>4. SUFFICES GroupsInv' /\ \A h \in Handlers : HandlerInv(h)'
  <2>1. IInv' <=> (TypeOK /\ GroupsInv /\ \A h \in Handlers : HandlerInv(h))'
      BY InvariantParts, PTL
  <2> QED
      BY <2>1
<1>5. ASSUME cg' = cg PROVE GroupsInv'
    BY <1>1, <1>5 DEF GroupsInv, OwnersOnly
<1>6. ASSUME NEW h \in Handlers, Receive(h)
      PROVE  GroupsInv' /\ \A i \in Handlers : HandlerInv(i)'
  <2>1. cg' = cg
      BY <1>6 DEF Receive
  <2>2. HandlerInv(h)'
      BY <1>1, <1>6 DEF Receive, TypeOK, HandlerInv, ReadingInv, WritingInv, Files
  <2>3. ASSUME NEW i \in Handlers, i # h PROVE HandlerInv(i)'
      BY <1>1, <1>6, <2>1, <2>3, OthersKeepInvariant DEF Receive, TypeOK
  <2> QED
      BY <1>5, <2>1, <2>2, <2>3
<1>7. ASSUME NEW h \in Handlers, pc[h] # "idle", cg' = cg, req' = req,
             \A i \in Handlers : i # h => /\ pc'[i] = pc[i]
                                          /\ lower'[i] = lower[i]
                                          /\ second'[i] = second[i]
                                          /\ blind'[i] = blind[i]
                                          /\ answer'[i] = answer[i],
             HandlerInv(h)'
      PROVE  GroupsInv' /\ \A i \in Handlers : HandlerInv(i)'
    BY <1>1, <1>5, <1>7, OthersKeepInvariant
<1>8. ASSUME NEW h \in Handlers, Preflight(h)
      PROVE  GroupsInv' /\ \A i \in Handlers : HandlerInv(i)'
  <2>1. HandlerInv(h)'
      BY <1>1, <1>8 DEF Preflight, Reply, TypeOK, HandlerInv, ReadingInv, WritingInv, Files
  <2> QED
      BY <1>1, <1>7, <1>8, <2>1 DEF Preflight, Reply, TypeOK
<1>9. ASSUME NEW h \in Handlers, ReadPeriod(h)
      PROVE  GroupsInv' /\ \A i \in Handlers : HandlerInv(i)'
  <2>1. pc[h] = "readPeriod" /\ ~(req[h].period < cg[Pod].period)
    <3>1. req[h].period = DefaultPeriod
        BY <1>1, <1>9, DisciplinedRequest DEF ReadPeriod
    <3> QED
        BY <1>2, <1>3, <1>9, <3>1, ControllerAssumption DEF ReadPeriod, GroupsOK
  <2>2. HandlerInv(h)'
      BY <1>1, <1>9, <2>1 DEF ReadPeriod, TypeOK, HandlerInv, ReadingInv, WritingInv, Files
  <2> QED
      BY <1>1, <1>7, <1>9, <2>2 DEF ReadPeriod, TypeOK
<1>10. ASSUME NEW h \in Handlers, ReadRuntime(h)
       PROVE  GroupsInv' /\ \A i \in Handlers : HandlerInv(i)'
  <2> DEFINE r == req[h]
             low == lower'[h]
  <2>1. /\ pc[h] = "readRuntime" /\ answer[h] = "none"
        /\ ~lower[h] /\ ~second[h] /\ ~blind[h]
      BY <1>1, <1>10 DEF ReadRuntime, HandlerInv, ReadingInv
  <2>2. /\ r \in Requests[h] /\ r.runtime \in Nat /\ r.core \in Dims
      BY <1>1, <2>1, DisciplinedRequest DEF CgroupRequest
  <2>3. /\ low = /\ ~r.only \/ r.core = AnyCore
                 /\ IsRuntimeDecrease(cg[Pod].runtime[AnyCore], r.runtime)
        /\ pc'[h] = IF r.core = AnyCore THEN FirstFile(r, low) ELSE "readCore"
        /\ UNCHANGED <<cg, req, second, blind, answer>>
      BY <1>1, <1>10, <2>1 DEF ReadRuntime, TypeOK
  <2>4. cg[Pod].runtime[AnyCore] \in Nat
      BY <1>2, <1>3 DEF GroupsOK, Group
  <2>5. CASE r.core = AnyCore
    <3>1. /\ low => r.runtime <= cg[Pod].runtime[r.core]
          /\ ~low => cg[Pod].runtime[r.core] <= r.runtime
        BY <2>2, <2>3, <2>4, <2>5 DEF IsRuntimeDecrease
    <3>2. /\ pc'[h] \in {"period", "runtime"}
          /\ pc'[h] = "period" => ~low /\ ~r.only
        BY <2>3, <2>5 DEF FirstFile
    <3>3. HandlerInv(h)'
        BY <2>1, <2>3, <3>1, <3>2 DEF HandlerInv, ReadingInv, WritingInv, RuntimeDone
    <3> QED
        BY <1>1, <1>7, <1>10, <2>1, <2>3, <3>3 DEF ReadRuntime, TypeOK
  <2>6. CASE r.core # AnyCore
    <3>1. ~low
      <4>1. ~r.only => cg[Pod].runtime[AnyCore] = 0
          BY <1>1, <2>2, <2>6 DEF GroupsInv
      <4> QED
          BY <2>2, <2>3, <2>6, <4>1 DEF IsRuntimeDecrease
    <3>2. pc'[h] = "readCore"
        BY <2>3, <2>6
    <3>3. HandlerInv(h)'
        BY <2>1, <2>3, <2>6, <3>1, <3>2 DEF HandlerInv, ReadingInv, WritingInv, Files
    <3> QED
        BY <1>1, <1>7, <1>10, <2>1, <2>3, <3>3 DEF ReadRuntime, TypeOK
  <2> QED
      BY <2>5, <2>6
<1>11. ASSUME NEW h \in Handlers, ReadCore(h)
       PROVE  GroupsInv' /\ \A i \in Handlers : HandlerInv(i)'
  <2> DEFINE r == req[h]
             low == lower'[h]
  <2>1. /\ pc[h] = "readCore" /\ answer[h] = "none" /\ r.core # AnyCore
        /\ ~lower[h] /\ ~second[h] /\ ~blind[h]
      BY <1>1, <1>11 DEF ReadCore, HandlerInv, ReadingInv
  <2>2. r.runtime \in Nat /\ r.core \in Dims
      BY <1>1, <2>1, DisciplinedRequest DEF CgroupRequest
  <2>3. PICK unread \in {FALSE, Faults}, dec \in BOOLEAN :
           /\ dec <=> lower[h] \/ IsRuntimeDecrease(
                         IF unread THEN 0 ELSE cg[Pod].runtime[r.core], r.runtime)
           /\ lower' = [lower EXCEPT ![h] = dec]
           /\ blind' = [blind EXCEPT ![h] = unread]
           /\ pc' = [pc EXCEPT ![h] = FirstFile(r, dec)]
      BY <1>11 DEF ReadCore
  <2>4. cg[Pod].runtime[r.core] \in Nat
      BY <1>2, <1>3, <2>2 DEF GroupsOK, Group
  <2>5. /\ low => r.runtime <= cg[Pod].runtime[r.core]
        /\ ~low /\ ~blind'[h] => cg[Pod].runtime[r.core] <= r.runtime
        /\ pc'[h] = FirstFile(r, low)
    <3>1. low = dec /\ blind'[h] = unread /\ pc'[h] = FirstFile(r, dec)
        BY <1>1, <2>3 DEF TypeOK
    <3>2. unread \in BOOLEAN
        BY ControllerAssumption
    <3>3. dec => r.runtime <= cg[Pod].runtime[r.core]
        BY <2>1, <2>2, <2>3, <2>4 DEF IsRuntimeDecrease
    <3>4. ~dec /\ ~unread => cg[Pod].runtime[r.core] <= r.runtime
        BY <2>1, <2>2, <2>3, <2>4 DEF IsRuntimeDecrease
    <3> QED
        BY <3>1, <3>2, <3>3, <3>4
  <2>6. UNCHANGED <<cg, req, second, answer>>
      BY <1>11 DEF ReadCore
  <2>7. /\ pc'[h] \in {"period", "runtime"}
        /\ pc'[h] = "period" => ~low /\ ~r.only
      BY <2>5 DEF FirstFile
  <2>8. HandlerInv(h)'
      BY <2>1, <2>5, <2>6, <2>7 DEF HandlerInv, ReadingInv, WritingInv, RuntimeDone
  <2>9. \A i \in Handlers : i # h => /\ pc'[i] = pc[i]
                                     /\ lower'[i] = lower[i]
                                     /\ second'[i] = second[i]
                                     /\ blind'[i] = blind[i]
                                     /\ answer'[i] = answer[i]
      BY <1>1, <2>3, <2>6 DEF TypeOK
  <2> QED
      BY <1>7, <2>1, <2>6, <2>8, <2>9
<1>12. ASSUME NEW h \in Handlers, WriteRuntime(h)
       PROVE  GroupsInv' /\ \A i \in Handlers : HandlerInv(i)'
  <2> DEFINE r == req[h]
             d == r.core
             new == SetRuntime(cg, Target(h), d, r.runtime)
  <2>1. /\ pc[h] = "runtime" /\ pc[h] \in Files /\ UNCHANGED <<req, lower, blind>>
        /\ ReadingInv(h) /\ WritingInv(h)
      BY <1>1, <1>12 DEF WriteRuntime, HandlerInv, Files
  <2>2. /\ r \in Requests[h] /\ d \in Dims /\ r.runtime \in Nat /\ r.container \in Containers
        /\ WrittenRuntime(r) = r.runtime
      BY <1>1, <2>1, DisciplinedRequest DEF CgroupRequest
  <2>3. Target(h) \in Groups /\ Other(h) \in Groups /\ Target(h) # Other(h)
      BY <1>3, <2>2, BandwidthAssumption DEF Target, Other
  <2>4. CASE Schedulable(new) /\ cg' = new /\ Advance(h)
    <3>1. /\ cg' \in [Groups -> Group]
          /\ cg'[Target(h)].runtime[d] = r.runtime
          /\ \A k \in Groups : cg'[k].period = cg[k].period
          /\ \A k \in Groups : k # Target(h) => cg'[k] = cg[k]
          /\ \A k \in Groups, e \in Dims : e # d => cg'[k].runtime[e] = cg[k].runtime[e]
        BY <1>2, <2>2, <2>3, <2>4, SetRuntimeValues DEF GroupsOK
    <3>2. \A g \in Groups : /\ cg'[g].period = DefaultPeriod
                            /\ \A e \in Dims : cg'[g].runtime[e] >= 0
        BY <1>2, <2>2, <3>1 DEF GroupsOK
    <3>3. (\E i \in Handlers : \E s \in Requests[i] : ~s.only /\ s.core # AnyCore)
              => cg'[Pod].runtime[AnyCore] = 0
      <4> SUFFICES ASSUME NEW i \in Handlers, NEW s \in Requests[i],
                          ~s.only, s.core # AnyCore
                   PROVE  cg'[Pod].runtime[AnyCore] = 0
          OBVIOUS
      <4>1. d # AnyCore
          BY <2>2 DEF Disciplined
      <4> QED
          BY <1>1, <1>3, <3>1, <4>1 DEF GroupsInv
    <3>4. Schedulable(cg')
        BY <2>4
    <3>5. OwnersOnly'
      <4> SUFFICES ASSUME NEW x \in Containers, NEW e \in Dims, cg'[x].runtime[e] > 0
                   PROVE  \E i \in Handlers : \E s \in Requests[i] : s.container = x /\ s.core = e
          BY DEF OwnersOnly
      <4>1. CASE cg'[x].runtime[e] = cg[x].runtime[e]
          BY <1>1, <4>1 DEF GroupsInv, OwnersOnly
      <4>2. CASE cg'[x].runtime[e] # cg[x].runtime[e]
        <5>1. e = d /\ x = Target(h)
            BY <1>3, <3>1, <4>2
        <5>2. x = r.container
            BY <5>1, BandwidthAssumption DEF Target
        <5> QED
            BY <2>2, <5>1, <5>2
      <4> QED
          BY <4>1, <4>2
    <3>8. GroupsInv'
        BY <3>2, <3>3, <3>4, <3>5 DEF GroupsInv
    <3>6. HandlerInv(h)'
      <4>1. /\ lower[h] => r.runtime <= cg'[Pod].runtime[d]
            /\ ~lower[h] /\ ~blind[h] => cg'[Pod].runtime[d] <= r.runtime
            /\ second[h] => cg'[Other(h)].runtime[d] = r.runtime
        <5>1. cg'[Pod].runtime[d] = r.runtime \/ cg'[Pod] = cg[Pod]
            BY <1>3, <3>1
        <5>2. cg'[Other(h)] = cg[Other(h)]
            BY <2>3, <3>1
        <5> QED
            BY <2>1, <2>2, <5>1, <5>2 DEF WritingInv
      <4> QED
          BY <1>1, <2>1, <2>4, <3>1, <4>1, AfterFile
    <3>7. ASSUME NEW i \in Handlers, i # h PROVE HandlerInv(i)'
      <4>1. /\ pc'[i] = pc[i] /\ second'[i] = second[i] /\ answer'[i] = answer[i]
          BY <1>1, <2>4, <3>7 DEF Advance, Reply, TypeOK
      <4> QED
          BY <1>1, <2>1, <3>1, <3>7, <4>1, OthersKeepInvariant
    <3> QED
        BY <3>6, <3>7, <3>8
  <2>5. CASE ~Schedulable(new) /\ UNCHANGED cg /\ Reply(h, "refused")
    <3>1. ~second[h] /\ (~blind[h] => OverBudget(r))
        BY <1>1, <1>2, <2>1, <2>5, RefusedRuntime
    <3>2. pc'[h] = "idle" /\ answer'[h] = "refused" /\ second' = second
        BY <1>1, <2>5 DEF Reply, TypeOK
    <3>3. HandlerInv(h)'
        BY <2>1, <3>1, <3>2 DEF HandlerInv, ReadingInv, WritingInv, Files,
                                OverBudget, Utilization, GrantedRuntime, StoredRuntime,
                                WrittenRuntime
    <3> QED
        BY <1>1, <1>7, <2>1, <2>5, <3>3 DEF Reply, TypeOK
  <2> QED
      BY <1>12, <2>2, <2>4, <2>5 DEF WriteRuntime, Write
<1>13. ASSUME NEW h \in Handlers, WritePeriod(h)
       PROVE  GroupsInv' /\ \A i \in Handlers : HandlerInv(i)'
  <2> DEFINE r == req[h]
             new == SetPeriod(cg, Target(h), r.period)
  <2>1. /\ pc[h] = "period" /\ pc[h] \in Files /\ UNCHANGED <<req, lower, blind>>
        /\ ReadingInv(h) /\ WritingInv(h)
      BY <1>1, <1>13 DEF WritePeriod, HandlerInv, Files
  <2>2. r.period = DefaultPeriod /\ r.container \in Containers
      BY <1>1, <2>1, DisciplinedRequest DEF CgroupRequest
  <2>3. Target(h) \in Groups
      BY <1>3, <2>2 DEF Target
  <2>4. new = cg
    <3>1. cg[Target(h)] \in Group /\ cg[Target(h)].period = DefaultPeriod
        BY <1>2, <2>3 DEF GroupsOK
    <3>2. [cg[Target(h)] EXCEPT !.period = DefaultPeriod] = cg[Target(h)]
        BY <3>1 DEF Group
    <3> QED
        BY <1>2, <2>2, <2>3, <3>2 DEF SetPeriod, GroupsOK
  <2>5. cg' = cg /\ Advance(h)
      BY <1>2, <1>13, <2>4 DEF WritePeriod, Write, GroupsOK
  <2>6. HandlerInv(h)'
      BY <1>1, <2>1, <2>5, AfterFile DEF WritingInv, RuntimeDone
  <2> QED
      BY <1>1, <1>7, <2>1, <2>5, <2>6 DEF Advance, Reply, TypeOK
<1>14. ASSUME NEW h \in Handlers, WriteCpuset(h)
       PROVE  GroupsInv' /\ \A i \in Handlers : HandlerInv(i)'
  <2> DEFINE r == req[h]
  <2>1. /\ pc[h] = "cpuset" /\ pc[h] \in Files /\ UNCHANGED <<req, lower, blind>>
        /\ cg' = SetCpus(cg, Target(h), r.core) /\ Advance(h)
        /\ ReadingInv(h) /\ WritingInv(h)
      BY <1>1, <1>14 DEF WriteCpuset, HandlerInv, Files
  <2>2. r.container \in Containers /\ r.core \in Dims
      BY <1>1, <2>1, DisciplinedRequest DEF CgroupRequest
  <2>3. Target(h) \in Groups /\ Other(h) \in Groups
      BY <1>3, <2>2 DEF Target, Other
  <2>4. /\ cg' \in [Groups -> Group]
        /\ \A g \in Groups : cg'[g].period = cg[g].period /\ cg'[g].runtime = cg[g].runtime
    <3>1. cg \in [Groups -> Group] /\ Target(h) \in Groups /\ r.core \in Dims
        BY <1>2, <2>2, <2>3 DEF GroupsOK
    <3> QED
        BY <2>1, <3>1, SetCpusValues
  <2>5. Schedulable(cg')
      BY <1>2, <2>4, SameBandwidth DEF GroupsOK
  <2>6. GroupsInv'
    <3>1. /\ \A g \in Groups : /\ cg'[g].period = DefaultPeriod
                               /\ \A d \in Dims : cg'[g].runtime[d] >= 0
          /\ (\E i \in Handlers : \E s \in Requests[i] : ~s.only /\ s.core # AnyCore)
                  => cg'[Pod].runtime[AnyCore] = 0
        BY <1>1, <1>3, <2>4 DEF GroupsInv
    <3>2. OwnersOnly'
        BY <1>1, <1>3, <2>4 DEF GroupsInv, OwnersOnly
    <3> QED
        BY <2>5, <3>1, <3>2 DEF GroupsInv
  <2>7. HandlerInv(h)'
      BY <1>1, <1>3, <2>1, <2>3, <2>4, AfterFile DEF WritingInv, RuntimeDone
  <2>8. ASSUME NEW i \in Handlers, i # h PROVE HandlerInv(i)'
    <3>1. /\ pc'[i] = pc[i] /\ second'[i] = second[i] /\ answer'[i] = answer[i]
        BY <1>1, <2>1, <2>8 DEF Advance, Reply, TypeOK
    <3> QED
        BY <1>1, <2>1, <2>4, <2>8, <3>1, OthersKeepInvariant
  <2> QED
      BY <2>6, <2>7, <2>8
<1>15. ASSUME NEW h \in Handlers, Fault(h)
       PROVE  GroupsInv' /\ \A i \in Handlers : HandlerInv(i)'
  <2>1. /\ pc[h] # "idle" /\ cg' = cg /\ req' = req
        /\ pc'[h] = "idle" /\ answer'[h] = "failed"
      BY <1>1, <1>15 DEF Fault, Reply, TypeOK
  <2>2. HandlerInv(h)'
      BY <2>1 DEF HandlerInv, ReadingInv, WritingInv, Files
  <2> QED
      BY <1>1, <1>7, <1>15, <2>1, <2>2 DEF Fault, Reply, TypeOK
<1>16. ASSUME Crash
       PROVE  GroupsInv' /\ \A i \in Handlers : HandlerInv(i)'
  <2>1. cg' = cg
      BY <1>16 DEF Crash
  <2>2. ASSUME NEW i \in Handlers PROVE HandlerInv(i)'
    <3>1. /\ pc'[i] = "idle" /\ UNCHANGED <<cg, req, lower, second, blind>>
          /\ answer'[i] = IF pc[i] = "idle" THEN answer[i] ELSE "lost"
        BY <1>16, <2>2 DEF Crash
    <3> QED
        BY <1>1, <2>2, <3>1 DEF HandlerInv, ReadingInv, WritingInv, Files,
                                OverBudget, Utilization, GrantedRuntime, StoredRuntime,
                                WrittenRuntime
  <2> QED
      BY <1>5, <2>1, <2>2
<1>17. ASSUME UNCHANGED vars
       PROVE  GroupsInv' /\ \A i \in Handlers : HandlerInv(i)'
    BY <1>1, <1>5, <1>17 DEF vars, HandlerInv, ReadingInv, WritingInv, Files, RuntimeDone,
                             Target, Other, OverBudget, Utilization, GrantedRuntime,
                             StoredRuntime, WrittenRuntime
<1> QED
    BY <1>6, <1>8, <1>9, <1>10, <1>11, <1>12, <1>13, <1>14, <1>15, <1>16, <1>17
       DEF Next, Handle

\* The invariant holds of every behaviour, for any number of handlers, any
\* disciplined requests about any containers, with faults and crashes or without.
THEOREM Invariance ==
    ASSUME Disciplined
    PROVE  Spec => []IInv
<1>1. Init /\ TypeOK => IInv
    BY InitInvariant
<1>2. IInv /\ TypeOK' /\ [Next]_vars => IInv'
    BY StepInvariant
<1> QED
    BY <1>1, <1>2, TypeCorrect, PTL DEF Spec

\* Of disciplined requests, the kernel refuses only those above the budget:
\* "child first when decreasing, parent first when increasing" never fails.
THEOREM OnlyOverBudgetIsRefused ==
    ASSUME Disciplined
    PROVE  Spec => []RefusedOnlyOverBudget
<1>1. IInv => RefusedOnlyOverBudget
    BY DEF IInv
<1> QED
    BY <1>1, Invariance, PTL

\* A disciplined request that is refused is refused before it changed anything.
THEOREM RefusalChangesNothing ==
    ASSUME Disciplined
    PROVE  Spec => []RefusalIsClean
<1>1. IInv => RefusalIsClean
    BY DEF IInv
<1> QED
    BY <1>1, Invariance, PTL

\* A disciplined request that is answered "applied successfully" is applied on
\* the pod and on the container, also after a crash half-way through another.
THEOREM OkIsReserved ==
    ASSUME Disciplined
    PROVE  Spec => []OkMeansReserved
<1>1. IInv => OkMeansReserved
    BY DEF IInv
<1> QED
    BY <1>1, Invariance, PTL

--------------------------------------------------------------------------------
(***************************************************************************)
(* Arbitrary requests, one at a time, in a pod with any containers.        *)
(***************************************************************************)

\* The files that a request is about, and those that are written before one of them.
FilesOf(r) ==
    {"runtime"} \cup (IF r.only THEN {} ELSE {"period"})
                \cup (IF r.only \/ r.core = AnyCore THEN {} ELSE {"cpuset"})

FilesBefore(r, low, file) ==
    CASE file = FirstFile(r, low) -> {}
      [] file = "cpuset"          -> {"period", "runtime"}
      [] OTHER                    -> {FirstFile(r, low)}

\* A file of a group holds what a request asks for.
Holds(s, g, r, file) ==
    /\ file = "period" => s[g].period = r.period
    /\ file = "runtime" => s[g].runtime[r.core] = GrantedRuntime(r)
    /\ file = "cpuset" => s[g].cpus = r.core

\* What a handler has written is there, and after an "ok" all of it.
AppliedInv(h) ==
    /\ pc[h] \notin Files \cup {"idle"} => ~second[h]
    /\ pc[h] \in Files =>
          /\ pc[h] \in FilesOf(req[h])
          /\ \A f \in FilesBefore(req[h], lower[h], pc[h]) : Holds(cg, Target(h), req[h], f)
          /\ second[h] => \A f \in FilesOf(req[h]) : Holds(cg, Other(h), req[h], f)
    /\ pc[h] = "idle" /\ answer[h] = "ok" =>
          \A g \in {Pod, req[h].container}, f \in FilesOf(req[h]) : Holds(cg, g, req[h], f)

\* The files come in the order of NextFile, and none is left out.
LEMMA FileOrder ==
    ASSUME NEW r, NEW low \in BOOLEAN, NEW file \in FilesOf(r)
    PROVE  /\ FirstFile(r, low) \in FilesOf(r)
           /\ FilesBefore(r, low, FirstFile(r, low)) = {}
           /\ FilesOf(r) \subseteq Files
           /\ NextFile(r, low, file) # "done" =>
                 /\ NextFile(r, low, file) \in FilesOf(r)
                 /\ FilesBefore(r, low, NextFile(r, low, file))
                       = FilesBefore(r, low, file) \cup {file}
           /\ NextFile(r, low, file) = "done" =>
                 FilesOf(r) = FilesBefore(r, low, file) \cup {file}
<1>1. CASE r.only
    BY <1>1 DEF FilesOf, FilesBefore, FirstFile, NextFile, Files
<1>2. CASE ~r.only /\ r.core = AnyCore /\ low
    BY <1>2 DEF FilesOf, FilesBefore, FirstFile, NextFile, Files
<1>3. CASE ~r.only /\ r.core = AnyCore /\ ~low
    BY <1>3 DEF FilesOf, FilesBefore, FirstFile, NextFile, Files
<1>4. CASE ~r.only /\ r.core # AnyCore /\ low
    BY <1>4 DEF FilesOf, FilesBefore, FirstFile, NextFile, Files
<1>5. CASE ~r.only /\ r.core # AnyCore /\ ~low
    BY <1>5 DEF FilesOf, FilesBefore, FirstFile, NextFile, Files
<1> QED
    BY <1>1, <1>2, <1>3, <1>4, <1>5

\* A write makes its file hold what is asked for, and no other file of the two groups
\* loses it.
LEMMA WriteHolds ==
    ASSUME TypeOK, NEW h \in Handlers, pc[h] \in Files,
           \/ /\ pc[h] = "runtime"
              /\ cg' = SetRuntime(cg, Target(h), req[h].core, WrittenRuntime(req[h]))
           \/ pc[h] = "period" /\ cg' = SetPeriod(cg, Target(h), req[h].period)
           \/ pc[h] = "cpuset" /\ cg' = SetCpus(cg, Target(h), req[h].core)
    PROVE  /\ Holds(cg', Target(h), req[h], pc[h])
           /\ \A g \in Groups, f \in Files :
                 Holds(cg, g, req[h], f) /\ (g # Target(h) \/ f # pc[h])
                    => Holds(cg', g, req[h], f)
<1> DEFINE r == req[h]
           t == Target(h)
           v == GrantedRuntime(r)
<1>1. /\ pc[h] # "idle" /\ cg \in [Groups -> Group] /\ t \in Groups
      /\ r.core \in Dims /\ r.container \in Containers
    BY ActiveRequest DEF TypeOK, Files, CgroupRequest
<1>2. /\ cg[t] \in Group /\ cg[t].runtime \in [Dims -> Int]
      /\ \A g \in Groups : g # t => cg'[g] = cg[g]
    BY <1>1 DEF SetRuntime, SetPeriod, SetCpus, Group
<1>3. CASE pc[h] = "runtime"
  <2>1. cg'[t] = [cg[t] EXCEPT !.runtime = [cg[t].runtime EXCEPT ![r.core] = v]]
      BY <1>1, <1>3 DEF SetRuntime, GrantedRuntime
  <2>2. /\ cg'[t].runtime = [cg[t].runtime EXCEPT ![r.core] = v]
        /\ cg'[t].period = cg[t].period /\ cg'[t].cpus = cg[t].cpus
      BY <1>2, <2>1 DEF Group
  <2>3. cg'[t].runtime[r.core] = v
      BY <1>1, <1>2, <2>2
  <2> HIDE DEF t, v
  <2> QED
      BY <1>2, <1>3, <2>2, <2>3 DEF Holds, t, v
<1>4. CASE pc[h] = "period"
  <2>1. cg'[t] = [cg[t] EXCEPT !.period = r.period]
      BY <1>1, <1>4 DEF SetPeriod
  <2>2. /\ cg'[t].period = r.period
        /\ cg'[t].runtime = cg[t].runtime /\ cg'[t].cpus = cg[t].cpus
      BY <1>2, <2>1 DEF Group
  <2> HIDE DEF t
  <2> QED
      BY <1>2, <1>4, <2>2 DEF Holds, t
<1>5. CASE pc[h] = "cpuset"
  <2>1. cg'[t] = [cg[t] EXCEPT !.cpus = r.core]
      BY <1>1, <1>5 DEF SetCpus
  <2>2. /\ cg'[t].cpus = r.core
        /\ cg'[t].runtime = cg[t].runtime /\ cg'[t].period = cg[t].period
      BY <1>2, <2>1 DEF Group
  <2> HIDE DEF t
  <2> QED
      BY <1>2, <1>5, <2>2 DEF Holds, t
<1> QED
    BY <1>3, <1>4, <1>5

\* From a file to the next one, to the second group, or to the answer.
LEMMA AppliedAfterFile ==
    ASSUME TypeOK, NEW h \in Handlers, pc[h] \in Files, AppliedInv(h), Advance(h),
           UNCHANGED <<req, lower>>,
           Holds(cg', Target(h), req[h], pc[h]),
           \A g \in Groups, f \in Files :
               Holds(cg, g, req[h], f) /\ (g # Target(h) \/ f # pc[h])
                  => Holds(cg', g, req[h], f)
    PROVE  AppliedInv(h)'
<1> DEFINE r == req[h]
           low == lower[h]
           next == NextFile(r, low, pc[h])
           written == FilesBefore(r, low, pc[h]) \cup {pc[h]}
<1>1. /\ pc[h] # "idle" /\ r.container \in Containers /\ low \in BOOLEAN
      /\ pc \in [Handlers -> Steps] /\ answer \in [Handlers -> Answers]
      /\ second \in [Handlers -> BOOLEAN]
    BY ActiveRequest DEF TypeOK, Files, CgroupRequest
<1>2. /\ {Target(h), Other(h)} = {Pod, r.container} /\ Target(h) # Other(h)
      /\ Target(h) \in Groups /\ Other(h) \in Groups
    BY <1>1, BandwidthAssumption DEF Target, Other, Groups
<1>3. pc[h] \in FilesOf(r)
    BY DEF AppliedInv
<1>4. /\ FirstFile(r, low) \in FilesOf(r) /\ FilesBefore(r, low, FirstFile(r, low)) = {}
      /\ FilesOf(r) \subseteq Files
      /\ next # "done" => next \in FilesOf(r) /\ FilesBefore(r, low, next) = written
      /\ next = "done" => FilesOf(r) = written
  <2>1. lower[h] \in BOOLEAN /\ pc[h] \in FilesOf(req[h])
      BY <1>1, <1>3
  <2>2. /\ FirstFile(req[h], lower[h]) \in FilesOf(req[h])
        /\ FilesBefore(req[h], lower[h], FirstFile(req[h], lower[h])) = {}
        /\ FilesOf(req[h]) \subseteq Files
        /\ NextFile(req[h], lower[h], pc[h]) # "done" =>
              /\ NextFile(req[h], lower[h], pc[h]) \in FilesOf(req[h])
              /\ FilesBefore(req[h], lower[h], NextFile(req[h], lower[h], pc[h]))
                    = FilesBefore(req[h], lower[h], pc[h]) \cup {pc[h]}
        /\ NextFile(req[h], lower[h], pc[h]) = "done" =>
              FilesOf(req[h]) = FilesBefore(req[h], lower[h], pc[h]) \cup {pc[h]}
      BY <2>1, FileOrder
  <2> QED
      BY <2>2
<1>5. FilesBefore(r, low, pc[h]) \subseteq Files
    BY DEF FilesBefore, FirstFile, Files
<1>6. \A f \in written : Holds(cg', Target(h), r, f)
    BY <1>2, <1>5 DEF AppliedInv
<1>7. second[h] => \A f \in FilesOf(r) : Holds(cg', Other(h), r, f)
    BY <1>2, <1>4 DEF AppliedInv
<1>8. CASE next # "done"
  <2>1. pc'[h] = next /\ second' = second
      BY <1>1, <1>8 DEF Advance
  <2>2. next \in Files /\ next # "idle"
      BY <1>4, <1>8 DEF Files
  <2>3. Target(h)' = Target(h) /\ Other(h)' = Other(h)
      BY <2>1 DEF Target, Other
  <2> QED
      BY <1>4, <1>6, <1>7, <1>8, <2>1, <2>2, <2>3 DEF AppliedInv, Holds, GrantedRuntime,
         WrittenRuntime
<1>9. CASE next = "done" /\ ~second[h]
  <2>1. pc'[h] = FirstFile(r, low) /\ second'[h] = TRUE
      BY <1>1, <1>9 DEF Advance
  <2>2. pc'[h] \in Files /\ pc'[h] # "idle"
      BY <1>4, <2>1 DEF Files
  <2>3. Other(h)' = Target(h)
      BY <1>1, <1>9, <2>1 DEF Other, Target
  <2> QED
      BY <1>4, <1>6, <1>9, <2>1, <2>2, <2>3 DEF AppliedInv, Holds, GrantedRuntime,
         WrittenRuntime
<1>10. CASE next = "done" /\ second[h]
  <2>1. pc'[h] = "idle"
      BY <1>1, <1>10 DEF Advance, Reply
  <2>2. \A g \in {Pod, r.container}, f \in FilesOf(r) : Holds(cg', g, r, f)
      BY <1>2, <1>4, <1>6, <1>7, <1>10
  <2> QED
      BY <2>1, <2>2 DEF AppliedInv, Files, Holds, GrantedRuntime, WrittenRuntime
<1> QED
    BY <1>8, <1>9, <1>10

\* With one request at a time, what a handler has written stays written.
LEMMA WhatIsWrittenStays ==
    ASSUME NEW CONSTANT h, Handlers = {h}
    PROVE  Spec => []AppliedInv(h)
<1>1. Init => AppliedInv(h)
    BY DEF Init, AppliedInv, Files
<1>2. TypeOK /\ AppliedInv(h) /\ [Next]_vars => AppliedInv(h)'
  <2> SUFFICES ASSUME TypeOK, AppliedInv(h), [Next]_vars PROVE AppliedInv(h)'
      OBVIOUS
  <2>1. /\ h \in Handlers /\ pc \in [Handlers -> Steps] /\ lower \in [Handlers -> BOOLEAN]
        /\ second \in [Handlers -> BOOLEAN] /\ answer \in [Handlers -> Answers]
        /\ req \in [Handlers -> CgroupRequest \cup {NoRequest}]
      BY DEF TypeOK
  <2>2. CASE Receive(h)
    <3>1. second'[h] = FALSE /\ pc'[h] \in {"inspect", "idle"} /\ answer'[h] \in {"none", "bad"}
        BY <2>1, <2>2 DEF Receive
    <3> QED
        BY <3>1 DEF AppliedInv, Files
  <2>3. ASSUME NEW a \in {"failed", "refused"}, Reply(h, a)
        PROVE  AppliedInv(h)'
    <3>1. pc'[h] = "idle" /\ answer'[h] # "ok"
        BY <2>1, <2>3 DEF Reply
    <3> QED
        BY <3>1 DEF AppliedInv, Files
  <2>4. CASE Preflight(h)
    <3>1. CASE Admissible(req[h])
      <4>1. pc[h] = "inspect" /\ pc'[h] = "readPeriod" /\ UNCHANGED second
          BY <2>1, <2>4, <3>1 DEF Preflight
      <4> QED
          BY <4>1 DEF AppliedInv, Files
    <3>2. CASE ~Admissible(req[h])
        BY <2>3, <2>4, <3>2 DEF Preflight
    <3> QED
        BY <3>1, <3>2
  <2>5. CASE ReadPeriod(h)
    <3>1. pc[h] = "readPeriod" /\ pc'[h] = "readRuntime" /\ UNCHANGED second
        BY <2>1, <2>5 DEF ReadPeriod
    <3> QED
        BY <3>1 DEF AppliedInv, Files
  <2>6. ASSUME pc[h] \in {"readRuntime", "readCore"}, lower'[h] \in BOOLEAN,
               pc'[h] \in {"readCore", FirstFile(req[h], lower'[h])}, UNCHANGED <<second, req>>
        PROVE  AppliedInv(h)'
    <3>1. ~second[h]
        BY <2>6 DEF AppliedInv, Files
    <3>2. "runtime" \in FilesOf(req[h])
        BY DEF FilesOf
    <3>3. /\ FirstFile(req[h], lower'[h]) \in FilesOf(req[h])
          /\ FilesBefore(req[h], lower'[h], FirstFile(req[h], lower'[h])) = {}
          /\ FirstFile(req[h], lower'[h]) \in Files
        BY <2>6, <3>2, FileOrder
    <3>4. CASE pc'[h] = "readCore"
        BY <2>6, <3>1, <3>4 DEF AppliedInv, Files
    <3>5. CASE pc'[h] = FirstFile(req[h], lower'[h])
        BY <2>6, <3>1, <3>3, <3>5 DEF AppliedInv, Files
    <3> QED
        BY <2>6, <3>4, <3>5
  <2>7. CASE ReadRuntime(h)
    <3> DEFINE r == req[h]
               low == \/ lower[h]
                      \/ /\ ~r.only \/ r.core = AnyCore
                         /\ IsRuntimeDecrease(cg[Pod].runtime[AnyCore], r.runtime)
    <3>1. lower'[h] = low /\ low \in BOOLEAN
        BY <2>1, <2>7 DEF ReadRuntime
    <3> HIDE DEF low
    <3>2. pc'[h] \in {"readCore", FirstFile(r, low)}
        BY <2>1, <2>7 DEF ReadRuntime, low
    <3> QED
        BY <2>6, <2>7, <3>1, <3>2 DEF ReadRuntime
  <2>8. CASE ReadCore(h)
    <3>1. PICK low \in BOOLEAN :
             /\ lower' = [lower EXCEPT ![h] = low]
             /\ pc' = [pc EXCEPT ![h] = FirstFile(req[h], low)]
      <4>1. PICK unread \in {FALSE, Faults} :
              LET old == IF unread THEN 0 ELSE cg[Pod].runtime[req[h].core]
                  low == lower[h] \/ IsRuntimeDecrease(old, req[h].runtime)
              IN  /\ lower' = [lower EXCEPT ![h] = low]
                  /\ pc' = [pc EXCEPT ![h] = FirstFile(req[h], low)]
          BY <2>8 DEF ReadCore
      <4> DEFINE old == IF unread THEN 0 ELSE cg[Pod].runtime[req[h].core]
                 low == lower[h] \/ IsRuntimeDecrease(old, req[h].runtime)
      <4>2. low \in BOOLEAN
          OBVIOUS
      <4> QED
          BY <4>1, <4>2
    <3>2. lower'[h] = low /\ pc'[h] = FirstFile(req[h], low)
        BY <2>1, <3>1
    <3> QED
        BY <2>6, <2>8, <3>1, <3>2 DEF ReadCore
  <2>9. CASE WriteRuntime(h) \/ WritePeriod(h) \/ WriteCpuset(h)
    <3>1. UNCHANGED <<req, lower>> /\ pc[h] \in Files
        BY <2>9 DEF WriteRuntime, WritePeriod, WriteCpuset, Files
    <3>2. CASE Reply(h, "refused")
        BY <2>3, <3>2
    <3>3. CASE ~Reply(h, "refused")
      <4>1. /\ Advance(h)
            /\ \/ /\ pc[h] = "runtime"
                  /\ cg' = SetRuntime(cg, Target(h), req[h].core, WrittenRuntime(req[h]))
               \/ pc[h] = "period" /\ cg' = SetPeriod(cg, Target(h), req[h].period)
               \/ pc[h] = "cpuset" /\ cg' = SetCpus(cg, Target(h), req[h].core)
          BY <2>9, <3>3 DEF WriteRuntime, WritePeriod, WriteCpuset, Write
      <4> QED
          BY <2>1, <3>1, <4>1, WriteHolds, AppliedAfterFile
    <3> QED
        BY <3>2, <3>3
  <2>10. CASE Fault(h)
      BY <2>3, <2>10 DEF Fault
  <2>11. CASE Crash
    <3>1. /\ pc'[h] = "idle" /\ (answer'[h] = "ok" => pc[h] = "idle" /\ answer[h] = "ok")
          /\ UNCHANGED <<cg, req>>
        BY <2>1, <2>11 DEF Crash
    <3> QED
        BY <3>1 DEF AppliedInv, Files, Holds, GrantedRuntime, WrittenRuntime
  <2>12. CASE UNCHANGED vars
      BY <2>12 DEF vars, AppliedInv, Holds, GrantedRuntime, WrittenRuntime, Target, Other
  <2> QED
      BY <2>2, <2>4, <2>5, <2>7, <2>8, <2>9, <2>10, <2>11, <2>12 DEF Next, Handle
<1> QED
    BY <1>1, <1>2, TypeCorrect, PTL DEF Spec

\* With one request at a time, an answer "ok" means that all that was asked for is in force on
\* pod and container: any mix of modes, cores, periods and negative runtimes, with faults
\* and crashes in between, and with any other containers in the pod.
THEOREM OkIsInForce ==
    ASSUME NEW CONSTANT h, Handlers = {h}
    PROVE  Spec => []OkMeansInForce
<1>1. AppliedInv(h) => OkMeansInForce
  <2> SUFFICES ASSUME AppliedInv(h), pc[h] = "idle", answer[h] = "ok"
               PROVE  InForce(req[h])
      BY DEF OkMeansInForce
  <2>1. \A g \in {Pod, req[h].container}, f \in FilesOf(req[h]) : Holds(cg, g, req[h], f)
      BY DEF AppliedInv
  <2> QED
      BY <2>1 DEF InForce, FilesOf, Holds
<1> QED
    BY <1>1, WhatIsWrittenStays, PTL

--------------------------------------------------------------------------------
(***************************************************************************)
(* What the kernel's rule makes of an "ok", and the reasons of a refusal.  *)
(***************************************************************************)

\* The kernel's rule holds in every state, for any handlers and requests: half-written
\* requests, refusals and restarts never leave groups that it would not have admitted.
THEOREM KernelRule == Spec => []Schedulable(cg)
<1>1. Init /\ TypeOK => Schedulable(cg)
    BY FreshSchedulable
<1>2. TypeOK /\ Schedulable(cg) /\ [Next]_vars => Schedulable(cg)'
  <2> SUFFICES ASSUME TypeOK, Schedulable(cg), [Next]_vars
               PROVE  Schedulable(cg)'
      OBVIOUS
  <2>1. ASSUME cg' = cg
        PROVE  Schedulable(cg)'
      BY <2>1
  <2>2. ASSUME NEW h \in Handlers, WriteRuntime(h) \/ WritePeriod(h)
        PROVE  Schedulable(cg)'
    <3>1. cg' = cg \/ Schedulable(cg')
        BY <2>2 DEF WriteRuntime, WritePeriod, Write
    <3> QED
        BY <3>1
  <2>3. ASSUME NEW h \in Handlers, WriteCpuset(h)
        PROVE  Schedulable(cg)'
    <3>1. /\ cg' = SetCpus(cg, Target(h), req[h].core)
          /\ cg \in [Groups -> Group] /\ Target(h) \in Groups /\ req[h].core \in Dims
        BY <2>3, ActiveRequest DEF WriteCpuset, TypeOK, CgroupRequest
    <3>2. /\ cg' \in [Groups -> Group]
          /\ \A g \in Groups : cg'[g].period = cg[g].period /\ cg'[g].runtime = cg[g].runtime
        BY <3>1, SetCpusValues
    <3>3. Schedulable(cg')
        BY <3>1, <3>2, SameBandwidth
    <3> QED
        BY <3>3
  <2>4. \/ cg' = cg
        \/ \E h \in Handlers : WriteRuntime(h) \/ WritePeriod(h) \/ WriteCpuset(h)
      BY DEF Next, Handle, Crash, Receive, Preflight, ReadPeriod, ReadRuntime, ReadCore, Fault, vars
  <2> QED
      BY <2>1, <2>2, <2>3, <2>4
<1> QED
    BY <1>1, <1>2, TypeCorrect, PTL DEF Spec

\* With one request at a time, the pod holds for a core what the container was given, so that
\* the kernel's rule leaves nothing on that core to any other container, however many there are.
THEOREM OkIsExclusive ==
    ASSUME NEW CONSTANT h, Handlers = {h}
    PROVE  Spec => []OkMeansExclusive
<1>1. TypeOK /\ Schedulable(cg) /\ OkMeansInForce => OkMeansExclusive
  <2> DEFINE r == req[h]
             c == r.container
             d == r.core
  <2> SUFFICES ASSUME TypeOK, Schedulable(cg), OkMeansInForce, pc[h] = "idle", answer[h] = "ok",
                      cg[Pod].period = cg[c].period, NEW x \in Containers \ {c}
               PROVE  Share(cg[x], d) = 0
      BY DEF OkMeansExclusive
  <2>1. InForce(r)
      BY DEF OkMeansInForce
  <2>2. c \in Containers /\ d \in Dims /\ cg \in [Groups -> Group]
      BY ControllerAssumption DEF TypeOK, CgroupRequest
  <2>3. cg[Pod].runtime[d] = cg[c].runtime[d]
      BY <2>1 DEF InForce
  <2>4. Share(cg[Pod], d) = Share(cg[c], d)
      BY <2>3 DEF Share
  <2>5. Demand(cg, d) <= Share(cg[Pod], d)
      BY <2>2 DEF Schedulable
  <2>6. \A y \in Containers : Share(cg[y], d) \in Nat
      BY <2>2, Shares DEF Groups
  <2>7. /\ Demand(cg, d) \in Nat
        /\ \A a, b \in Containers : a # b => Share(cg[a], d) + Share(cg[b], d) <= Demand(cg, d)
      BY <2>6, DemandCovers
  <2>8. Share(cg[c], d) + Share(cg[x], d) <= Demand(cg, d)
      BY <2>2, <2>7
  <2>9. Share(cg[c], d) \in Nat /\ Share(cg[x], d) \in Nat
      BY <2>2, <2>6
  <2> QED
      BY <2>4, <2>5, <2>7, <2>8, <2>9
<1> QED
    BY <1>1, TypeCorrect, KernelRule, OkIsInForce, PTL

\* Why a handler may have chosen the decreasing order although the runtime of its core is not
\* to fall: the pod's period is longer, or its global runtime is to fall.
OtherCause(r) ==
    /\ ~r.only
    /\ \/ r.period < cg[Pod].period
       \/ r.core # AnyCore /\ IsRuntimeDecrease(cg[Pod].runtime[AnyCore], r.runtime)

\* What is known of the pod, which is still as it was read, from the order that was chosen.
DecisionInv(h) ==
    LET r == req[h]
    IN  /\ pc[h] \in {"inspect", "readPeriod"} => ~lower[h]
        /\ pc[h] \in {"inspect", "readPeriod", "readRuntime", "readCore"} => ~blind[h]
        /\ pc[h] = "readRuntime" => (lower[h] => ~r.only /\ r.period < cg[Pod].period)
        /\ pc[h] = "readCore" => r.core # AnyCore /\ (lower[h] => OtherCause(r))
        /\ pc[h] \in Files /\ ~second[h] /\ ~blind[h] =>
              /\ lower[h] => \/ OtherCause(r)
                             \/ IsRuntimeDecrease(cg[Pod].runtime[r.core], r.runtime)
              /\ ~lower[h] /\ pc[h] # "cpuset"
                    => ~IsRuntimeDecrease(cg[Pod].runtime[r.core], r.runtime)

\* And after the refusal.
ReasonInv(h) ==
    pc[h] = "idle" /\ answer[h] = "refused" /\ ~blind[h] => OverBudget(req[h]) \/ OrderMayFail(req[h])

\* What a request within the budget asks for, where every period is the request's: how the shares
\* of pod and container compare with it.
LEMMA ShareOfRequest ==
    ASSUME NEW r, NEW g, g.period = r.period, r.period \in Nat \ {0}, g.runtime[r.core] \in Int
    PROVE  g.runtime[r.core] = GrantedRuntime(r) => Share(g, r.core) = Utilization(r)
BY DEF Share, Utilization

\* A runtime that the request does not lower is a share that it does not lower; one that it lowers
\* is at least as large as what is asked for.
LEMMA DecreaseOfShares ==
    ASSUME NEW r, NEW g, g.period = r.period, r.period \in Nat \ {0}, g.runtime[r.core] \in Int,
           g.runtime[r.core] <= g.period, r.runtime \in Int, r.runtime <= r.period,
           GrantedRuntime(r) = (IF r.runtime < 0 THEN -1 ELSE r.runtime)
    PROVE  /\ Utilization(r) \in Nat
           /\ ~IsRuntimeDecrease(g.runtime[r.core], r.runtime) => Share(g, r.core) <= Utilization(r)
           /\ IsRuntimeDecrease(g.runtime[r.core], r.runtime) => Utilization(r) <= Share(g, r.core)
<1> DEFINE d == r.core
           want == [period |-> r.period, runtime |-> [e \in {d} |-> GrantedRuntime(r)]]
<1>1. want.period = r.period /\ want.runtime[d] = GrantedRuntime(r)
    OBVIOUS
<1>2. BwUnit \in Nat \ {0}
    BY BandwidthAssumption
<1> HIDE DEF want
<1>3. Share(want, d) = Utilization(r)
    BY <1>1 DEF Share, Utilization
<1>4. want.runtime[d] \in Int /\ want.runtime[d] <= want.period
    BY <1>1
<1>5. Share(want, d) \in Nat /\ Share(g, d) \in Nat
    BY <1>1, <1>2, <1>4, ShareType
<1>6. Share(want, d) <= BwUnit /\ Share(g, d) <= BwUnit
    BY <1>1, <1>2, <1>4, ShareWhole
<1>7. ASSUME ~IsRuntimeDecrease(g.runtime[d], r.runtime)
      PROVE  Share(g, d) <= Share(want, d)
  <2>1. CASE r.runtime < 0
    <3>1. Share(want, d) = BwUnit
        BY <1>1, <2>1 DEF Share
    <3> QED
        BY <1>6, <3>1
  <2>2. CASE r.runtime >= 0
    <3>1. g.runtime[d] \in Nat /\ g.runtime[d] <= r.runtime /\ want.runtime[d] = r.runtime
        BY <1>1, <1>7, <2>2 DEF IsRuntimeDecrease
    <3> QED
        BY <1>1, <1>2, <2>2, <3>1, ShareMonotone
  <2> QED
      BY <2>1, <2>2
<1>8. ASSUME IsRuntimeDecrease(g.runtime[d], r.runtime)
      PROVE  Share(want, d) <= Share(g, d)
  <2>1. r.runtime \in Nat /\ want.runtime[d] = r.runtime
      BY <1>1, <1>8 DEF IsRuntimeDecrease
  <2>2. CASE g.runtime[d] < 0
    <3>1. Share(g, d) = BwUnit
        BY <2>2 DEF Share
    <3> QED
        BY <1>6, <3>1
  <2>3. CASE g.runtime[d] >= 0
    <3>1. g.runtime[d] \in Nat /\ r.runtime <= g.runtime[d]
        BY <1>8, <2>3 DEF IsRuntimeDecrease
    <3> QED
        BY <1>1, <1>2, <2>1, <3>1, ShareMonotone
  <2> QED
      BY <2>2, <2>3
<1> QED
    BY <1>3, <1>5, <1>7, <1>8

\* A refusal has one of the listed reasons: if the periods are those of the request, the other
\* containers hold nothing, and what is asked for is within the budget, then the first write has
\* the pod above the container, and the second one leaves them equal.
LEMMA RefusalHasReason ==
    ASSUME TypeOK, Schedulable(cg), NEW h \in Handlers, AppliedInv(h), DecisionInv(h), ~blind[h],
           \/ /\ pc[h] = "runtime"
              /\ ~Schedulable(SetRuntime(cg, Target(h), req[h].core, WrittenRuntime(req[h])))
           \/ /\ pc[h] = "period"
              /\ ~Schedulable(SetPeriod(cg, Target(h), req[h].period))
    PROVE  OverBudget(req[h]) \/ OrderMayFail(req[h])
<1> DEFINE r == req[h]
           d == r.core
           c == r.container
           T == Target(h)
           want == Utilization(r)
           t == SetRuntime(cg, T, d, WrittenRuntime(r))
<1> SUFFICES ASSUME ~OverBudget(r), ~OrderMayFail(r)
             PROVE  FALSE
    OBVIOUS
<1>1. /\ pc[h] # "idle" /\ r \in CgroupRequest /\ WrittenRuntime(r) \in Int /\ T \in Groups
      /\ cg \in [Groups -> Group] /\ lower[h] \in BOOLEAN /\ second[h] \in BOOLEAN
    BY ActiveRequest DEF TypeOK
<1>2. /\ c \in Containers /\ d \in Dims /\ r.runtime \in Int /\ r.runtime <= r.period
      /\ r.period \in Nat \ {0}
    BY <1>1, ActiveRequest DEF TypeOK, Valid, CgroupRequest
<1>3. c \in Groups /\ Pod \in Groups /\ c # Pod /\ Containers \subseteq Groups
    BY <1>2, BandwidthAssumption DEF Groups
<1>4. /\ cg[Pod].period = r.period /\ cg[c].period = r.period
      /\ ~(~r.only /\ r.runtime < 0)
      /\ ~(~r.only /\ d # AnyCore /\ IsRuntimeDecrease(cg[Pod].runtime[AnyCore], r.runtime))
      /\ \A x \in Containers \ {c} : ~(Share(cg[x], d) > 0)
    BY DEF OrderMayFail
<1>5. \A g \in Groups : cg[g].runtime[d] \in Int /\ cg[g].runtime[d] <= cg[g].period
    BY <1>1, <1>2 DEF Schedulable, Group
<1>6. \A g \in Groups : Share(cg[g], d) \in Nat
    BY <1>1, <1>2, Shares
<1>7. /\ GrantedRuntime(r) = IF r.runtime < 0 THEN -1 ELSE r.runtime
      /\ GrantedRuntime(r) = StoredRuntime(WrittenRuntime(r))
    BY <1>2, <1>4 DEF GrantedRuntime, StoredRuntime, WrittenRuntime
<1>8. /\ want \in Nat
      /\ ~IsRuntimeDecrease(cg[Pod].runtime[d], r.runtime) => Share(cg[Pod], d) <= want
      /\ IsRuntimeDecrease(cg[Pod].runtime[d], r.runtime) => want <= Share(cg[Pod], d)
    BY <1>2, <1>3, <1>4, <1>5, <1>7, DecreaseOfShares
<1>9. want <= Budget /\ Budget \in Nat
    BY <1>8, BandwidthAssumption DEF OverBudget
<1>10. /\ Demand(cg, d) = Share(cg[c], d)
       /\ Demand(cg, d) <= Share(cg[Pod], d) /\ Share(cg[Pod], d) <= Budget
  <2>1. \A x \in Containers \ {c} : Share(cg[x], d) = 0
      BY <1>3, <1>4, <1>6
  <2>2. Demand(cg, d) = Share(cg[c], d)
      BY <1>2, <1>3, <1>6, <2>1, DemandOfOwner
  <2> QED
      BY <1>2, <2>2 DEF Schedulable
<1>11. pc[h] = "runtime" /\ ~Schedulable(t)
  <2>1. ASSUME pc[h] = "period"
        PROVE  SetPeriod(cg, T, r.period) = cg
    <3>1. T \in {Pod, c} /\ cg[T] \in Group
        BY <1>1 DEF Target
    <3>2. cg[T].period = r.period
        BY <1>4, <3>1
    <3>3. [cg[T] EXCEPT !.period = r.period] = cg[T]
        BY <3>1, <3>2 DEF Group
    <3> QED
        BY <1>1, <3>3 DEF SetPeriod
  <2> QED
      BY <2>1
<1>12. /\ t \in [Groups -> Group]
       /\ t[T].runtime[d] = GrantedRuntime(r)
       /\ \A k \in Groups : t[k].period = cg[k].period
       /\ \A k \in Groups : k # T => t[k] = cg[k]
       /\ \A k \in Groups, e \in Dims : e # d => t[k].runtime[e] = cg[k].runtime[e]
    BY <1>1, <1>2, <1>7, SetRuntimeStored
<1>13. second[h] => cg[Other(h)].runtime[d] = GrantedRuntime(r)
  <2>1. second[h] => Holds(cg, Other(h), r, "runtime")
      BY <1>11 DEF AppliedInv, Files, FilesOf
  <2> QED
      BY <2>1 DEF Holds
<1>14. ~second[h] => /\ lower[h] => IsRuntimeDecrease(cg[Pod].runtime[d], r.runtime)
                     /\ ~lower[h] => ~IsRuntimeDecrease(cg[Pod].runtime[d], r.runtime)
    BY <1>2, <1>4, <1>11 DEF DecisionInv, OtherCause, Files
<1>15. T = Pod => Share(cg[c], d) <= want
  <2> SUFFICES ASSUME T = Pod
               PROVE  Share(cg[c], d) <= want
      OBVIOUS
  <2>1. lower[h] = second[h]
      BY <1>1, <1>3 DEF Target
  <2>2. CASE second[h]
    <3>1. Other(h) = c
        BY <2>1 DEF Other
    <3>2. Share(cg[c], d) = want
        BY <1>2, <1>3, <1>4, <1>5, <1>13, <2>2, <3>1, ShareOfRequest
    <3> QED
        BY <1>8, <3>2
  <2>3. CASE ~second[h]
      BY <1>3, <1>6, <1>8, <1>10, <1>14, <2>1, <2>3
  <2> QED
      BY <2>2, <2>3
<1>16. T = c => want <= Share(cg[Pod], d)
  <2> SUFFICES ASSUME T = c
               PROVE  want <= Share(cg[Pod], d)
      OBVIOUS
  <2>1. lower[h] # second[h]
      BY <1>1, <1>3 DEF Target
  <2>2. CASE second[h]
    <3>1. Other(h) = Pod
        BY <2>1 DEF Other
    <3>2. Share(cg[Pod], d) = want
        BY <1>2, <1>3, <1>4, <1>5, <1>13, <2>2, <3>1, ShareOfRequest
    <3> QED
        BY <1>8, <3>2
  <2>3. CASE ~second[h]
      BY <1>1, <1>8, <1>14, <2>1, <2>3
  <2> QED
      BY <2>2, <2>3
<1>17. T \in {Pod, c}
    BY DEF Target
<1> HIDE DEF t, T, want
<1>18. Share(t[T], d) = want
  <2>1. t[T].period = r.period /\ t[T].runtime[d] \in Int
      BY <1>1, <1>2, <1>4, <1>12, <1>17 DEF Group
  <2> QED
      BY <1>2, <1>12, <2>1, ShareOfRequest DEF want
<1>19. Demand(t, d) <= Share(t[Pod], d) /\ Share(t[Pod], d) <= Budget
  <2>1. CASE T = Pod
    <3>1. Demand(t, d) = Demand(cg, d)
        BY <1>3, <1>12, <2>1, DemandSame, BandwidthAssumption
    <3> QED
        BY <1>9, <1>10, <1>15, <1>18, <2>1, <3>1
  <2>2. CASE T = c
    <3>1. \A x \in Containers \ {c} : Share(t[x], d) = 0
        BY <1>3, <1>4, <1>6, <1>12, <2>2
    <3>2. Demand(t, d) = want
        BY <1>2, <1>8, <1>18, <2>2, <3>1, DemandOfOwner
    <3>3. Share(t[Pod], d) = Share(cg[Pod], d)
        BY <1>3, <1>12, <2>2
    <3> QED
        BY <1>10, <1>16, <2>2, <3>2, <3>3
  <2> QED
      BY <1>17, <2>1, <2>2
<1>20. \A g \in Groups : t[g].runtime[d] <= t[g].period
  <2>1. t[T].runtime[d] <= t[T].period
      BY <1>1, <1>2, <1>4, <1>7, <1>12, <1>17
  <2> QED
      BY <1>5, <1>12, <2>1
<1>21. Schedulable(t)
    BY <1>1, <1>2, <1>12, <1>19, <1>20, OtherCores
<1> QED
    BY <1>11, <1>21

\* No step of the handler, and no crash, takes the reasons away.
LEMMA DecisionKept ==
    ASSUME NEW h \in Handlers, DecisionInv(h), AppliedInv(h), ReasonInv(h), [Next]_vars,
           TypeOK, Handlers = {h}, Schedulable(cg)
    PROVE  DecisionInv(h)' /\ ReasonInv(h)'
<1> DEFINE r == req[h]
<1>1. /\ pc \in [Handlers -> Steps] /\ lower \in [Handlers -> BOOLEAN]
      /\ second \in [Handlers -> BOOLEAN] /\ answer \in [Handlers -> Answers]
      /\ blind \in [Handlers -> BOOLEAN] /\ cg \in [Groups -> Group]
      /\ req \in [Handlers -> CgroupRequest \cup {NoRequest}]
    BY DEF TypeOK
<1>2. CASE Receive(h)
  <2>1. /\ pc'[h] \in {"inspect", "idle"} /\ answer'[h] \in {"none", "bad"}
        /\ lower'[h] = FALSE /\ blind'[h] = FALSE
      BY <1>1, <1>2 DEF Receive
  <2> QED
      BY <2>1 DEF DecisionInv, ReasonInv, Files
<1>3. ASSUME UNCHANGED <<cg, req, blind>>, Reply(h, "failed") \/ Reply(h, "refused"),
             Reply(h, "refused") /\ ~blind[h] => OverBudget(r) \/ OrderMayFail(r)
      PROVE  DecisionInv(h)' /\ ReasonInv(h)'
  <2>1. pc'[h] = "idle" /\ answer'[h] \in {"failed", "refused"}
      BY <1>1, <1>3 DEF Reply
  <2>2. answer'[h] = "refused" => Reply(h, "refused")
      BY <1>1, <1>3 DEF Reply
  <2>3. /\ OverBudget(req'[h]) <=> OverBudget(r)
        /\ OrderMayFail(req[h])' <=> OrderMayFail(r)
      BY <1>3 DEF OrderMayFail
  <2> QED
      BY <1>3, <2>1, <2>2, <2>3 DEF DecisionInv, ReasonInv, Files
<1>4. CASE Preflight(h)
  <2>1. CASE Admissible(r)
    <3>1. pc[h] = "inspect" /\ pc'[h] = "readPeriod" /\ UNCHANGED <<lower, blind, answer>>
        BY <1>1, <1>4, <2>1 DEF Preflight
    <3> QED
        BY <3>1 DEF DecisionInv, ReasonInv, Files
  <2>2. CASE ~Admissible(r)
    <3>1. ~Reply(h, "refused")
        BY <1>1, <1>4, <2>2 DEF Preflight, Reply
    <3> QED
        BY <1>3, <1>4, <2>2, <3>1 DEF Preflight
  <2> QED
      BY <2>1, <2>2
<1>5. CASE ReadPeriod(h)
  <2>1. /\ pc[h] = "readPeriod" /\ pc'[h] = "readRuntime" /\ UNCHANGED <<cg, req, blind>>
        /\ lower'[h] = (~r.only /\ r.period < cg[Pod].period)
      BY <1>1, <1>5 DEF ReadPeriod
  <2> QED
      BY <2>1 DEF DecisionInv, ReasonInv, Files
<1>6. CASE ReadRuntime(h)
  <2> DEFINE fall == IsRuntimeDecrease(cg[Pod].runtime[AnyCore], r.runtime)
             low == lower[h] \/ ((~r.only \/ r.core = AnyCore) /\ fall)
  <2>1. /\ pc[h] = "readRuntime" /\ UNCHANGED <<cg, req, second, blind>>
        /\ lower'[h] = low
        /\ pc'[h] = (IF r.core = AnyCore THEN FirstFile(r, low) ELSE "readCore")
      BY <1>1, <1>6 DEF ReadRuntime
  <2>2. ~second[h] /\ ~blind[h] /\ (lower[h] => ~r.only /\ r.period < cg[Pod].period)
      BY <2>1 DEF AppliedInv, DecisionInv, Files
  <2>3. CASE r.core = AnyCore
    <3>1. /\ low => OtherCause(r) \/ IsRuntimeDecrease(cg[Pod].runtime[r.core], r.runtime)
          /\ ~low => ~IsRuntimeDecrease(cg[Pod].runtime[r.core], r.runtime)
        BY <2>2, <2>3 DEF OtherCause
    <3>2. pc'[h] \in {"runtime", "period"}
        BY <2>1, <2>3 DEF FirstFile
    <3> HIDE DEF low
    <3> QED
        BY <2>1, <3>1, <3>2 DEF DecisionInv, ReasonInv, OtherCause
  <2>4. CASE r.core # AnyCore
    <3>1. low => OtherCause(r)
        BY <2>2, <2>4 DEF OtherCause
    <3> HIDE DEF low
    <3> QED
        BY <2>1, <2>2, <2>4, <3>1 DEF DecisionInv, ReasonInv, OtherCause, Files
  <2> QED
      BY <2>3, <2>4
<1>7. CASE ReadCore(h)
  <2>1. PICK unread \in {FALSE, Faults} :
           LET old == IF unread THEN 0 ELSE cg[Pod].runtime[r.core]
               low == lower[h] \/ IsRuntimeDecrease(old, r.runtime)
           IN  /\ lower' = [lower EXCEPT ![h] = low]
               /\ blind' = [blind EXCEPT ![h] = unread]
               /\ pc' = [pc EXCEPT ![h] = FirstFile(r, low)]
      BY <1>7 DEF ReadCore
  <2> DEFINE old == IF unread THEN 0 ELSE cg[Pod].runtime[r.core]
             low == lower[h] \/ IsRuntimeDecrease(old, r.runtime)
  <2>2. /\ pc[h] = "readCore" /\ UNCHANGED <<cg, req, second>>
        /\ lower'[h] = low /\ blind'[h] = unread /\ pc'[h] = FirstFile(r, low)
      BY <1>1, <1>7, <2>1 DEF ReadCore
  <2>3. lower[h] => OtherCause(r)
      BY <2>2 DEF DecisionInv
  <2>4. ~unread => /\ low => \/ OtherCause(r)
                             \/ IsRuntimeDecrease(cg[Pod].runtime[r.core], r.runtime)
                   /\ ~low => ~IsRuntimeDecrease(cg[Pod].runtime[r.core], r.runtime)
      BY <2>3
  <2>5. pc'[h] \in {"runtime", "period"}
      BY <2>2 DEF FirstFile
  <2> HIDE DEF low
  <2> QED
      BY <2>2, <2>4, <2>5 DEF DecisionInv, ReasonInv, OtherCause
<1>8. CASE WriteRuntime(h) \/ WritePeriod(h) \/ WriteCpuset(h)
  <2>1. /\ UNCHANGED <<req, lower, blind>> /\ pc[h] \in Files
      BY <1>8 DEF WriteRuntime, WritePeriod, WriteCpuset, Files
  <2>2. CASE Reply(h, "refused") /\ UNCHANGED cg
    <3>1. CASE blind[h]
        BY <1>3, <2>1, <2>2, <3>1
    <3>2. CASE ~blind[h]
      <4>1. CASE \/ /\ pc[h] = "runtime"
                    /\ ~Schedulable(SetRuntime(cg, Target(h), req[h].core, WrittenRuntime(req[h])))
                 \/ /\ pc[h] = "period"
                    /\ ~Schedulable(SetPeriod(cg, Target(h), req[h].period))
        <5>1. OverBudget(r) \/ OrderMayFail(r)
            BY <3>2, <4>1, RefusalHasReason
        <5> QED
            BY <1>3, <2>1, <2>2, <5>1
      <4>2. CASE Advance(h)
        <5>1. answer'[h] # "refused"
          <6>1. answer'[h] = "refused" /\ pc'[h] = "idle"
              BY <1>1, <2>2 DEF Reply
          <6>2. NextFile(r, lower[h], pc[h]) # "idle" /\ FirstFile(r, lower[h]) # "idle"
              BY DEF NextFile, FirstFile
          <6>3. answer'[h] = "ok"
              BY <1>1, <4>2, <6>1, <6>2 DEF Advance, Reply
          <6> QED
              BY <6>1, <6>3
        <5> QED
            BY <1>1, <2>2, <5>1 DEF Reply
      <4> QED
          BY <1>8, <4>1, <4>2 DEF WriteRuntime, WritePeriod, WriteCpuset, Write
    <3> QED
        BY <3>1, <3>2
  <2>3. CASE Advance(h) /\ ~(Reply(h, "refused") /\ UNCHANGED cg)
    <3>1. pc'[h] = "idle" => answer'[h] = "ok"
        BY <1>1, <2>3 DEF Advance, Reply, NextFile, FirstFile
    <3>2. pc'[h] \in Files \cup {"idle"}
        BY <1>1, <2>3 DEF Advance, Reply, NextFile, FirstFile, Files
    <3>3. ASSUME pc'[h] \in Files, ~second'[h], ~blind[h]
          PROVE  /\ lower[h] => \/ OtherCause(r)'
                                \/ IsRuntimeDecrease(cg'[Pod].runtime[r.core], r.runtime)
                 /\ ~lower[h] /\ pc'[h] # "cpuset"
                       => ~IsRuntimeDecrease(cg'[Pod].runtime[r.core], r.runtime)
      <4>1. /\ ~second[h] /\ pc'[h] = NextFile(r, lower[h], pc[h])
        <5>1. pc'[h] # "idle"
            BY <3>3 DEF Files
        <5>2. ~(NextFile(r, lower[h], pc[h]) = "done" /\ ~second[h])
            BY <1>1, <2>3, <3>3 DEF Advance
        <5>3. ~(NextFile(r, lower[h], pc[h]) = "done" /\ second[h])
            BY <1>1, <2>3, <5>1 DEF Advance, Reply
        <5> QED
            BY <1>1, <2>3, <3>3, <5>2, <5>3 DEF Advance
      <4>2. /\ r.container # Pod /\ Target(h) \in Groups /\ Pod \in Groups
            /\ WrittenRuntime(r) \in Int /\ r.core \in Dims
          BY <2>1, ActiveRequest, BandwidthAssumption DEF Files, CgroupRequest, Groups
      <4>3. CASE lower[h]
        <5>1. Target(h) # Pod
            BY <4>1, <4>2, <4>3 DEF Target
        <5>2. cg'[Pod] = cg[Pod]
            BY <1>1, <1>8, <2>3, <4>2, <5>1 DEF WriteRuntime, WritePeriod, WriteCpuset, Write,
               SetRuntime, SetPeriod, SetCpus
        <5> QED
            BY <2>1, <3>3, <4>1, <4>3, <5>2 DEF DecisionInv, OtherCause
      <4>4. CASE ~lower[h] /\ pc'[h] # "cpuset"
        <5>1. pc[h] = "period"
            BY <2>1, <3>3, <4>1, <4>4 DEF NextFile, FirstFile, Files
        <5>2. cg' = SetPeriod(cg, Target(h), r.period) \/ cg' = cg
            BY <1>8, <5>1 DEF WriteRuntime, WritePeriod, WriteCpuset, Write
        <5>3. cg'[Pod].runtime = cg[Pod].runtime
          <6>1. cg[Pod] \in Group
              BY <1>1, <4>2
          <6> QED
              BY <1>1, <4>2, <5>2, <6>1 DEF SetPeriod, Group
        <5> QED
            BY <2>1, <3>3, <4>1, <4>4, <5>1, <5>3 DEF DecisionInv
      <4> QED
          BY <4>3, <4>4
    <3> QED
        BY <2>1, <3>1, <3>2, <3>3 DEF DecisionInv, ReasonInv, Files
  <2> QED
      BY <1>8, <2>2, <2>3 DEF WriteRuntime, WritePeriod, WriteCpuset, Write
<1>9. CASE Fault(h)
  <2>1. ~Reply(h, "refused")
      BY <1>1, <1>9 DEF Fault, Reply
  <2> QED
      BY <1>3, <1>9, <2>1 DEF Fault
<1>10. CASE Crash
  <2>1. /\ pc'[h] = "idle" /\ UNCHANGED <<cg, req, lower, second, blind>>
        /\ answer'[h] = "refused" => pc[h] = "idle" /\ answer[h] = "refused"
      BY <1>1, <1>10 DEF Crash
  <2> QED
      BY <2>1 DEF DecisionInv, ReasonInv, OrderMayFail, Files
<1>11. CASE UNCHANGED vars
    BY <1>11 DEF vars, DecisionInv, ReasonInv, OrderMayFail, OtherCause
<1> QED
    BY <1>2, <1>4, <1>5, <1>6, <1>7, <1>8, <1>9, <1>10, <1>11 DEF Next, Handle

\* With one request at a time, the listed circumstances are all the reasons that the kernel has to
\* refuse a request within the budget: for any requests, containers, periods and budgets, after
\* any faults and crashes.
THEOREM RefusalIsExplained ==
    ASSUME NEW CONSTANT h, Handlers = {h}
    PROVE  Spec => []RefusalExplained
<1>1. Init => DecisionInv(h) /\ ReasonInv(h)
    BY DEF Init, DecisionInv, ReasonInv, Files
<1>2. TypeOK /\ Schedulable(cg) /\ AppliedInv(h) /\ DecisionInv(h) /\ ReasonInv(h) /\ [Next]_vars
         => DecisionInv(h)' /\ ReasonInv(h)'
    BY DecisionKept
<1>3. ReasonInv(h) => RefusalExplained
    BY DEF ReasonInv, RefusalExplained
<1> QED
    BY <1>1, <1>2, <1>3, TypeCorrect, KernelRule, WhatIsWrittenStays, PTL DEF Spec

================================================================================
