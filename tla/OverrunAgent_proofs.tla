-------------------------- MODULE OverrunAgent_proofs --------------------------
(***************************************************************************)
(* Proofs about the overrun agent: for any number of containers and events *)
(* and any size of the ring buffer, with posts that are given up, signals  *)
(* and containers that come and go, each event of a living container is    *)
(* counted exactly once, no event is posted twice, and the total that is   *)
(* saved is covered by the table that is saved.                            *)
(***************************************************************************)
EXTENDS OverrunAgent, SequenceTheorems, SumFacts

\* The positions of a group's events in a buffer, and their number.
At(q, g) == {i \in DOMAIN q : q[i] = g}

\* A buffer has finitely many positions.
LEMMA AtFinite ==
    ASSUME NEW q \in Seq(Groups), NEW g
    PROVE  IsFiniteSet(At(q, g)) /\ Cardinality(At(q, g)) \in Nat
<1>1. DOMAIN q = 1..Len(q) /\ Len(q) \in Nat
    OBVIOUS
<1>2. IsFiniteSet(1..Len(q))
    BY <1>1, FS_Interval
<1>3. At(q, g) \in SUBSET (1..Len(q))
    BY <1>1 DEF At
<1>4. IsFiniteSet(At(q, g))
    BY <1>2, <1>3, FS_Subset
<1> QED
    BY <1>4, FS_CardinalityType

\* One more event at the end.
LEMMA AtAppend ==
    ASSUME NEW q \in Seq(Groups), NEW h \in Groups, NEW g \in Groups
    PROVE  Cardinality(At(Append(q, h), g))
              = Cardinality(At(q, g)) + (IF g = h THEN 1 ELSE 0)
<1> DEFINE r == Append(q, h)
           n == Len(q) + 1
<1>1. /\ DOMAIN q = 1..Len(q) /\ Len(q) \in Nat /\ DOMAIN r = 1..n
      /\ r[n] = h /\ \A i \in 1..Len(q) : r[i] = q[i]
    OBVIOUS
<1>2. n \notin At(q, g)
    BY <1>1 DEF At
<1>3. CASE g = h
  <2>1. At(r, g) = At(q, g) \cup {n}
      BY <1>1, <1>3 DEF At
  <2>2. Cardinality(At(q, g) \cup {n}) = Cardinality(At(q, g)) + 1
      BY <1>2, AtFinite, FS_AddElement
  <2> QED
      BY <1>3, <2>1, <2>2
<1>4. CASE g # h
  <2>1. At(r, g) = At(q, g)
      BY <1>1, <1>4 DEF At
  <2> QED
      BY <1>4, <2>1, AtFinite
<1> QED
    BY <1>3, <1>4

\* One event less at the front.
LEMMA AtTail ==
    ASSUME NEW q \in Seq(Groups), q # <<>>, NEW g \in Groups
    PROVE  Cardinality(At(q, g))
              = Cardinality(At(Tail(q), g)) + (IF g = Head(q) THEN 1 ELSE 0)
<1> DEFINE r == Tail(q)
           R == At(r, g)
           Q == At(q, g) \ {1}
<1>1. /\ r \in Seq(Groups) /\ Len(q) \in Nat /\ Len(q) >= 1 /\ Len(r) = Len(q) - 1
      /\ DOMAIN q = 1..Len(q) /\ DOMAIN r = 1..(Len(q) - 1)
      /\ \A i \in 1..(Len(q) - 1) : r[i] = q[i + 1]
      /\ Head(q) = q[1]
    OBVIOUS
<1>2. ASSUME NEW i \in R
      PROVE  i + 1 \in Q /\ i \in Nat
    BY <1>1 DEF At
<1>3. ASSUME NEW j \in Q
      PROVE  j - 1 \in R /\ (j - 1) + 1 = j
    BY <1>1 DEF At
<1>4. ExistsBijection(R, Q)
  <2> DEFINE f == [i \in R |-> i + 1]
  <2>1. f \in [R -> Q]
      BY <1>2
  <2>2. \A a, b \in R : f[a] = f[b] => a = b
      BY <1>2
  <2>3. \A j \in Q : \E i \in R : f[i] = j
      BY <1>3
  <2>4. f \in Bijection(R, Q)
      BY <2>1, <2>2, <2>3 DEF Bijection, Injection, Surjection, IsInjective
  <2> QED
      BY <2>4 DEF ExistsBijection
<1>5. IsFiniteSet(R) /\ IsFiniteSet(At(q, g))
    BY <1>1, AtFinite
<1>6. Cardinality(Q) = Cardinality(R)
    BY <1>4, <1>5, FS_Bijection
<1>7. Cardinality(Q) = IF 1 \in At(q, g) THEN Cardinality(At(q, g)) - 1 ELSE Cardinality(At(q, g))
    BY <1>5, FS_RemoveElement
<1>8. 1 \in At(q, g) <=> g = Head(q)
    BY <1>1 DEF At
<1>9. Cardinality(At(q, g)) \in Nat /\ Cardinality(R) \in Nat
    BY <1>1, AtFinite
<1> QED
    BY <1>6, <1>7, <1>8, <1>9

--------------------------------------------------------------------------------
(***************************************************************************)
(* The inductive invariant.                                                *)
(***************************************************************************)

\* The types of what the counts and the posts speak of.
Types ==
    /\ cgroup \in [Groups -> {"unborn", "live", "gone"}]
    /\ queue \in Seq(Groups)
    /\ known \subseteq Groups
    /\ loop \in {"cache", "attach", "read", "resolve", "count", "total", "post", "ended"}
    /\ cur \in Groups \cup {NoEvent}
    /\ loop \in {"resolve", "count", "total", "post"} => cur \in Groups
    /\ counts \in [Groups -> Nat] /\ reported \in [Groups -> Nat]
    /\ late \in [Groups -> Nat] /\ received \in [Groups -> Nat]

\* Where the events of a group are.
Handled(g) == counts[g] + InHand(g) + Queued(g)

\* Before its cgroup is there, a container has no event; until it is gone, none is dropped.
CountInv(g) ==
    /\ cgroup[g] = "unborn" => reported[g] = 0
    /\ loop # "ended" => /\ Handled(g) <= reported[g]
                         /\ cgroup[g] # "gone" => Handled(g) = reported[g]

\* An event is counted before its post begins.
Due(g) == IF cur = g /\ (loop = "total" \/ (loop = "post" /\ ~got)) THEN 1 ELSE 0
PostInv(g) == received[g] + late[g] + Due(g) <= counts[g]

AgentInv ==
    /\ Types
    /\ \A g \in Containers : CountInv(g)
    /\ \A g \in Groups : PostInv(g)

\* The number of a group's events in the buffer.
LEMMA QueuedIsAt ==
    ASSUME NEW g
    PROVE  Queued(g) = Cardinality(At(queue, g)) /\ Queued(g)' = Cardinality(At(queue', g))
BY DEF Queued, At

LEMMA QueuedNat ==
    ASSUME Types, NEW g
    PROVE  Queued(g) \in Nat
BY QueuedIsAt, AtFinite DEF Types

\* A count that goes up by one, at one group.
LEMMA BumpOne ==
    ASSUME NEW f \in [Groups -> Nat], NEW h \in Groups
    PROVE  /\ Bump(f, h) \in [Groups -> Nat]
           /\ \A g \in Groups : Bump(f, h)[g] = f[g] + (IF g = h THEN 1 ELSE 0)
BY DEF Bump

\* The initial states.
LEMMA InitInvariant == Init => AgentInv
<1> SUFFICES ASSUME Init
             PROVE  AgentInv
    OBVIOUS
<1>1. Types
    BY DEF Init, Types, Zero
<1>2. ASSUME NEW g \in Groups
      PROVE  Queued(g) = 0 /\ InHand(g) = 0 /\ Due(g) = 0 /\ counts[g] = 0 /\ reported[g] = 0
             /\ received[g] = 0 /\ late[g] = 0
  <2>1. {i \in DOMAIN queue : queue[i] = g} = {}
      BY DEF Init
  <2>2. Queued(g) = 0
      BY <2>1, FS_EmptySet DEF Queued
  <2> QED
      BY <2>2 DEF Init, InHand, Due, Zero
<1> QED
    BY <1>1, <1>2, OverrunAgentAssumption DEF AgentInv, CountInv, PostInv, Handled

\* A step that touches neither the events nor the posts.
LEMMA Untouched ==
    ASSUME AgentInv, Types',
           UNCHANGED <<queue, counts, reported, late, received>>,
           \A g \in Containers : \/ cgroup'[g] = cgroup[g]
                                 \/ cgroup[g] = "unborn" /\ cgroup'[g] = "live"
                                 \/ cgroup[g] = "live" /\ cgroup'[g] = "gone",
           loop = "ended" => loop' = "ended",
           \A g \in Groups : InHand(g)' = InHand(g) \/ loop' = "ended",
           \A g \in Groups : Due(g)' <= Due(g)
    PROVE  AgentInv'
<1>1. ASSUME NEW g \in Groups
      PROVE  Queued(g)' = Queued(g)
    BY DEF Queued
<1>2. ASSUME NEW g \in Containers
      PROVE  CountInv(g)'
  <2>1. g \in Groups /\ CountInv(g)
      BY OverrunAgentAssumption DEF AgentInv
  <2>2. Handled(g)' = Handled(g) \/ loop' = "ended"
      BY <1>1, <2>1 DEF Handled
  <2> QED
      BY <2>1, <2>2 DEF CountInv
<1>3. ASSUME NEW g \in Groups
      PROVE  PostInv(g)'
  <2>1. PostInv(g) /\ received[g] \in Nat /\ late[g] \in Nat /\ counts[g] \in Nat
      BY DEF AgentInv, Types
  <2>2. Due(g) \in Nat /\ Due(g)' \in Nat /\ Due(g)' <= Due(g)
      BY DEF Due
  <2> QED
      BY <2>1, <2>2 DEF PostInv
<1> QED
    BY <1>2, <1>3 DEF AgentInv

\* Steps of the environment.
LEMMA EnvironmentInvariant ==
    ASSUME AgentInv, NEW g \in Groups, Change(g) \/ Reported(g) \/ Late(g)
    PROVE  AgentInv'
<1>1. Types
    BY DEF AgentInv
<1>2. CASE Change(g)
  <2>1. Types'
      BY <1>1, <1>2 DEF Change, Types, tableVars
  <2>2. \A h \in Groups : InHand(h)' = InHand(h) /\ Due(h)' = Due(h)
      BY <1>2 DEF Change, InHand, Due
  <2>3. \A h \in Groups : Due(h)' <= Due(h)
      BY <2>2 DEF Due
  <2>4. \A h \in Containers : \/ cgroup'[h] = cgroup[h]
                              \/ cgroup[h] = "unborn" /\ cgroup'[h] = "live"
                              \/ cgroup[h] = "live" /\ cgroup'[h] = "gone"
      BY <1>1, <1>2, OverrunAgentAssumption DEF Change, Types
  <2> QED
      BY <1>2, <2>1, <2>2, <2>3, <2>4, Untouched DEF Change, tableVars
<1>3. CASE Reported(g)
  <2>1. /\ cgroup[g] = "live" /\ queue' = Append(queue, g) /\ reported' = Bump(reported, g)
        /\ UNCHANGED <<cgroup, late, received, known, loop, cur, counts, got>>
      BY <1>3 DEF Reported, tableVars
  <2>2. /\ reported' \in [Groups -> Nat]
        /\ \A h \in Groups : reported'[h] = reported[h] + (IF h = g THEN 1 ELSE 0)
      BY <1>1, <2>1, BumpOne DEF Types
  <2>3. Types'
      BY <1>1, <2>1, <2>2 DEF Types
  <2>4. ASSUME NEW h \in Containers
        PROVE  CountInv(h)'
    <3>1. h \in Groups /\ CountInv(h)
        BY OverrunAgentAssumption DEF AgentInv
    <3>2. Queued(h)' = Queued(h) + (IF h = g THEN 1 ELSE 0)
        BY <1>1, <2>1, <3>1, QueuedIsAt, AtAppend DEF Types
    <3>3. counts'[h] = counts[h] /\ InHand(h)' = InHand(h) /\ InHand(h) \in Nat
        BY <2>1 DEF InHand
    <3>4. counts[h] \in Nat /\ Queued(h) \in Nat /\ reported[h] \in Nat
        BY <1>1, <3>1, QueuedNat DEF Types
    <3>5. Handled(h)' = Handled(h) + (IF h = g THEN 1 ELSE 0) /\ Handled(h) \in Nat
        BY <3>2, <3>3, <3>4 DEF Handled
    <3> QED
        BY <2>1, <2>2, <3>1, <3>4, <3>5 DEF CountInv
  <2>5. ASSUME NEW h \in Groups
        PROVE  PostInv(h)'
      BY <2>1 DEF AgentInv, PostInv, Due
  <2> QED
      BY <2>3, <2>4, <2>5 DEF AgentInv
<1>4. CASE Late(g)
  <2>1. /\ late[g] > 0 /\ late' = [late EXCEPT ![g] = @ - 1]
        /\ received' = Bump(received, g) \/ received' = received
        /\ UNCHANGED <<cgroup, reported, queue, known, loop, cur, counts, got>>
      BY <1>4 DEF Late, tableVars
  <2>2. /\ late' \in [Groups -> Nat] /\ received' \in [Groups -> Nat]
        /\ \A h \in Groups : received'[h] + late'[h] <= received[h] + late[h]
    <3>1. /\ late' \in [Groups -> Nat]
          /\ \A h \in Groups : late'[h] = late[h] - (IF h = g THEN 1 ELSE 0)
      <4>1. late \in [Groups -> Nat] /\ late[g] - 1 \in Nat
          BY <1>1, <2>1 DEF Types
      <4> QED
          BY <2>1, <4>1
    <3>2. /\ received' \in [Groups -> Nat]
          /\ \A h \in Groups : received'[h] <= received[h] + (IF h = g THEN 1 ELSE 0)
      <4>1. received \in [Groups -> Nat]
          BY <1>1 DEF Types
      <4>2. CASE received' = received
          BY <4>1, <4>2
      <4>3. CASE received' = Bump(received, g)
        <5>1. received' \in [Groups -> Nat]
            BY <4>1, <4>3, BumpOne
        <5>2. \A h \in Groups : received'[h] = received[h] + (IF h = g THEN 1 ELSE 0)
            BY <4>1, <4>3, BumpOne
        <5> QED
            BY <4>1, <5>1, <5>2
      <4> QED
          BY <2>1, <4>2, <4>3
    <3>3. ASSUME NEW h \in Groups
          PROVE  received'[h] + late'[h] <= received[h] + late[h]
      <4>1. received[h] \in Nat /\ late[h] \in Nat /\ received'[h] \in Nat /\ late'[h] \in Nat
          BY <1>1, <3>1, <3>2 DEF Types
      <4>2. CASE h = g
          BY <3>1, <3>2, <4>1, <4>2
      <4>3. CASE h # g
          BY <3>1, <3>2, <4>1, <4>3
      <4> QED
          BY <4>2, <4>3
    <3> QED
        BY <3>1, <3>2, <3>3
  <2>3. Types'
      BY <1>1, <2>1, <2>2 DEF Types
  <2>4. ASSUME NEW h \in Containers
        PROVE  CountInv(h)'
      BY <2>1 DEF AgentInv, CountInv, Handled, InHand, Queued
  <2>5. ASSUME NEW h \in Groups
        PROVE  PostInv(h)'
    <3>1. PostInv(h) /\ counts'[h] = counts[h] /\ Due(h)' = Due(h) /\ Due(h) \in Nat
        BY <2>1 DEF AgentInv, Due
    <3>2. /\ received[h] \in Nat /\ late[h] \in Nat /\ received'[h] \in Nat /\ late'[h] \in Nat
          /\ counts[h] \in Nat
        BY <1>1, <2>2 DEF Types
    <3> QED
        BY <2>2, <3>1, <3>2 DEF PostInv
  <2> QED
      BY <2>3, <2>4, <2>5 DEF AgentInv
<1> QED
    BY <1>2, <1>3, <1>4

\* Reading an event and finding its container.
LEMMA ReadInvariant ==
    ASSUME AgentInv, Read
    PROVE  AgentInv'
<1>1. /\ Types /\ loop = "read" /\ queue # <<>> /\ cur' = Head(queue) /\ queue' = Tail(queue)
      /\ loop' = "resolve" /\ UNCHANGED <<envVars, known, counts, got>>
    BY DEF AgentInv, Read, tableVars
<1>2. Head(queue) \in Groups /\ Tail(queue) \in Seq(Groups)
    BY <1>1 DEF Types
<1>3. Types'
    BY <1>1, <1>2 DEF Types, envVars
<1>4. ASSUME NEW h \in Containers
      PROVE  CountInv(h)'
  <2>1. h \in Groups /\ CountInv(h)
      BY OverrunAgentAssumption DEF AgentInv
  <2>2. Queued(h) = Queued(h)' + (IF h = Head(queue) THEN 1 ELSE 0)
      BY <1>1, <2>1, QueuedIsAt, AtTail DEF Types
  <2>3. InHand(h) = 0 /\ InHand(h)' = (IF h = Head(queue) THEN 1 ELSE 0)
      BY <1>1 DEF InHand
  <2>4. counts[h] \in Nat /\ Queued(h) \in Nat /\ Queued(h)' \in Nat
      BY <1>1, <1>2, <2>1, QueuedNat, QueuedIsAt, AtFinite DEF Types
  <2>5. Handled(h)' = Handled(h)
      BY <1>1, <2>2, <2>3, <2>4 DEF Handled
  <2> QED
      BY <1>1, <2>1, <2>5 DEF CountInv, envVars
<1>5. ASSUME NEW h \in Groups
      PROVE  PostInv(h)'
  <2>1. PostInv(h) /\ Due(h) = 0 /\ Due(h)' = 0
      BY <1>1 DEF AgentInv, Due
  <2> QED
      BY <1>1, <2>1 DEF PostInv, envVars
<1> QED
    BY <1>3, <1>4, <1>5 DEF AgentInv

LEMMA ResolveInvariant ==
    ASSUME AgentInv, Resolve
    PROVE  AgentInv'
<1>1. /\ Types /\ loop = "resolve" /\ cur \in Groups
      /\ known' = IF cur \in known THEN known ELSE known \cup Live
      /\ UNCHANGED <<envVars, queue, counts, got>>
    BY DEF AgentInv, Types, Resolve, tableVars
<1>2. known' \subseteq Groups
    BY <1>1 DEF Types, Live
<1>3. CASE cur \in known' \cap Containers /\ loop' = "count" /\ UNCHANGED cur
  <2>1. Types'
      BY <1>1, <1>2, <1>3 DEF Types, envVars
  <2>2. \A g \in Groups : InHand(g)' = InHand(g) /\ Due(g)' = 0 /\ Due(g) = 0
      BY <1>1, <1>3 DEF InHand, Due
  <2>3. \A g \in Groups : Due(g)' <= Due(g)
      BY <2>2
  <2> QED
      BY <1>1, <1>3, <2>1, <2>2, <2>3, Untouched DEF envVars
<1>4. CASE cur \notin known' \cap Containers /\ loop' = "read" /\ cur' = NoEvent
  <2>1. Types'
      BY <1>1, <1>2, <1>4 DEF Types, envVars
  <2>2. cgroup[cur] = "live" => cur \in known'
      BY <1>1 DEF Live
  <2>3. ASSUME NEW h \in Containers
        PROVE  CountInv(h)'
    <3>1. h \in Groups /\ CountInv(h)
        BY OverrunAgentAssumption DEF AgentInv
    <3>2. InHand(h) = (IF cur = h THEN 1 ELSE 0) /\ InHand(h)' = 0
        BY <1>1, <1>4 DEF InHand
    <3>3. counts[h] \in Nat /\ Queued(h) \in Nat /\ reported[h] \in Nat
        BY <1>1, <3>1, QueuedNat DEF Types
    <3>4. Handled(h)' = counts[h] + Queued(h)
        BY <1>1, <3>2, <3>3 DEF Handled, Queued
    <3>5. Handled(h) = counts[h] + (IF cur = h THEN 1 ELSE 0) + Queued(h)
        BY <3>2 DEF Handled
    <3>6. cur = h => cgroup[h] = "gone"
      <4>1. CASE cur = h /\ cgroup[h] = "unborn"
        <5>1. reported[h] = 0 /\ Handled(h) <= reported[h]
            BY <1>1, <3>1, <4>1 DEF CountInv
        <5>2. Handled(h) >= 1
            BY <3>3, <3>5, <4>1
        <5> QED
            BY <3>3, <3>5, <5>1, <5>2
      <4> QED
          BY <1>1, <1>4, <2>2, <3>1, <4>1 DEF Types
    <3> QED
        BY <1>1, <1>4, <3>1, <3>3, <3>4, <3>5, <3>6 DEF CountInv, envVars
  <2>4. ASSUME NEW h \in Groups
        PROVE  PostInv(h)'
    <3>1. PostInv(h) /\ Due(h) = 0 /\ Due(h)' = 0
        BY <1>1, <1>4 DEF AgentInv, Due
    <3> QED
        BY <1>1, <3>1 DEF PostInv, envVars
  <2> QED
      BY <2>1, <2>3, <2>4 DEF AgentInv
<1> QED
    BY <1>3, <1>4 DEF Resolve

\* Counting an event and posting it.
LEMMA TallyInvariant ==
    ASSUME AgentInv, Tally
    PROVE  AgentInv'
<1>1. /\ Types /\ cur \in Groups /\ loop \in {"count", "total"}
      /\ UNCHANGED <<envVars, queue, known, cur>>
    BY DEF AgentInv, Types, Tally
<1>2. CASE loop = "count"
  <2>1. loop' = "total" /\ counts' = Bump(counts, cur) /\ UNCHANGED got
      BY <1>2 DEF Tally
  <2>2. /\ counts' \in [Groups -> Nat]
        /\ \A h \in Groups : counts'[h] = counts[h] + (IF h = cur THEN 1 ELSE 0)
      BY <1>1, <2>1, BumpOne DEF Types
  <2>3. Types'
      BY <1>1, <2>1, <2>2 DEF Types, envVars
  <2>4. ASSUME NEW h \in Containers
        PROVE  CountInv(h)'
    <3>1. h \in Groups /\ CountInv(h)
        BY OverrunAgentAssumption DEF AgentInv
    <3>2. InHand(h) = (IF h = cur THEN 1 ELSE 0) /\ InHand(h)' = 0
        BY <1>1, <1>2, <2>1 DEF InHand
    <3>3. counts[h] \in Nat /\ Queued(h) \in Nat /\ Queued(h)' = Queued(h)
        BY <1>1, <3>1, QueuedNat DEF Types, Queued
    <3>4. Handled(h)' = Handled(h)
        BY <2>2, <3>1, <3>2, <3>3 DEF Handled
    <3> QED
        BY <1>1, <1>2, <3>1, <3>4 DEF CountInv, envVars
  <2>5. ASSUME NEW h \in Groups
        PROVE  PostInv(h)'
    <3>1. PostInv(h) /\ Due(h) = 0 /\ Due(h)' = (IF h = cur THEN 1 ELSE 0)
        BY <1>1, <1>2, <2>1 DEF AgentInv, Due
    <3>2. received[h] \in Nat /\ late[h] \in Nat /\ counts[h] \in Nat
        BY <1>1 DEF Types
    <3> QED
        BY <1>1, <2>2, <3>1, <3>2 DEF PostInv, envVars
  <2> QED
      BY <2>3, <2>4, <2>5 DEF AgentInv
<1>3. CASE loop = "total"
  <2>1. loop' = "post" /\ got' = FALSE /\ UNCHANGED counts
      BY <1>3 DEF Tally
  <2>2. Types'
      BY <1>1, <2>1 DEF Types, envVars
  <2>3. \A g \in Groups : InHand(g)' = InHand(g) /\ Due(g)' = Due(g)
      BY <1>1, <1>3, <2>1 DEF InHand, Due
  <2>4. \A g \in Groups : Due(g)' <= Due(g)
      BY <2>3 DEF Due
  <2> QED
      BY <1>1, <1>3, <2>1, <2>2, <2>3, <2>4, Untouched DEF envVars
<1> QED
    BY <1>1, <1>2, <1>3

LEMMA PostInvariant ==
    ASSUME AgentInv, Receive \/ PostReturns \/ PostTimeout
    PROVE  AgentInv'
<1>1. /\ Types /\ cur \in Groups /\ loop = "post"
      /\ UNCHANGED <<cgroup, reported, queue, known, counts>>
    BY DEF AgentInv, Types, Receive, PostReturns, PostTimeout, envVars, tableVars
<1>2. loop' \in {"post", "read"} /\ cur' \in {cur, NoEvent} /\ (loop' = "post" => cur' = cur)
    BY <1>1 DEF Receive, PostReturns, PostTimeout
<1>3. /\ late' \in [Groups -> Nat] /\ received' \in [Groups -> Nat]
      /\ \A h \in Groups :
            received'[h] + late'[h] + Due(h)' <= received[h] + late[h] + Due(h)
  <2>1. late \in [Groups -> Nat] /\ received \in [Groups -> Nat]
      BY <1>1 DEF Types
  <2>2. ASSUME NEW h \in Groups
        PROVE  /\ Due(h) = (IF cur = h /\ ~got THEN 1 ELSE 0) /\ Due(h) \in Nat
               /\ received[h] \in Nat /\ late[h] \in Nat
      BY <1>1, <2>1 DEF Due
  <2>3. CASE Receive
    <3>1. /\ ~got /\ received' = Bump(received, cur) /\ UNCHANGED late
          /\ \A h \in Groups : Due(h)' = 0
        BY <2>3 DEF Receive, Due
    <3>2. received' \in [Groups -> Nat]
        BY <1>1, <2>1, <3>1, BumpOne
    <3>3. ASSUME NEW h \in Groups
          PROVE  received'[h] + late'[h] + Due(h)' <= received[h] + late[h] + Due(h)
      <4>1. received'[h] = received[h] + (IF h = cur THEN 1 ELSE 0)
          BY <1>1, <2>1, <3>1, BumpOne
      <4>2. CASE h = cur
          BY <2>2, <3>1, <4>1, <4>2
      <4>3. CASE h # cur
          BY <2>2, <3>1, <4>1, <4>3
      <4> QED
          BY <4>2, <4>3
    <3> QED
        BY <2>1, <3>1, <3>2, <3>3
  <2>4. CASE PostReturns
    <3>1. UNCHANGED <<late, received>> /\ \A h \in Groups : Due(h)' = 0
        BY <2>4 DEF PostReturns, Due, envVars
    <3>2. ASSUME NEW h \in Groups
          PROVE  received'[h] + late'[h] + Due(h)' <= received[h] + late[h] + Due(h)
        BY <2>2, <3>1
    <3> QED
        BY <2>1, <3>1, <3>2
  <2>5. CASE PostTimeout
    <3>1. /\ UNCHANGED received /\ \A h \in Groups : Due(h)' = 0
          /\ late' = IF got THEN late ELSE Bump(late, cur)
        BY <2>5 DEF PostTimeout, Due
    <3>2. late' \in [Groups -> Nat]
        BY <1>1, <2>1, <3>1, BumpOne
    <3>3. ASSUME NEW h \in Groups
          PROVE  received'[h] + late'[h] + Due(h)' <= received[h] + late[h] + Due(h)
      <4>1. CASE got
          BY <2>2, <3>1, <4>1
      <4>2. CASE ~got
        <5>1. late'[h] = late[h] + (IF h = cur THEN 1 ELSE 0)
            BY <1>1, <2>1, <3>1, <4>2, BumpOne
        <5>2. CASE h = cur
            BY <2>2, <3>1, <4>2, <5>1, <5>2
        <5>3. CASE h # cur
            BY <2>2, <3>1, <4>2, <5>1, <5>3
        <5> QED
            BY <5>2, <5>3
      <4> QED
          BY <4>1, <4>2
    <3> QED
        BY <2>1, <3>1, <3>2, <3>3
  <2> QED
      BY <2>3, <2>4, <2>5
<1>4. Types'
    BY <1>1, <1>2, <1>3 DEF Types
<1>5. ASSUME NEW h \in Containers
      PROVE  CountInv(h)'
  <2>1. CountInv(h) /\ InHand(h) = 0 /\ InHand(h)' = 0 /\ Queued(h)' = Queued(h)
      BY <1>1, <1>2 DEF AgentInv, InHand, Queued
  <2>2. Handled(h)' = Handled(h)
      BY <1>1, <2>1 DEF Handled
  <2> QED
      BY <1>1, <1>2, <2>1, <2>2 DEF CountInv
<1>6. ASSUME NEW h \in Groups
      PROVE  PostInv(h)'
  <2>1. PostInv(h) /\ counts'[h] = counts[h] /\ counts[h] \in Nat
      BY <1>1 DEF AgentInv, Types
  <2>2. /\ received[h] \in Nat /\ late[h] \in Nat /\ received'[h] \in Nat /\ late'[h] \in Nat
        /\ Due(h) \in Nat /\ Due(h)' \in Nat
      BY <1>1, <1>3 DEF Types, Due
  <2> QED
      BY <1>3, <2>1, <2>2 DEF PostInv
<1> QED
    BY <1>4, <1>5, <1>6 DEF AgentInv

\* The steps before the loop, and those of the signal goroutine.
LEMMA OtherInvariant ==
    ASSUME AgentInv, BuildCache \/ LoadAndAttach \/ Signal \/ SaveStats
    PROVE  AgentInv'
<1>1. /\ Types /\ UNCHANGED <<envVars, counts>>
    BY DEF AgentInv, BuildCache, LoadAndAttach, Signal, SaveStats, WriteHeader, ReadEntry,
           WriteTable, Collide, tableVars
<1>2. CASE Exit
  <2>1. loop' = "ended" /\ queue' = <<>> /\ cur' = NoEvent
      BY <1>2 DEF Exit
  <2>2. Types'
    <3>1. known' = known \/ known' = Live
        BY DEF BuildCache, LoadAndAttach, Signal, SaveStats, WriteHeader, ReadEntry, WriteTable,
               Collide
    <3>2. queue' \in Seq(Groups)
        BY <2>1
    <3> QED
        BY <1>1, <2>1, <3>1, <3>2 DEF Types, Live, envVars
  <2>3. \A g \in Groups : PostInv(g)'
    <3> TAKE g \in Groups
    <3>1. PostInv(g) /\ Due(g)' = 0 /\ Due(g) \in Nat
        BY <2>1 DEF AgentInv, Due
    <3>2. received[g] \in Nat /\ late[g] \in Nat /\ counts[g] \in Nat
        BY <1>1 DEF Types
    <3> QED
        BY <1>1, <3>1, <3>2 DEF PostInv, envVars
  <2>4. \A g \in Containers : CountInv(g)'
      BY <1>1, <2>1 DEF AgentInv, CountInv, envVars
  <2> QED
      BY <2>2, <2>3, <2>4 DEF AgentInv
<1>3. CASE ~Exit
  <2>1. /\ UNCHANGED <<queue, cur>> /\ known' \subseteq Groups
        /\ \/ loop' = loop
           \/ loop \in {"cache", "attach"} /\ loop' \in {"attach", "read", "ended"}
      BY <1>1, <1>3 DEF BuildCache, LoadAndAttach, Signal, SaveStats, WriteHeader, ReadEntry,
                        WriteTable, Collide, Live, Types
  <2>2. got' = got
      BY DEF BuildCache, LoadAndAttach, Signal, SaveStats, WriteHeader, ReadEntry, WriteTable,
             Collide
  <2>3. Types'
      BY <1>1, <2>1 DEF Types, envVars
  <2>4. \A g \in Groups : InHand(g)' = InHand(g) /\ Due(g)' = Due(g)
      BY <2>1, <2>2 DEF InHand, Due
  <2>5. \A g \in Groups : Due(g)' <= Due(g)
      BY <2>4 DEF Due
  <2> QED
      BY <1>1, <2>1, <2>3, <2>4, <2>5, Untouched DEF envVars
<1> QED
    BY <1>2, <1>3

\* The inductive invariant holds in every reachable state.
THEOREM Invariance == Spec => []AgentInv
<1>1. Init => AgentInv
    BY InitInvariant
<1>2. AgentInv /\ [Next]_vars => AgentInv'
  <2> SUFFICES ASSUME AgentInv, [Next]_vars
               PROVE  AgentInv'
      OBVIOUS
  <2>1. CASE UNCHANGED vars
    <3>1. UNCHANGED <<cgroup, late, reported, received, queue, known, loop, cur, counts, got>>
        BY <2>1 DEF vars, envVars, tableVars
    <3> QED
        BY <3>1 DEF AgentInv, Types, CountInv, PostInv, Handled, InHand, Queued, Due
  <2>2. CASE Environment
      BY <2>2, EnvironmentInvariant DEF Environment
  <2>3. CASE Loop
      BY <2>3, ReadInvariant, ResolveInvariant, TallyInvariant, PostInvariant, OtherInvariant
         DEF Loop
  <2>4. CASE Signal \/ SaveStats
      BY <2>4, OtherInvariant
  <2> QED
      BY <2>1, <2>2, <2>3, <2>4 DEF Next
<1> QED
    BY <1>1, <1>2, PTL DEF Spec

\* Each event of a living container is in the buffer, in hand, or counted, exactly once.
THEOREM CountsCorrect == Spec => []CountsAreTrue
<1>1. AgentInv => CountsAreTrue
    BY DEF AgentInv, CountInv, Handled, CountsAreTrue
<1> QED
    BY <1>1, Invariance, PTL

\* No event is posted twice.
THEOREM NoDoublePosts == Spec => []PostedAtMostOnce
<1>1. AgentInv => PostedAtMostOnce
  <2> SUFFICES ASSUME AgentInv, NEW g \in Groups
               PROVE  received[g] + late[g]
                         + (IF loop = "post" /\ cur = g /\ ~got THEN 1 ELSE 0) <= counts[g]
      BY DEF PostedAtMostOnce
  <2>1. received[g] \in Nat /\ late[g] \in Nat /\ counts[g] \in Nat /\ PostInv(g)
      BY DEF AgentInv, Types
  <2> QED
      BY <2>1 DEF PostInv, Due
<1> QED
    BY <1>1, Invariance, PTL

--------------------------------------------------------------------------------
(***************************************************************************)
(* The statistics that are saved.  They are read in three steps, total,    *)
(* keys and entries, while the loop writes them; what orders the three is  *)
(* that each entry is at least what it was at the step before.             *)
(***************************************************************************)

SaveTypes ==
    /\ total \in Nat /\ got \in BOOLEAN
    /\ saver \in {"wait", "create", "header", "lines", "saved", "failed"}
    /\ savedTotal \in Nat /\ savedKeys \subseteq Groups
    /\ lines \in [Groups -> Nat]

\* What the buffer and the counts are limited by.
Bounded ==
    /\ Len(queue) <= RingSize /\ SumFunction(reported) <= MaxEvents
    /\ loop \in {"count", "total", "post"} => cur \in Containers
    /\ \A g \in Groups : lines[g] <= counts[g] /\ counts[g] <= reported[g]

\* The total is behind the counts, by the event that is being counted.
Ahead == IF loop = "total" THEN 1 ELSE 0
Tallied == total + Ahead <= SumFunction(counts)

\* The least that the table will say of a group: its entry, once it is read; until then its
\* count, if the iteration is going to read it.
Entry(g) ==
    IF lines[g] > 0 THEN lines[g]
    ELSE IF saver = "create" \/ g \in savedKeys THEN counts[g] ELSE 0
Table == [g \in Groups |-> Entry(g)]

Covered ==
    /\ saver \in {"wait", "create"} => lines = Zero
    /\ saver \notin {"wait", "failed"} => savedTotal <= SumFunction(Table)
    /\ saver = "saved" => \A g \in savedKeys : lines[g] > 0

SaveInv == SaveTypes /\ Bounded /\ Tallied /\ Covered

\* Sums over the groups: one more, and more everywhere.
LEMMA SumOfBump ==
    ASSUME NEW f \in [Groups -> Nat], NEW h \in Groups
    PROVE  SumFunction(f) \in Nat /\ SumFunction(Bump(f, h)) = SumFunction(f) + 1
<1> DEFINE e == Bump(f, h)
<1>1. /\ e \in [Groups -> Nat] /\ e[h] = f[h] + 1
      /\ \A g \in Groups \ {h} : e[g] = f[g]
    BY BumpOne
<1> HIDE DEF e
<1>2. \A g \in Groups : f[g] \in Nat /\ e[g] \in Nat /\ f[g] \in Int /\ e[g] \in Int
    BY <1>1
<1>3. SumFunctionOnSet(e, Groups) - e[h] = SumFunctionOnSet(f, Groups) - f[h]
    BY <1>1, <1>2, SumOfChange, OverrunAgentAssumption
<1>4. SumFunctionOnSet(e, Groups) \in Nat /\ SumFunctionOnSet(f, Groups) \in Nat
    BY <1>2, SumOfNaturals, OverrunAgentAssumption
<1>5. DOMAIN e = Groups /\ DOMAIN f = Groups
    BY <1>1
<1>6. SumFunction(e) = SumFunction(f) + 1 /\ SumFunction(f) \in Nat
    BY <1>1, <1>2, <1>3, <1>4, <1>5 DEF SumFunction
<1> QED
    BY <1>6 DEF e

LEMMA SumUpTo ==
    ASSUME NEW f \in [Groups -> Nat], NEW e \in [Groups -> Nat],
           \A g \in Groups : f[g] <= e[g]
    PROVE  /\ SumFunction(f) <= SumFunction(e)
           /\ SumFunction(f) \in Nat /\ SumFunction(e) \in Nat
           /\ \A g \in Groups : e[g] <= SumFunction(e)
<1>1. \A g \in Groups : /\ f[g] \in Nat /\ e[g] \in Nat
                        /\ f[g] \in Int /\ e[g] \in Int /\ f[g] <= e[g]
    OBVIOUS
<1>2. SumFunctionOnSet(f, Groups) <= SumFunctionOnSet(e, Groups)
    BY <1>1, SumMonotone, OverrunAgentAssumption
<1>3. /\ SumFunctionOnSet(f, Groups) \in Nat /\ SumFunctionOnSet(e, Groups) \in Nat
      /\ \A g \in Groups : e[g] <= SumFunctionOnSet(e, Groups)
    BY <1>1, SumOfNaturals, OverrunAgentAssumption
<1>4. DOMAIN e = Groups /\ DOMAIN f = Groups
    OBVIOUS
<1> QED
    BY <1>2, <1>3, <1>4 DEF SumFunction

\* No entry gets smaller, so the total is covered as before.
LEMMA TableGrows ==
    ASSUME Types, Types', SaveTypes, SaveTypes',
           \A g \in Groups : Entry(g) <= Entry(g)'
    PROVE  SumFunction(Table) <= SumFunction(Table') /\ SumFunction(Table) \in Nat
           /\ SumFunction(Table') \in Nat
<1>1. \A g \in Groups : Entry(g) \in Nat /\ Entry(g)' \in Nat
    BY DEF Types, SaveTypes, Entry
<1>2. Table \in [Groups -> Nat] /\ Table' \in [Groups -> Nat]
    BY <1>1 DEF Table
<1>3. \A g \in Groups : Table[g] <= Table'[g]
    BY DEF Table
<1> HIDE DEF Table
<1> QED
    BY <1>2, <1>3, SumUpTo

LEMMA InitSave == Init => SaveInv
<1> SUFFICES ASSUME Init
             PROVE  SaveInv
    OBVIOUS
<1>1. /\ counts = Zero /\ reported = Zero /\ lines = Zero /\ total = 0 /\ queue = <<>>
      /\ loop = "cache" /\ saver = "wait" /\ savedKeys = {} /\ savedTotal = 0 /\ got = FALSE
    BY DEF Init
<1>2. Zero \in [Groups -> Nat] /\ \A g \in Groups : Zero[g] = 0
    BY DEF Zero
<1>3. SumFunction(Zero) = 0
  <2>1. SumFunctionOnSet(Zero, Groups) = 0
      BY <1>2, SumOfZeros, OverrunAgentAssumption
  <2> QED
      BY <1>2, <2>1 DEF SumFunction
<1>4. Len(queue) = 0 /\ RingSize \in Nat /\ MaxEvents \in Nat
    BY <1>1, OverrunAgentAssumption
<1>5. SaveTypes
    BY <1>1, <1>2 DEF SaveTypes
<1>6. Bounded
    BY <1>1, <1>2, <1>3, <1>4 DEF Bounded
<1>7. Tallied
    BY <1>1, <1>3 DEF Tallied, Ahead
<1>8. Covered
    BY <1>1 DEF Covered
<1> QED
    BY <1>5, <1>6, <1>7, <1>8 DEF SaveInv

\* A step that touches neither the counts nor what is saved.
LEMMA SaveUntouched ==
    ASSUME Types, Types', SaveInv,
           UNCHANGED <<counts, reported, total, saver, savedTotal, savedKeys, lines>>,
           Len(queue') <= RingSize, got' \in BOOLEAN,
           loop' \in {"count", "total", "post"} => cur' \in Containers,
           loop' = "total" => loop = "total"
    PROVE  SaveInv'
<1>1. SaveTypes /\ SaveTypes' /\ Bounded'
    BY DEF SaveInv, SaveTypes, Bounded
<1>2. Tallied'
  <2>1. counts \in [Groups -> Nat]
      BY DEF Types
  <2>2. SumFunction(counts) \in Nat
      BY <2>1, SumUpTo
  <2>3. Ahead \in Nat /\ Ahead' \in Nat /\ Ahead' <= Ahead
      BY DEF Ahead
  <2> QED
      BY <1>1, <2>2, <2>3 DEF SaveInv, SaveTypes, Tallied
<1>3. Table' = Table
    BY DEF Table, Entry
<1>4. Covered'
    BY <1>3 DEF SaveInv, Covered
<1> QED
    BY <1>1, <1>2, <1>4 DEF SaveInv

\* The environment, the steps before the loop, and those of the loop that count nothing.
LEMMA EnvironmentSave ==
    ASSUME AgentInv, AgentInv', SaveInv, NEW g \in Groups, Change(g) \/ Reported(g) \/ Late(g)
    PROVE  SaveInv'
<1>1. Types /\ Types' /\ Bounded /\ SaveTypes
    BY DEF AgentInv, SaveInv
<1>2. CASE Change(g) \/ Late(g)
  <2>1. UNCHANGED <<queue, loop, cur, counts, reported, total, got, saver, savedTotal, savedKeys,
                    lines>>
      BY <1>2 DEF Change, Late, tableVars, saveVars
  <2> QED
      BY <1>1, <2>1, SaveUntouched DEF Bounded, SaveTypes
<1>3. CASE Reported(g)
  <2>1. /\ Len(queue) < RingSize /\ SumFunction(reported) < MaxEvents
        /\ queue' = Append(queue, g) /\ reported' = Bump(reported, g)
        /\ UNCHANGED <<loop, cur, counts, total, got, saver, savedTotal, savedKeys, lines>>
      BY <1>3 DEF Reported, tableVars, saveVars
  <2>2. reported \in [Groups -> Nat] /\ counts \in [Groups -> Nat] /\ queue \in Seq(Groups)
      BY <1>1 DEF Types
  <2>3. Bounded'
    <3>1. Len(queue') = Len(queue) + 1 /\ Len(queue) \in Nat
        BY <2>1, <2>2
    <3>2. SumFunction(reported') = SumFunction(reported) + 1 /\ SumFunction(reported) \in Nat
        BY <2>1, <2>2, SumOfBump
    <3>3. \A h \in Groups : counts[h] <= reported'[h]
      <4> SUFFICES ASSUME NEW h \in Groups
                   PROVE  counts[h] <= reported'[h]
          OBVIOUS
      <4>1. reported'[h] = reported[h] + (IF h = g THEN 1 ELSE 0)
          BY <2>1, <2>2, BumpOne
      <4>2. counts[h] <= reported[h] /\ counts[h] \in Nat /\ reported[h] \in Nat
          BY <1>1, <2>2 DEF Bounded
      <4> QED
          BY <4>1, <4>2
    <3> QED
        BY <1>1, <2>1, <3>1, <3>2, <3>3, OverrunAgentAssumption DEF Bounded
  <2>4. Table' = Table /\ Ahead' = Ahead
      BY <2>1 DEF Table, Entry, Ahead
  <2> QED
      BY <2>1, <2>3, <2>4 DEF SaveInv, SaveTypes, Tallied, Covered
<1> QED
    BY <1>2, <1>3

LEMMA LoopSave ==
    ASSUME AgentInv, AgentInv', SaveInv,
           \/ BuildCache \/ LoadAndAttach \/ Read \/ Resolve
           \/ Receive \/ PostReturns \/ PostTimeout
    PROVE  SaveInv'
<1>1. Types /\ Types' /\ Bounded /\ SaveTypes
    BY DEF AgentInv, SaveInv
<1>2. UNCHANGED <<counts, reported, total, saver, savedTotal, savedKeys, lines>>
    BY DEF BuildCache, LoadAndAttach, Read, Resolve, Receive, PostReturns, PostTimeout, envVars,
           tableVars, saveVars
<1>3. Len(queue') <= RingSize
  <2>1. CASE Read
    <3>1. queue \in Seq(Groups) /\ queue # <<>> /\ queue' = Tail(queue)
        BY <1>1, <2>1 DEF Read, Types
    <3>2. Len(queue') = Len(queue) - 1 /\ Len(queue) \in Nat
        BY <3>1
    <3> QED
        BY <1>1, <3>2, OverrunAgentAssumption DEF Bounded
  <2>2. CASE ~Read
    <3>1. queue' = queue
        BY <2>2 DEF BuildCache, LoadAndAttach, Resolve, Receive, PostReturns, PostTimeout
    <3> QED
        BY <1>1, <3>1 DEF Bounded
  <2> QED
      BY <2>1, <2>2
<1>4. got' \in BOOLEAN
    BY <1>1 DEF SaveTypes, BuildCache, LoadAndAttach, Read, Resolve, Receive, PostReturns,
                PostTimeout
<1>5. /\ loop' \in {"count", "total", "post"} => cur' \in Containers
      /\ loop' = "total" => loop = "total"
    BY <1>1 DEF Bounded, BuildCache, LoadAndAttach, Read, Resolve, Receive, PostReturns,
                PostTimeout
<1> QED
    BY <1>1, <1>2, <1>3, <1>4, <1>5, SaveUntouched

\* An event is counted before the total goes up.
LEMMA TallySave ==
    ASSUME AgentInv, AgentInv', SaveInv, Tally
    PROVE  SaveInv'
<1>1. /\ Types /\ Types' /\ Bounded /\ SaveTypes /\ Tallied /\ Covered
      /\ cur \in Groups /\ cur \in Containers
      /\ UNCHANGED <<queue, cur, reported, saver, savedTotal, savedKeys, lines>>
      /\ counts \in [Groups -> Nat] /\ counts' \in [Groups -> Nat]
      /\ reported \in [Groups -> Nat]
    BY OverrunAgentAssumption DEF AgentInv, SaveInv, Types, Bounded, Tally, envVars, saveVars
<1>2. CASE loop = "count"
  <2>1. loop' = "total" /\ counts' = Bump(counts, cur) /\ UNCHANGED <<total, got>>
      BY <1>2 DEF Tally
  <2>2. SaveTypes'
      BY <1>1, <2>1 DEF SaveTypes
  <2>3. ASSUME NEW g \in Groups
        PROVE  /\ counts'[g] = counts[g] + (IF g = cur THEN 1 ELSE 0)
               /\ counts[g] \in Nat /\ counts'[g] \in Nat /\ reported[g] \in Nat
               /\ lines[g] \in Nat /\ counts[g] <= counts'[g]
    <3>1. counts'[g] = counts[g] + (IF g = cur THEN 1 ELSE 0)
        BY <1>1, <2>1, BumpOne
    <3> QED
        BY <1>1, <3>1 DEF SaveTypes
  <2>4. Bounded'
    <3>1. ASSUME NEW g \in Containers, g = cur
          PROVE  counts'[g] <= reported[g]
      <4>1. CountInv(g)' /\ loop' # "ended" /\ g \in Groups
          BY <1>1, <2>1, OverrunAgentAssumption DEF AgentInv
      <4>2. Handled(g)' <= reported[g]
          BY <1>1, <4>1 DEF CountInv
      <4>3. Handled(g)' = counts'[g] + InHand(g)' + Queued(g)'
          BY DEF Handled
      <4>4. InHand(g)' \in Nat /\ Queued(g)' \in Nat
          BY <1>1, QueuedIsAt, AtFinite DEF InHand, Types
      <4> QED
          BY <2>3, <4>1, <4>2, <4>3, <4>4
    <3>2. ASSUME NEW g \in Groups
          PROVE  lines[g] <= counts'[g] /\ counts'[g] <= reported[g]
      <4>1. lines[g] <= counts[g] /\ counts[g] <= reported[g]
          BY <1>1 DEF Bounded
      <4>2. CASE g = cur
          BY <1>1, <2>3, <3>1, <4>1, <4>2
      <4>3. CASE g # cur
          BY <2>3, <4>1, <4>3
      <4> QED
          BY <4>2, <4>3
    <3> QED
        BY <1>1, <2>1, <3>2 DEF Bounded
  <2>5. Tallied'
    <3>1. SumFunction(counts') = SumFunction(counts) + 1 /\ SumFunction(counts) \in Nat
        BY <1>1, <2>1, SumOfBump
    <3>2. Ahead = 0 /\ Ahead' = 1
        BY <1>2, <2>1 DEF Ahead
    <3> QED
        BY <1>1, <2>1, <3>1, <3>2 DEF Tallied, SaveTypes
  <2>6. Covered'
    <3>1. \A g \in Groups : Entry(g) <= Entry(g)'
        BY <1>1, <2>3 DEF Entry, SaveTypes
    <3>2. /\ SumFunction(Table) <= SumFunction(Table')
          /\ SumFunction(Table) \in Nat /\ SumFunction(Table') \in Nat
        BY <1>1, <2>2, <3>1, TableGrows
    <3> QED
        BY <1>1, <3>2 DEF Covered, SaveTypes
  <2> QED
      BY <2>2, <2>4, <2>5, <2>6 DEF SaveInv
<1>3. CASE loop = "total"
  <2>1. loop' = "post" /\ total' = total + 1 /\ got' = FALSE /\ UNCHANGED counts
      BY <1>3 DEF Tally
  <2>2. SaveTypes' /\ Bounded'
    <3>1. total' \in Nat /\ got' \in BOOLEAN
      <4>1. total \in Nat /\ total' = total + 1
          BY <1>1, <2>1, Zenon DEF SaveTypes
      <4>2. total' \in Nat
          BY <4>1
      <4>3. got' \in BOOLEAN
          BY <2>1, Zenon
      <4> QED
          BY <4>2, <4>3, Zenon
    <3>2. SaveTypes'
        BY <1>1, <3>1 DEF SaveTypes
    <3>3. Bounded'
        BY <1>1, <2>1 DEF Bounded
    <3> QED
        BY <3>2, <3>3
  <2>3. Tallied'
    <3>1. Ahead = 1 /\ Ahead' = 0
        BY <1>3, <2>1 DEF Ahead
    <3>2. SumFunction(counts) \in Nat
        BY <1>1, SumUpTo
    <3> QED
        BY <1>1, <2>1, <3>1, <3>2 DEF Tallied, SaveTypes
  <2>4. Table' = Table
      BY <1>1, <2>1 DEF Table, Entry
  <2> QED
      BY <1>1, <2>2, <2>3, <2>4 DEF SaveInv, Covered
<1> QED
    BY <1>2, <1>3 DEF Tally

\* The steps of the signal goroutine.
LEMMA SignalSave ==
    ASSUME AgentInv, AgentInv', SaveInv, Signal
    PROVE  SaveInv'
<1>1. /\ Types /\ Types' /\ Bounded /\ SaveTypes /\ Tallied /\ Covered
      /\ counts \in [Groups -> Nat]
    BY DEF AgentInv, SaveInv, Types
<1>2. /\ saver = "wait" /\ saver' = "create" /\ savedTotal' = total
      /\ UNCHANGED <<queue, loop, cur, counts, reported, total, got, savedKeys, lines>>
    BY DEF Signal, envVars, tableVars
<1>3. SaveTypes' /\ Bounded' /\ Tallied'
    BY <1>1, <1>2 DEF SaveTypes, Bounded, Tallied, Ahead
<1>4. lines = Zero
    BY <1>1, <1>2 DEF Covered
<1>5. Table' = counts
  <2>1. \A g \in Groups : Entry(g)' = counts[g]
      BY <1>2, <1>4 DEF Entry, Zero
  <2> QED
      BY <1>1, <2>1 DEF Table
<1>6. total <= SumFunction(counts)
  <2>1. SumFunction(counts) \in Nat
      BY <1>1, SumUpTo
  <2> QED
      BY <1>1, <2>1 DEF Tallied, Ahead, SaveTypes
<1>7. Covered'
    BY <1>2, <1>4, <1>5, <1>6 DEF Covered, Zero
<1> QED
    BY <1>3, <1>7 DEF SaveInv

LEMMA WriterSave ==
    ASSUME AgentInv, AgentInv', SaveInv, SaveStats
    PROVE  SaveInv'
<1>1. /\ Types /\ Types' /\ Bounded /\ SaveTypes /\ Tallied /\ Covered
      /\ counts \in [Groups -> Nat] /\ lines \in [Groups -> Nat]
      /\ UNCHANGED <<counts, reported, total, got, savedTotal>>
    BY DEF AgentInv, SaveInv, Types, SaveTypes, SaveStats, WriteHeader, ReadEntry, WriteTable,
           Collide, envVars, tableVars
<1>2. Tallied' /\ Len(queue') <= RingSize
      /\ (loop' \in {"count", "total", "post"} => cur' \in Containers)
  <2>1. \/ UNCHANGED <<loop, queue, cur>>
        \/ loop' = "ended" /\ queue' = <<>> /\ cur' = NoEvent
      BY DEF SaveStats, WriteHeader, ReadEntry, WriteTable, Collide, Exit
  <2>2. CASE UNCHANGED <<loop, queue, cur>>
      BY <1>1, <2>2 DEF Tallied, Ahead, Bounded
  <2>3. CASE loop' = "ended" /\ queue' = <<>> /\ cur' = NoEvent
    <3>1. Ahead' = 0 /\ Ahead \in Nat /\ Len(queue') = 0
        BY <2>3 DEF Ahead
    <3>2. SumFunction(counts) \in Nat
        BY <1>1, SumUpTo
    <3> QED
        BY <1>1, <2>3, <3>1, <3>2, OverrunAgentAssumption DEF Tallied, SaveTypes
  <2> QED
      BY <2>1, <2>2, <2>3
<1>3. CASE saver' = "failed"
  <2>1. UNCHANGED <<savedKeys, lines>>
      BY <1>3 DEF SaveStats, WriteHeader, ReadEntry, WriteTable, Collide
  <2> QED
      BY <1>1, <1>2, <1>3, <2>1 DEF SaveInv, SaveTypes, Bounded, Covered
<1>4. CASE saver = "create" /\ saver' # "failed"
  <2>1. /\ saver' = "header" /\ savedKeys' = {g \in Groups : counts[g] > 0}
        /\ UNCHANGED lines
      BY <1>4 DEF SaveStats, WriteHeader, ReadEntry, WriteTable, Collide
  <2>2. SaveTypes' /\ Bounded'
      BY <1>1, <1>2, <2>1 DEF SaveTypes, Bounded
  <2>3. Table' = Table
    <3>1. ASSUME NEW g \in Groups
          PROVE  Entry(g)' = Entry(g)
      <4>1. counts[g] \in Nat
          BY <1>1
      <4> QED
          BY <1>1, <1>4, <2>1, <4>1 DEF Entry
    <3> QED
        BY <3>1 DEF Table
  <2> QED
      BY <1>1, <1>2, <1>4, <2>1, <2>2, <2>3 DEF SaveInv, Covered
<1>5. ASSUME NEW g \in Groups, ReadEntry(g)
      PROVE  SaveInv'
  <2>1. /\ saver \in {"header", "lines"} /\ counts[g] > 0 /\ lines[g] = 0
        /\ saver' = "lines" /\ lines' = [lines EXCEPT ![g] = counts[g]] /\ UNCHANGED savedKeys
      BY <1>5 DEF ReadEntry
  <2>2. /\ lines' \in [Groups -> Nat] /\ lines'[g] = counts[g] /\ counts[g] \in Nat
        /\ \A h \in Groups : h # g => lines'[h] = lines[h]
      BY <1>1, <2>1
  <2>3. SaveTypes' /\ Bounded'
    <3>1. \A h \in Groups : lines'[h] <= counts[h]
        BY <1>1, <2>2 DEF Bounded
    <3> QED
        BY <1>1, <1>2, <2>1, <2>2, <3>1 DEF SaveTypes, Bounded
  <2>4. ASSUME NEW h \in Groups
        PROVE  Entry(h) <= Entry(h)'
    <3>1. counts[h] \in Nat /\ lines[h] \in Nat
        BY <1>1
    <3>2. CASE h = g
        BY <1>1, <2>1, <2>2, <3>1, <3>2 DEF Entry
    <3>3. CASE h # g
        BY <1>1, <2>1, <2>2, <3>1, <3>3 DEF Entry
    <3> QED
        BY <3>2, <3>3
  <2>5. /\ SumFunction(Table) <= SumFunction(Table')
        /\ SumFunction(Table) \in Nat /\ SumFunction(Table') \in Nat
      BY <1>1, <2>3, <2>4, TableGrows
  <2> QED
      BY <1>1, <1>2, <2>1, <2>3, <2>5 DEF SaveInv, Covered, SaveTypes
<1>6. CASE WriteTable
  <2>1. /\ saver \in {"header", "lines"} /\ \A g \in savedKeys : lines[g] > 0
        /\ saver' = "saved" /\ UNCHANGED <<savedKeys, lines>>
      BY <1>6 DEF WriteTable
  <2>2. Table' = Table
      BY <1>1, <2>1 DEF Table, Entry
  <2> QED
      BY <1>1, <1>2, <2>1, <2>2 DEF SaveInv, SaveTypes, Bounded, Covered
<1> QED
    BY <1>3, <1>4, <1>5, <1>6 DEF SaveStats, WriteHeader, Collide

\* What is saved keeps its invariant in every reachable state, beside that of the counts.
THEOREM SaveInvariance == Spec => [](AgentInv /\ SaveInv)
<1>1. Init => SaveInv
    BY InitSave
<1>2. AgentInv /\ AgentInv' /\ SaveInv /\ [Next]_vars => SaveInv'
  <2> SUFFICES ASSUME AgentInv, AgentInv', SaveInv, [Next]_vars
               PROVE  SaveInv'
      OBVIOUS
  <2>1. CASE UNCHANGED vars
    <3>1. /\ Types /\ Types' /\ Bounded /\ SaveTypes
          /\ UNCHANGED <<counts, reported, total, saver, savedTotal, savedKeys, lines, queue, got,
                         loop, cur>>
        BY <2>1 DEF AgentInv, SaveInv, vars, envVars, tableVars, saveVars
    <3> QED
        BY <3>1, SaveUntouched DEF Bounded, SaveTypes
  <2>2. CASE Environment
      BY <2>2, EnvironmentSave DEF Environment
  <2>3. CASE Loop
      BY <2>3, LoopSave, TallySave DEF Loop
  <2>4. CASE Signal \/ SaveStats
      BY <2>4, SignalSave, WriterSave
  <2> QED
      BY <2>1, <2>2, <2>3, <2>4 DEF Next
<1> QED
    BY <1>1, <1>2, Invariance, PTL DEF Spec

\* The total that is saved is covered by the table, for any number of containers and events and
\* for every interleaving of the loop and the goroutine that reads what it writes.
THEOREM SavedStatistics == Spec => []SavedTotalIsCovered
<1>1. AgentInv /\ SaveInv => SavedTotalIsCovered
  <2> SUFFICES ASSUME AgentInv, SaveInv, saver = "saved"
               PROVE  /\ savedTotal <= SumFunction(lines)
                      /\ \A g \in Groups : lines[g] <= reported[g]
      BY DEF SavedTotalIsCovered
  <2>1. /\ SaveTypes /\ Bounded /\ Covered
        /\ lines \in [Groups -> Nat] /\ counts \in [Groups -> Nat] /\ reported \in [Groups -> Nat]
      BY DEF AgentInv, SaveInv, Types, SaveTypes
  <2>2. Table = lines
    <3>1. ASSUME NEW g \in Groups
          PROVE  Entry(g) = lines[g]
      <4>1. lines[g] \in Nat /\ (g \in savedKeys => lines[g] > 0)
          BY <2>1 DEF Covered
      <4> QED
          BY <4>1 DEF Entry
    <3> QED
        BY <2>1, <3>1 DEF Table
  <2>3. \A g \in Groups : lines[g] <= reported[g]
      BY <2>1 DEF Bounded
  <2> QED
      BY <2>1, <2>2, <2>3 DEF Covered
<1> QED
    BY <1>1, SaveInvariance, PTL

\* Type correctness: the ring buffer keeps its size, and nothing is counted, posted or saved
\* more often than an event was sent.
THEOREM TypeCorrect == Spec => []TypeOK
<1>1. AgentInv /\ SaveInv => TypeOK
  <2> SUFFICES ASSUME AgentInv, SaveInv
               PROVE  TypeOK
      OBVIOUS
  <2>1. Types /\ SaveTypes /\ Bounded /\ SumFunction(reported) <= MaxEvents
      BY DEF AgentInv, SaveInv, Bounded
  <2>2. SumFunction(reported) \in Nat /\ \A g \in Groups : reported[g] <= SumFunction(reported)
    <3>1. reported \in [Groups -> Nat] /\ \A g \in Groups : reported[g] <= reported[g]
        BY <2>1 DEF Types
    <3> QED
        BY <3>1, SumUpTo
  <2>3. ASSUME NEW g \in Groups
        PROVE  /\ reported[g] \in 0..MaxEvents /\ counts[g] \in 0..MaxEvents
               /\ lines[g] \in 0..MaxEvents
               /\ late[g] \in 0..MaxEvents /\ received[g] \in 0..MaxEvents
    <3>1. /\ reported[g] \in Nat /\ counts[g] \in Nat /\ lines[g] \in Nat
          /\ late[g] \in Nat /\ received[g] \in Nat
        BY <2>1 DEF Types, SaveTypes
    <3>2. reported[g] <= MaxEvents /\ counts[g] <= reported[g] /\ lines[g] <= counts[g]
        BY <2>1, <2>2, <3>1, OverrunAgentAssumption DEF Bounded
    <3>3. received[g] + late[g] <= counts[g]
      <4>1. PostInv(g) /\ Due(g) \in Nat
          BY DEF AgentInv, Due
      <4> QED
          BY <3>1, <4>1 DEF PostInv
    <3> QED
        BY <3>1, <3>2, <3>3, OverrunAgentAssumption
  <2>4. /\ reported \in [Groups -> 0..MaxEvents] /\ counts \in [Groups -> 0..MaxEvents]
        /\ lines \in [Groups -> 0..MaxEvents]
        /\ late \in [Groups -> 0..MaxEvents] /\ received \in [Groups -> 0..MaxEvents]
      BY <2>1, <2>3 DEF Types, SaveTypes
  <2> QED
      BY <2>1, <2>4 DEF TypeOK, Types, SaveTypes, Bounded
<1> QED
    BY <1>1, SaveInvariance, PTL

================================================================================
