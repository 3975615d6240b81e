-------------------------- MODULE HcbsOverrun_proofs ---------------------------
(***************************************************************************)
(* Proofs about the overrun probe: for any number of servers and groups,   *)
(* any size of the map and of the ring buffer, and with the program that   *)
(* loads it failing, stopping and starting at any time, each depletion is  *)
(* reported at most once, and the feed of module OverrunFeed is            *)
(* implemented.                                                            *)
(***************************************************************************)
EXTENDS HcbsOverrun, SequenceTheorems, FiniteSetTheorems, TLAPS

\* What ProbeInv says of one server.
ServerInv(s) ==
    /\ UnusedInv(s) /\ DetachedInv(s) /\ FillingInv(s) /\ ArmedInv(s) /\ StoryInv(s)
    /\ story[s] \notin {"twice", "unfounded"}
    /\ story[s] = "missed" =>
          server[s].group \in FiftyMs \/ (wasPos[s] = "none" /\ MapFull)

\* Entries are never removed while the probe is attached, so that a full map stays full.
LEMMA MapStaysFull ==
    ASSUME MapFull, \A r \in Servers : wasPos[r] # "none" => wasPos'[r] # "none"
    PROVE  MapFull'
<1> DEFINE T == {r \in Servers : wasPos[r] # "none"}
           U == {r \in Servers : wasPos'[r] # "none"}
<1>1. T \subseteq U /\ U \subseteq Servers
    OBVIOUS
<1>2. IsFiniteSet(U)
    BY <1>1, FS_Subset, ProbeAssumption
<1>3. Cardinality(T) <= Cardinality(U) /\ Cardinality(T) \in Nat /\ Cardinality(U) \in Nat
    BY <1>1, <1>2, FS_Subset, FS_CardinalityType
<1>4. Cardinality(T) >= MaxTracked
    BY DEF MapFull
<1>5. Cardinality(U) >= MaxTracked
    BY <1>3, <1>4, ProbeAssumption
<1> QED
    BY <1>5 DEF MapFull

\* A step that concerns one server preserves the invariant if it does so for that server.
LEMMA OneServer ==
    ASSUME ProbeInv, ProbeTypeOK', NEW s \in Servers,
           \A r \in Servers : r # s => /\ server'[r] = server[r] /\ pc'[r] = pc[r]
                                       /\ wasPos'[r] = wasPos[r] /\ story'[r] = story[r],
           attached' = attached, ~attached => events' = <<>>,
           wasPos[s] # "none" => wasPos'[s] # "none",
           ServerInv(s)'
    PROVE  ProbeInv'
<1>1. MapFull => MapFull'
  <2>1. \A r \in Servers : wasPos[r] # "none" => wasPos'[r] # "none"
      OBVIOUS
  <2> QED
      BY <2>1, MapStaysFull
<1>2. ASSUME NEW r \in Servers, r # s
      PROVE  ServerInv(r)'
  <2>1. ServerInv(r)
      BY DEF ProbeInv, ServerInv, OneEventPerDepletion, MissedIsExplained
  <2>2. /\ server'[r] = server[r] /\ pc'[r] = pc[r]
        /\ wasPos'[r] = wasPos[r] /\ story'[r] = story[r]
      BY <1>2
  <2> QED
      BY <1>1, <2>1, <2>2
         DEF ServerInv, UnusedInv, DetachedInv, FillingInv, ArmedInv, StoryInv, Exhausted
<1>3. \A r \in Servers : ServerInv(r)'
    BY <1>2
<1> QED
    BY <1>3 DEF ProbeInv, ServerInv, OneEventPerDepletion, MissedIsExplained

\* The probe's part of a call.
LEMMA EnterInvariant ==
    ASSUME ProbeInv, NEW s \in Servers, Enter(s)
    PROVE  ProbeInv'
<1>1. /\ ProbeTypeOK /\ ServerInv(s) /\ (~attached => events = <<>>)
      /\ pc[s] = "out" /\ server[s].group # NoServer
      /\ UNCHANGED <<server, attached>>
    BY DEF Enter, ProbeInv, ServerInv, OneEventPerDepletion, MissedIsExplained
<1>2. server[s] \in Server /\ wasPos[s] \in {"none", "yes", "no"}
    BY <1>1 DEF ProbeTypeOK
<1>3. CASE Ignore(s)
  <2>1. ProbeTypeOK'
      BY <1>1, <1>3 DEF Ignore, ProbeTypeOK
  <2>2. ServerInv(s)'
      BY <1>1, <1>2, <1>3, ProbeAssumption
         DEF Ignore, ServerInv, UnusedInv, DetachedInv, FillingInv, ArmedInv, StoryInv,
             Exhausted, ProbeTypeOK, MapFull, Server
  <2> QED
      BY <1>1, <1>3, <2>1, <2>2, OneServer DEF Ignore
<1>4. CASE attached /\ server[s].group # NoGroup /\ Untracked(s)
  <2>1. ProbeTypeOK'
      BY <1>1, <1>4 DEF Untracked, ProbeTypeOK
  <2>2. ServerInv(s)'
      BY <1>1, <1>2, <1>4
         DEF Untracked, ServerInv, UnusedInv, DetachedInv, FillingInv, ArmedInv, StoryInv,
             Exhausted, ProbeTypeOK, MapFull
  <2> QED
      BY <1>1, <1>4, <2>1, <2>2, OneServer DEF Untracked
<1>5. ASSUME attached, server[s].group \in Groups, FirstHit(s), ~(wasPos[s] = "none" /\ MapFull)
      PROVE  story[s] = "owed"
    BY <1>1, <1>5 DEF FirstHit, Was, ServerInv, StoryInv, ProbeTypeOK
<1>6. CASE attached /\ server[s].group # NoGroup /\ ~(wasPos[s] = "none" /\ MapFull) /\ Reserve(s)
  <2>1. server[s].group \in Groups
      BY <1>1, <1>2, <1>6 DEF Server
  <2>2. story[s] = "owed" /\ Exhausted(s) /\ Was(s) = "yes" /\ Len(events) < RingSize
      BY <1>5, <1>6, <2>1 DEF Reserve, FirstHit
  <2>3. Sent(story[s]) = "sent"
      BY <2>2 DEF Sent
  <2>4. /\ pc' = [pc EXCEPT ![s] = "filling"] /\ story' = [story EXCEPT ![s] = "sent"]
        /\ wasPos' = [wasPos EXCEPT ![s] = "yes"]
        /\ \E current \in Cgroups : events' = Append(events, Record(s, current))
      BY <1>6, <2>2, <2>3 DEF Reserve
  <2>5. events' \in Seq(Event) /\ Len(events') <= RingSize
    <3> PICK current \in Cgroups : events' = Append(events, Record(s, current))
        BY <2>4
    <3>1. Record(s, current) \in Event
        BY <2>1 DEF Event, Record
    <3>2. events \in Seq(Event) /\ Len(events) \in Nat /\ RingSize \in Nat
        BY <1>1, ProbeAssumption DEF ProbeTypeOK
    <3> QED
        BY <2>2, <3>1, <3>2
  <2>6. ProbeTypeOK'
      BY <1>1, <2>4, <2>5 DEF ProbeTypeOK
  <2>7. ServerInv(s)'
      BY <1>1, <1>6, <2>1, <2>2, <2>4
         DEF ServerInv, UnusedInv, DetachedInv, FillingInv, ArmedInv, StoryInv,
             Exhausted, ProbeTypeOK
  <2> QED
      BY <1>1, <1>6, <2>4, <2>6, <2>7, OneServer
<1>7. CASE attached /\ server[s].group # NoGroup /\ ~(wasPos[s] = "none" /\ MapFull) /\ Lose(s)
  <2>1. ProbeTypeOK'
      BY <1>1, <1>7 DEF Lose, ProbeTypeOK
  <2>2. server[s].group \in Groups
      BY <1>1, <1>2, <1>7 DEF Server
  <2>3. story[s] = "owed"
      BY <1>5, <1>7, <2>2 DEF Lose
  <2>4. ServerInv(s)'
      BY <1>1, <1>2, <1>7, <2>3
         DEF Lose, FirstHit, ServerInv, UnusedInv, DetachedInv, FillingInv, ArmedInv, StoryInv,
             Exhausted, ProbeTypeOK
  <2> QED
      BY <1>1, <1>7, <2>1, <2>4, OneServer DEF Lose
<1>8. CASE attached /\ server[s].group # NoGroup /\ ~(wasPos[s] = "none" /\ MapFull) /\ Observe(s)
  <2>1. /\ pc' = [pc EXCEPT ![s] = "body"] /\ UNCHANGED events
        /\ wasPos' = [wasPos EXCEPT ![s] = IF server[s].left THEN "yes" ELSE Was(s)]
        /\ story' = [story EXCEPT ![s] = IF @ = "owed" THEN "missed" ELSE @]
        /\ Was(s) \in {"yes", "no"} /\ ~FirstHit(s)
      BY <1>2, <1>8 DEF Observe, Was
  <2>2. ProbeTypeOK'
      BY <1>1, <2>1 DEF ProbeTypeOK
  <2>3. server[s].group \in Groups
      BY <1>1, <1>2, <1>8 DEF Server
  <2>4. story[s] = "owed" => server[s].group \in FiftyMs
      BY <1>1, <2>1, <2>3 DEF FirstHit, Was, ServerInv, StoryInv
  <2>5. wasPos'[s] = IF server[s].left THEN "yes" ELSE Was(s)
      BY <1>1, <2>1 DEF ProbeTypeOK
  <2>6. story'[s] = IF story[s] = "owed" THEN "missed" ELSE story[s]
      BY <1>1, <2>1 DEF ProbeTypeOK
  <2>7. pc'[s] = "body"
      BY <1>1, <2>1 DEF ProbeTypeOK
  <2>8. wasPos'[s] = wasPos[s] \/ wasPos[s] = "none" \/ server[s].left
      BY <2>5 DEF Was
  <2>9. story[s] = "missed" => server[s].group \in FiftyMs
      BY <1>1, <1>8 DEF ServerInv
  <2>10. ServerInv(s)'
    <3>1. UnusedInv(s)' /\ DetachedInv(s)' /\ FillingInv(s)'
        BY <1>1, <1>8, <2>6, <2>7 DEF UnusedInv, DetachedInv, FillingInv
    <3>2. ArmedInv(s)'
        BY <1>1, <2>5 DEF ArmedInv
    <3>3. StoryInv(s)'
        BY <1>1, <2>5, <2>6, <2>7, <2>8 DEF ServerInv, StoryInv, Exhausted, Was
    <3> QED
        BY <1>1, <2>4, <2>6, <2>9, <3>1, <3>2, <3>3 DEF ServerInv
  <2>11. wasPos'[s] # "none"
      BY <2>1, <2>5
  <2> QED
      BY <1>1, <2>1, <2>2, <2>10, <2>11, OneServer
<1> QED
    BY <1>3, <1>4, <1>6, <1>7, <1>8 DEF Enter

\* Indices of a buffer survive the marking of records as ready.
LEMMA MarkReady ==
    ASSUME events \in Seq(Event), NEW s \in Servers,
           events' = [i \in DOMAIN events |->
                        IF events[i].from = s THEN [events[i] EXCEPT !.ready = TRUE] ELSE events[i]]
    PROVE  /\ events' \in Seq(Event) /\ Len(events') = Len(events)
           /\ DOMAIN events' = DOMAIN events
           /\ \A i \in DOMAIN events : ReportOf(events'[i]) = ReportOf(events[i])
<1>1. DOMAIN events = 1..Len(events) /\ Len(events) \in Nat
    OBVIOUS
<1>2. \A i \in 1..Len(events) : events[i] \in Event
    OBVIOUS
<1>3. \A i \in 1..Len(events) : events'[i] \in Event /\ ReportOf(events'[i]) = ReportOf(events[i])
    BY <1>1, <1>2 DEF Event, ReportOf
<1>4. events' \in [1..Len(events) -> Event]
    BY <1>1, <1>3
<1>5. events' \in Seq(Event)
    BY <1>1, <1>4
<1>6. Len(events') = Len(events)
    BY <1>1, <1>4
<1> QED
    BY <1>1, <1>3, <1>4, <1>5, <1>6

\* The rest of the probe's part of a call.
LEMMA SubmitInvariant ==
    ASSUME ProbeInv, NEW s \in Servers, Submit(s)
    PROVE  ProbeInv'
<1>1. /\ ProbeTypeOK /\ ServerInv(s) /\ pc[s] = "filling"
      /\ pc' = [pc EXCEPT ![s] = "body"] /\ wasPos' = [wasPos EXCEPT ![s] = "no"]
      /\ UNCHANGED <<server, attached, story>>
    BY DEF Submit, ProbeInv, ServerInv, OneEventPerDepletion, MissedIsExplained
<1>2. events' \in Seq(Event) /\ Len(events') = Len(events)
    BY <1>1, MarkReady DEF Submit, ProbeTypeOK
<1>3. ProbeTypeOK'
    BY <1>1, <1>2 DEF ProbeTypeOK
<1>4. attached
    BY <1>1 DEF ServerInv, DetachedInv
<1>5. ServerInv(s)'
    BY <1>1, <1>4
       DEF ServerInv, UnusedInv, DetachedInv, FillingInv, ArmedInv, StoryInv, Exhausted,
           ProbeTypeOK
<1> QED
    BY <1>1, <1>3, <1>4, <1>5, OneServer

\* The kernel's part of a call.
LEMMA BodyInvariant ==
    ASSUME ProbeInv, NEW s \in Servers, Body(s)
    PROVE  ProbeInv'
<1>1. /\ ProbeTypeOK /\ ServerInv(s) /\ (~attached => events = <<>>)
      /\ pc[s] = "body" /\ pc' = [pc EXCEPT ![s] = "out"]
      /\ UNCHANGED <<attached, wasPos, events>>
    BY DEF Body, ProbeInv, ServerInv, OneEventPerDepletion, MissedIsExplained
<1>2. server[s] \in Server
    BY <1>1 DEF ProbeTypeOK
<1>3. server[s].group # NoServer
    BY <1>1 DEF ServerInv, UnusedInv
<1>4. MapFull' = MapFull
    BY <1>1 DEF MapFull
<1>5. CASE UNCHANGED <<server, story>>
  <2>1. ProbeTypeOK'
      BY <1>1, <1>5 DEF ProbeTypeOK
  <2>2. ServerInv(s)'
      BY <1>1, <1>3, <1>4, <1>5
         DEF ServerInv, UnusedInv, DetachedInv, FillingInv, ArmedInv, StoryInv, Exhausted,
             ProbeTypeOK
  <2> QED
      BY <1>1, <1>5, <2>1, <2>2, OneServer
<1>6. ASSUME server[s].left, ~server[s].throttled,
             server' = [server EXCEPT ![s].left = FALSE, ![s].throttled = TRUE],
             story' = [story EXCEPT ![s] = IF attached THEN "owed" ELSE "none"]
      PROVE  ProbeInv'
  <2>1. /\ server'[s] \in Server /\ server'[s].group = server[s].group
        /\ ~server'[s].left /\ server'[s].throttled
        /\ \A r \in Servers : r # s => server'[r] = server[r]
      BY <1>1, <1>2, <1>6 DEF ProbeTypeOK, Server
  <2>2. server' \in [Servers -> Server]
      BY <1>1, <1>2, <1>6, <2>1 DEF ProbeTypeOK, Server
  <2>3. ProbeTypeOK'
      BY <1>1, <1>6, <2>2 DEF ProbeTypeOK
  <2>4. story'[s] = IF attached THEN "owed" ELSE "none"
      BY <1>1, <1>6 DEF ProbeTypeOK
  <2>5. server[s].group \in Groups => wasPos[s] # "no"
      BY <1>1, <1>6 DEF ServerInv, ArmedInv
  <2>6. ServerInv(s)'
      BY <1>1, <1>3, <2>1, <2>4, <2>5
         DEF ServerInv, UnusedInv, DetachedInv, FillingInv, ArmedInv, StoryInv, Exhausted,
             ProbeTypeOK
  <2>7. \A r \in Servers : r # s => pc'[r] = pc[r] /\ wasPos'[r] = wasPos[r] /\ story'[r] = story[r]
      BY <1>1, <1>6 DEF ProbeTypeOK
  <2> QED
      BY <1>1, <2>1, <2>3, <2>6, <2>7, OneServer
<1>7. ASSUME server[s].left, ~server[s].throttled,
             server' = [server EXCEPT ![s].throttled = TRUE], UNCHANGED story
      PROVE  ProbeInv'
  <2>1. /\ server'[s] \in Server /\ server'[s].group = server[s].group /\ server'[s].left
        /\ \A r \in Servers : r # s => server'[r] = server[r]
      BY <1>1, <1>2, <1>7 DEF ProbeTypeOK, Server
  <2>2. server' \in [Servers -> Server]
      BY <1>1, <1>2, <1>7, <2>1 DEF ProbeTypeOK, Server
  <2>3. ProbeTypeOK'
      BY <1>1, <1>7, <2>2 DEF ProbeTypeOK
  <2>4. story[s] = "none"
      BY <1>1, <1>7 DEF ServerInv, StoryInv, Exhausted
  <2>5. ServerInv(s)'
      BY <1>1, <1>3, <1>7, <2>1, <2>4
         DEF ServerInv, UnusedInv, DetachedInv, FillingInv, ArmedInv, StoryInv, Exhausted,
             ProbeTypeOK
  <2>6. \A r \in Servers : r # s => pc'[r] = pc[r] /\ wasPos'[r] = wasPos[r] /\ story'[r] = story[r]
      BY <1>1, <1>7 DEF ProbeTypeOK
  <2> QED
      BY <1>1, <2>1, <2>3, <2>5, <2>6, OneServer
<1> QED
    BY <1>5, <1>6, <1>7 DEF Body

\* Servers that are created, replenished and removed.
LEMMA ServerChangeInvariant ==
    ASSUME ProbeInv, NEW s \in Servers,
           \/ Replenish(s)
           \/ Destroy(s)
           \/ \E g \in Groups \cup {NoGroup} : Create(s, g)
    PROVE  ProbeInv'
<1>1. /\ ProbeTypeOK /\ ServerInv(s) /\ (~attached => events = <<>>)
      /\ UNCHANGED <<pc, attached, wasPos, events>>
    BY DEF Replenish, Destroy, Create, ProbeInv, ServerInv, OneEventPerDepletion,
           MissedIsExplained
<1>2. server[s] \in Server
    BY <1>1 DEF ProbeTypeOK
<1>3. Unused \in Server
    BY DEF Unused, Server
<1>4. /\ server'[s] \in Server /\ server' \in [Servers -> Server]
      /\ story'[s] = "none" /\ story' \in [Servers -> {"none", "owed", "sent", "lost", "missed",
                                                      "twice", "unfounded"}]
      /\ pc[s] = "out" /\ ~(~server'[s].left /\ server'[s].throttled)
      /\ server'[s].group = NoServer => server'[s] = Unused
      /\ \A r \in Servers : r # s => server'[r] = server[r] /\ story'[r] = story[r]
  <2>1. CASE Replenish(s)
    <3>1. [server[s] EXCEPT !.left = TRUE, !.throttled = FALSE] \in Server
        BY <1>2 DEF Server
    <3>2. server'[s] = [server[s] EXCEPT !.left = TRUE, !.throttled = FALSE]
        BY <1>1, <2>1 DEF Replenish, ProbeTypeOK
    <3>3. server'[s].left /\ server'[s].group = server[s].group
        BY <1>2, <3>2 DEF Server
    <3> QED
        BY <1>1, <2>1, <3>1, <3>2, <3>3 DEF Replenish, Over, ProbeTypeOK
  <2>2. CASE Destroy(s)
      BY <1>1, <1>3, <2>2 DEF Destroy, Over, ProbeTypeOK, Unused
  <2>3. CASE \E g \in Groups \cup {NoGroup} : Create(s, g)
    <3> PICK g \in Groups \cup {NoGroup} : Create(s, g)
        BY <2>3
    <3>1. server[s] = Unused /\ pc[s] = "out" /\ story[s] = "none" /\ UNCHANGED story
        BY <1>1 DEF Create, ServerInv, UnusedInv
    <3>2. [Unused EXCEPT !.group = g] \in Server
        BY DEF Unused, Server
    <3>3. server'[s] = [Unused EXCEPT !.group = g]
        BY <1>1, <3>1 DEF Create, ProbeTypeOK
    <3>4. server'[s].group # NoServer /\ ~server'[s].throttled
        BY <3>3, ProbeAssumption DEF Unused
    <3> QED
        BY <1>1, <3>1, <3>2, <3>3, <3>4 DEF Create, ProbeTypeOK
  <2> QED
      BY <2>1, <2>2, <2>3
<1>5. ProbeTypeOK'
    BY <1>1, <1>4 DEF ProbeTypeOK
<1>6. ServerInv(s)'
    BY <1>1, <1>4
       DEF ServerInv, UnusedInv, DetachedInv, FillingInv, ArmedInv, StoryInv, Exhausted,
           ProbeTypeOK
<1> QED
    BY <1>1, <1>4, <1>5, <1>6, OneServer

\* The probe is attached.
LEMMA AttachInvariant ==
    ASSUME ProbeInv, Attach
    PROVE  ProbeInv'
<1>1. /\ ProbeTypeOK /\ ~attached /\ attached' = TRUE /\ events = <<>>
      /\ UNCHANGED <<server, pc, wasPos, events>>
    BY DEF Attach, ProbeInv
<1>2. ASSUME NEW s \in Servers
      PROVE  ServerInv(s)'
  <2>1. ServerInv(s)
      BY DEF ProbeInv, ServerInv, OneEventPerDepletion, MissedIsExplained
  <2>2. wasPos[s] = "none" /\ pc[s] # "filling" /\ server[s] \in Server
      BY <1>1, <2>1 DEF ServerInv, DetachedInv, ProbeTypeOK
  <2>3. story'[s] = IF server[s].group \in Groups /\ Exhausted(s) THEN "owed" ELSE "none"
      BY DEF Attach
  <2> QED
      BY <1>1, <2>1, <2>2, <2>3, ProbeAssumption
         DEF ServerInv, UnusedInv, DetachedInv, FillingInv, ArmedInv, StoryInv, Exhausted, Unused
<1>3. ProbeTypeOK'
    BY <1>1 DEF Attach, ProbeTypeOK
<1> QED
    BY <1>1, <1>2, <1>3 DEF ProbeInv, ServerInv, OneEventPerDepletion, MissedIsExplained

\* The probe is detached and its maps are freed.
LEMMA DetachInvariant ==
    ASSUME ProbeInv, Detach
    PROVE  ProbeInv'
<1>1. /\ ProbeTypeOK /\ attached' = FALSE /\ events' = <<>> /\ server' = server
      /\ wasPos' = [s \in Servers |-> "none"] /\ story' = [s \in Servers |-> "none"]
      /\ pc' = [s \in Servers |-> IF pc[s] = "filling" THEN "body" ELSE pc[s]]
    BY DEF Detach, ProbeInv
<1>2. ASSUME NEW s \in Servers
      PROVE  ServerInv(s)'
  <2>1. ServerInv(s)
      BY DEF ProbeInv, ServerInv, OneEventPerDepletion, MissedIsExplained
  <2>2. /\ wasPos'[s] = "none" /\ story'[s] = "none"
        /\ pc'[s] = IF pc[s] = "filling" THEN "body" ELSE pc[s]
      BY <1>1
  <2> QED
      BY <1>1, <2>1, <2>2
         DEF ServerInv, UnusedInv, DetachedInv, FillingInv, ArmedInv, StoryInv, Exhausted
<1>3. events' \in Seq(Event) /\ Len(events') <= RingSize
    BY <1>1, ProbeAssumption
<1>4. pc' \in [Servers -> {"out", "filling", "body"}]
    BY <1>1 DEF ProbeTypeOK
<1>5. ProbeTypeOK'
    BY <1>1, <1>3, <1>4 DEF ProbeTypeOK
<1> QED
    BY <1>1, <1>2, <1>5 DEF ProbeInv, ServerInv, OneEventPerDepletion, MissedIsExplained

\* What the reader takes leaves the rest of the buffer.
LEMMA TakeReadyBuffer ==
    ASSUME events \in Seq(Event), Len(events) <= RingSize, NEW n \in 1..Len(events),
           events' = SubSeq(events, n + 1, Len(events))
    PROVE  /\ events' \in Seq(Event) /\ Len(events') = Len(events) - n
           /\ Len(events') <= RingSize
           /\ \A i \in 1..Len(events') : events'[i] = events[i + n] /\ i + n \in 1..Len(events)
<1>1. Len(events) \in Nat /\ n \in Nat /\ n >= 1 /\ n <= Len(events) /\ RingSize \in Nat
    BY ProbeAssumption
<1>2. /\ SubSeq(events, n + 1, Len(events)) \in Seq(Event)
      /\ Len(SubSeq(events, n + 1, Len(events))) = Len(events) - n
      /\ \A i \in 1..(Len(events) - n) :
            SubSeq(events, n + 1, Len(events))[i] = events[i + n]
    BY <1>1
<1> QED
    BY <1>1, <1>2

\* The reader takes records.
LEMMA TakeReadyInvariant ==
    ASSUME ProbeInv, NEW n, TakeReady(n)
    PROVE  ProbeInv'
<1>1. /\ ProbeTypeOK /\ n \in 1..Len(events)
      /\ events' = SubSeq(events, n + 1, Len(events))
      /\ UNCHANGED <<server, pc, attached, wasPos, story>>
    BY DEF TakeReady, ProbeInv
<1>2. events' \in Seq(Event) /\ Len(events') <= RingSize
    BY <1>1, TakeReadyBuffer DEF ProbeTypeOK
<1>3. ProbeTypeOK'
    BY <1>1, <1>2 DEF ProbeTypeOK
<1>4. attached
  <2>1. ~attached => events = <<>>
      BY DEF ProbeInv
  <2>2. events = <<>> => Len(events) = 0
      OBVIOUS
  <2> QED
      BY <1>1, <2>1, <2>2
<1>5. ASSUME NEW s \in Servers
      PROVE  ServerInv(s)'
  <2>1. ServerInv(s)
      BY DEF ProbeInv, ServerInv, OneEventPerDepletion, MissedIsExplained
  <2> QED
      BY <1>1, <2>1
         DEF ServerInv, UnusedInv, DetachedInv, FillingInv, ArmedInv, StoryInv, Exhausted, MapFull
<1> QED
    BY <1>1, <1>3, <1>4, <1>5 DEF ProbeInv, ServerInv, OneEventPerDepletion, MissedIsExplained

\* The state before the first call.
LEMMA InitInvariant == ProbeInit => ProbeInv
<1> SUFFICES ASSUME ProbeInit
             PROVE  ProbeInv
    OBVIOUS
<1>1. Unused \in Server
    BY DEF Unused, Server
<1>2. events \in Seq(Event) /\ Len(events) <= RingSize
    BY ProbeAssumption DEF ProbeInit
<1>3. ProbeTypeOK
    BY <1>1, <1>2 DEF ProbeInit, ProbeTypeOK
<1>4. \A s \in Servers : ServerInv(s)
    BY ProbeAssumption
       DEF ProbeInit, ServerInv, UnusedInv, DetachedInv, FillingInv, ArmedInv, StoryInv, Unused
<1> QED
    BY <1>3, <1>4 DEF ProbeInit, ProbeInv, ServerInv, OneEventPerDepletion, MissedIsExplained

\* Every step of the probe and of the kernel.
LEMMA StepInvariant == ProbeInv /\ [ProbeNext]_probeVars => ProbeInv'
<1> SUFFICES ASSUME ProbeInv, [ProbeNext]_probeVars
             PROVE  ProbeInv'
    OBVIOUS
<1>1. CASE UNCHANGED probeVars
    BY <1>1
       DEF probeVars, ProbeInv, ProbeTypeOK, UnusedInv, DetachedInv, FillingInv, ArmedInv,
           StoryInv, Exhausted, MapFull, OneEventPerDepletion, MissedIsExplained
<1>2. CASE KernelNext
    BY <1>2, EnterInvariant, SubmitInvariant, BodyInvariant, ServerChangeInvariant DEF KernelNext
<1>3. CASE Attach
    BY <1>3, AttachInvariant
<1>4. CASE Detach
    BY <1>4, DetachInvariant
<1>5. ASSUME NEW n \in 1..RingSize, TakeReady(n)
      PROVE  ProbeInv'
    BY <1>5, TakeReadyInvariant
<1> QED
    BY <1>1, <1>2, <1>3, <1>4, <1>5 DEF ProbeNext

\* The program attaches, reads and detaches the probe, and does nothing else to it.
LEMMA ProgramStep == ProbeInv /\ [Next]_vars => [ProbeNext]_probeVars
<1> SUFFICES ASSUME ProbeInv, [Next]_vars
             PROVE  [ProbeNext]_probeVars
    OBVIOUS
<1>1. ASSUME NEW n \in 1..Len(events), TakeReady(n)
      PROVE  [ProbeNext]_probeVars
  <2>1. Len(events) \in Nat /\ Len(events) <= RingSize /\ RingSize \in Nat
      BY ProbeAssumption DEF ProbeInv, ProbeTypeOK
  <2> QED
      BY <1>1, <2>1 DEF ProbeNext
<1>2. CASE UNCHANGED vars
    BY <1>2 DEF vars
<1>3. CASE KernelNext
    BY <1>3 DEF ProbeNext
<1>4. CASE Main
  <2>1. CASE AttachProbe
      BY <2>1 DEF AttachProbe, ProbeNext
  <2>2. CASE PollEvents
      BY <1>1, <2>2 DEF PollEvents
  <2>3. CASE Cleanup
      BY <2>3 DEF Cleanup, ProbeNext
  <2> QED
      BY <1>4, <2>1, <2>2, <2>3 DEF Main, Open, Load, NewRing, Check, PollTimeout, PollError
<1>5. CASE Signal \/ Rerun
    BY <1>5 DEF Signal, Rerun
<1> QED
    BY <1>2, <1>3, <1>4, <1>5 DEF Next

\* The inductive invariant holds in every reachable state, however often the program fails,
\* stops and is started again.
THEOREM ProbeCorrect == Spec => []ProbeInv
<1>1. Init => ProbeInv
    BY InitInvariant DEF Init
<1>2. ProbeInv /\ [Next]_vars => ProbeInv'
    BY ProgramStep, StepInvariant
<1> QED
    BY <1>1, <1>2, PTL DEF Spec

\* The program is one way to use the probe.
THEOREM UsesProbe == Spec => ProbeSpec
<1>1. Init => ProbeInit
    BY DEF Init
<1>2. ProbeInv /\ [Next]_vars => [ProbeNext]_probeVars
    BY ProgramStep
<1> QED
    BY <1>1, <1>2, ProbeCorrect, PTL DEF Spec, ProbeSpec

\* No depletion is reported twice, and nothing else is reported.
THEOREM NoDuplicates == Spec => []OneEventPerDepletion
<1>1. ProbeInv => OneEventPerDepletion
    BY DEF ProbeInv
<1> QED
    BY <1>1, ProbeCorrect, PTL

\* A depletion that is overlooked is one of a group with 50 ms, or there was no room in the map.
THEOREM MissesExplained == Spec => []MissedIsExplained
<1>1. ProbeInv => MissedIsExplained
    BY DEF ProbeInv
<1> QED
    BY <1>1, ProbeCorrect, PTL

\* Type correctness of the program with the probe.
THEOREM TypeCorrect == Spec => []TypeOK
<1>1. Init => TypeOK
    BY InitInvariant DEF Init, ProbeInv, TypeOK
<1>2. TypeOK /\ ProbeInv' /\ [Next]_vars => TypeOK'
  <2> SUFFICES ASSUME TypeOK, ProbeInv', [Next]_vars
               PROVE  TypeOK'
      OBVIOUS
  <2>1. ProbeTypeOK'
      BY DEF ProbeInv
  <2>2. step' \in {"open", "load", "attach", "ring", "check", "poll", "out", "done"}
      BY DEF TypeOK, Next, Main, Open, Load, AttachProbe, NewRing, Check, PollEvents, PollTimeout,
             PollError, Signal, Cleanup, Rerun, GoTo, vars
  <2>3. stop' \in BOOLEAN
      BY DEF TypeOK, Next, Main, Open, Load, AttachProbe, NewRing, Check, PollEvents, PollTimeout,
             PollError, Signal, Cleanup, Rerun, vars
  <2> QED
      BY <2>1, <2>2, <2>3 DEF TypeOK
<1> QED
    BY <1>1, <1>2, ProbeCorrect, PTL DEF Spec

--------------------------------------------------------------------------------
(***************************************************************************)
(* The feed is implemented.                                                *)
(***************************************************************************)

\* The feed's state as the refinement mapping defines it.
HitsNow == {h \in [server : Servers, group : Groups] :
               story[h.server] = "owed" /\ server[h.server].group = h.group}
QueueNow == [i \in DOMAIN events |-> ReportOf(events[i])]
Reports == [group : Groups, cgroup : Cgroups]

\* The hit of a server.
HitOf(s) == [server |-> s, group |-> server[s].group]

\* A server is waiting for its report.
Owing(s) == story[s] = "owed" /\ server[s].group \in Groups

\* Two sets of hits are equal if they have the same pairs.
LEMMA SameHits ==
    ASSUME NEW H, NEW K, H \subseteq [server : Servers, group : Groups],
           K \subseteq [server : Servers, group : Groups],
           \A s \in Servers, g \in Groups :
               [server |-> s, group |-> g] \in H <=> [server |-> s, group |-> g] \in K
    PROVE  H = K
<1>1. \A h \in [server : Servers, group : Groups] :
         h.server \in Servers /\ h.group \in Groups /\ h = [server |-> h.server, group |-> h.group]
    OBVIOUS
<1>2. \A h \in [server : Servers, group : Groups] : h \in H <=> h \in K
  <2> TAKE h \in [server : Servers, group : Groups]
  <2>1. h.server \in Servers /\ h.group \in Groups /\ h = [server |-> h.server, group |-> h.group]
      BY <1>1
  <2> QED
      BY <2>1
<1> QED
    BY <1>2

\* The members of the mapped set, in both states of a step.
LEMMA HitsMembers ==
    \A s \in Servers, g \in Groups :
       /\ [server |-> s, group |-> g] \in HitsNow <=> story[s] = "owed" /\ server[s].group = g
       /\ [server |-> s, group |-> g] \in HitsNow' <=> story'[s] = "owed" /\ server'[s].group = g
<1> TAKE s \in Servers, g \in Groups
<1>1. [server |-> s, group |-> g] \in [server : Servers, group : Groups]
    OBVIOUS
<1> QED
    BY <1>1 DEF HitsNow

\* A step of one server leaves the hits of the others alone.
LEMMA HitsOfOne ==
    ASSUME NEW s \in Servers,
           \A r \in Servers : r # s => server'[r] = server[r] /\ story'[r] = story[r],
           server'[s].group = server[s].group \/ (~Owing(s) /\ ~Owing(s)')
                                              \/ (Owing(s) /\ ~Owing(s)')
    PROVE  /\ (Owing(s)' <=> Owing(s)) => HitsNow' = HitsNow
           /\ Owing(s) /\ ~Owing(s)' => HitOf(s) \in HitsNow /\ HitsNow' = HitsNow \ {HitOf(s)}
           /\ ~Owing(s) /\ Owing(s)' =>
                 HitOf(s) \in [server : Servers, group : Groups] /\ HitsNow' = HitsNow \cup {HitOf(s)}
<1>1. HitsNow \subseteq [server : Servers, group : Groups]
      /\ HitsNow' \subseteq [server : Servers, group : Groups]
    BY DEF HitsNow
<1>2. ASSUME NEW r \in Servers, NEW g \in Groups
      PROVE  /\ [server |-> r, group |-> g] = HitOf(s) <=> r = s /\ server[s].group = g
             /\ [server |-> r, group |-> g] \in [server : Servers, group : Groups]
    BY DEF HitOf
<1>3. CASE Owing(s)' <=> Owing(s)
  <2>1. \A r \in Servers, g \in Groups :
           [server |-> r, group |-> g] \in HitsNow' <=> [server |-> r, group |-> g] \in HitsNow
      BY <1>3, HitsMembers DEF Owing
  <2>2. HitsNow' = HitsNow
      BY <1>1, <2>1, SameHits
  <2> QED
      BY <1>3, <2>2
<1>4. CASE Owing(s) /\ ~Owing(s)'
  <2>1. HitOf(s) \in HitsNow
      BY <1>4, HitsMembers DEF Owing, HitOf
  <2>2. ASSUME NEW r \in Servers, NEW g \in Groups
        PROVE  [server |-> r, group |-> g] \in HitsNow'
                  <=> [server |-> r, group |-> g] \in HitsNow \ {HitOf(s)}
      BY <1>2, <1>4, HitsMembers DEF Owing
  <2>3. HitsNow \ {HitOf(s)} \subseteq [server : Servers, group : Groups]
      BY <1>1
  <2>4. HitsNow' = HitsNow \ {HitOf(s)}
      BY <1>1, <2>2, <2>3, SameHits
  <2> QED
      BY <1>4, <2>1, <2>4
<1>5. CASE ~Owing(s) /\ Owing(s)'
  <2>1. server'[s].group = server[s].group
      BY <1>5
  <2>2. HitOf(s) \in [server : Servers, group : Groups]
      BY <1>5, <2>1 DEF Owing, HitOf
  <2>3. ASSUME NEW r \in Servers, NEW g \in Groups
        PROVE  [server |-> r, group |-> g] \in HitsNow'
                  <=> [server |-> r, group |-> g] \in HitsNow \cup {HitOf(s)}
      BY <1>2, <1>5, <2>1, HitsMembers DEF Owing
  <2>4. HitsNow \cup {HitOf(s)} \subseteq [server : Servers, group : Groups]
      BY <1>1, <2>2
  <2>5. HitsNow' = HitsNow \cup {HitOf(s)}
      BY <1>1, <2>3, <2>4, SameHits
  <2> QED
      BY <1>5, <2>2, <2>5
<1> QED
    BY <1>3, <1>4, <1>5

\* A function on the first m numbers is a sequence of length m.
LEMMA FunctionIsSeq ==
    ASSUME NEW S, NEW m \in Nat, NEW f \in [1..m -> S]
    PROVE  f \in Seq(S) /\ Len(f) = m
OBVIOUS

\* What the feed's queue is and how long it is.
LEMMA QueueType ==
    ASSUME events \in Seq(Event)
    PROVE  QueueNow \in Seq(Reports) /\ Len(QueueNow) = Len(events)
           /\ \A i \in 1..Len(events) : QueueNow[i] = ReportOf(events[i])
<1>1. DOMAIN events = 1..Len(events) /\ Len(events) \in Nat
    OBVIOUS
<1>2. \A i \in 1..Len(events) : events[i] \in Event
    OBVIOUS
<1>3. \A i \in 1..Len(events) : ReportOf(events[i]) \in Reports
    BY <1>2 DEF Event, ReportOf, Reports
<1>4. QueueNow \in [1..Len(events) -> Reports]
    BY <1>1, <1>3 DEF QueueNow
<1>5. QueueNow \in Seq(Reports) /\ Len(QueueNow) = Len(events)
    BY <1>1, <1>4
<1> QED
    BY <1>1, <1>5 DEF QueueNow

\* The queue does not change while the buffer's records keep what they report.
LEMMA QueueSame ==
    ASSUME DOMAIN events' = DOMAIN events,
           \A i \in DOMAIN events : ReportOf(events'[i]) = ReportOf(events[i])
    PROVE  QueueNow' = QueueNow
BY DEF QueueNow

\* A reserved record is a report at the end of the queue.
LEMMA QueueAppend ==
    ASSUME events \in Seq(Event), NEW e \in Event, events' = Append(events, e)
    PROVE  QueueNow' = Append(QueueNow, ReportOf(e))
<1>1. events' \in Seq(Event) /\ Len(events) \in Nat /\ Len(events') = Len(events) + 1
    OBVIOUS
<1>2. /\ QueueNow \in Seq(Reports) /\ Len(QueueNow) = Len(events)
      /\ \A i \in 1..Len(events) : QueueNow[i] = ReportOf(events[i])
    BY QueueType
<1>3. DOMAIN events' = 1..(Len(events) + 1)
    BY <1>1
<1>4. QueueNow' = [i \in 1..(Len(events) + 1) |-> ReportOf(events'[i])]
    BY <1>3 DEF QueueNow
<1>5. ReportOf(e) \in Reports
    BY DEF Event, ReportOf, Reports
<1>6. QueueNow' \in Seq(Reports) /\ Len(QueueNow') = Len(events) + 1
  <2>1. \A i \in 1..(Len(events) + 1) : events'[i] \in Event
      BY <1>1
  <2>2. \A i \in 1..(Len(events) + 1) : ReportOf(events'[i]) \in Reports
      BY <2>1 DEF Event, ReportOf, Reports
  <2>3. QueueNow' \in [1..(Len(events) + 1) -> Reports]
      BY <1>4, <2>2
  <2> QED
      BY <1>1, <2>3
<1>7. /\ Append(QueueNow, ReportOf(e)) \in Seq(Reports)
      /\ Len(Append(QueueNow, ReportOf(e))) = Len(events) + 1
    BY <1>1, <1>2, <1>5
<1>8. ASSUME NEW i \in 1..(Len(events) + 1)
      PROVE  QueueNow'[i] = Append(QueueNow, ReportOf(e))[i]
  <2>1. QueueNow'[i] = ReportOf(events'[i])
      BY <1>4
  <2>2. CASE i = Len(events) + 1
    <3>1. events'[i] = e
        BY <2>2
    <3>2. Append(QueueNow, ReportOf(e))[i] = ReportOf(e)
        BY <1>2, <2>2
    <3> QED
        BY <2>1, <3>1, <3>2
  <2>3. CASE i \in 1..Len(events)
    <3>1. events'[i] = events[i]
        BY <1>1, <2>3
    <3>2. Append(QueueNow, ReportOf(e))[i] = QueueNow[i]
        BY <1>1, <1>2, <2>3
    <3> QED
        BY <1>2, <2>1, <2>3, <3>1, <3>2
  <2>4. i = Len(events) + 1 \/ i \in 1..Len(events)
      BY <1>1
  <2> QED
      BY <2>2, <2>3, <2>4
<1> QED
    BY <1>6, <1>7, <1>8, SeqEqual

\* Records that are taken are reports that are taken.
LEMMA QueueTake ==
    ASSUME events \in Seq(Event), Len(events) <= RingSize, NEW n \in 1..Len(events),
           events' = SubSeq(events, n + 1, Len(events))
    PROVE  QueueNow' = SubSeq(QueueNow, n + 1, Len(QueueNow)) /\ n <= Len(QueueNow)
<1>1. /\ events' \in Seq(Event) /\ Len(events') = Len(events) - n /\ Len(events) \in Nat
      /\ n \in Nat /\ n >= 1 /\ n <= Len(events)
      /\ \A i \in 1..Len(events') : events'[i] = events[i + n] /\ i + n \in 1..Len(events)
    BY TakeReadyBuffer
<1>2. /\ QueueNow \in Seq(Reports) /\ Len(QueueNow) = Len(events)
      /\ \A i \in 1..Len(events) : QueueNow[i] = ReportOf(events[i])
    BY QueueType
<1>3. DOMAIN events' = 1..(Len(events) - n)
    BY <1>1
<1>4. QueueNow' = [i \in 1..(Len(events) - n) |-> ReportOf(events'[i])]
    BY <1>3 DEF QueueNow
<1>5. QueueNow' \in Seq(Reports) /\ Len(QueueNow') = Len(events) - n
  <2>1. \A i \in 1..(Len(events) - n) : events'[i] \in Event
      BY <1>1
  <2>2. \A i \in 1..(Len(events) - n) : ReportOf(events'[i]) \in Reports
      BY <2>1 DEF Event, ReportOf, Reports
  <2>3. QueueNow' \in [1..(Len(events) - n) -> Reports]
      BY <1>4, <2>2
  <2>4. Len(events) - n \in Nat
      BY <1>1
  <2> QED
      BY <2>3, <2>4, FunctionIsSeq
<1>6. /\ SubSeq(QueueNow, n + 1, Len(QueueNow)) \in Seq(Reports)
      /\ Len(SubSeq(QueueNow, n + 1, Len(QueueNow))) = Len(events) - n
      /\ \A i \in 1..(Len(events) - n) :
            SubSeq(QueueNow, n + 1, Len(QueueNow))[i] = QueueNow[i + n]
    BY <1>1, <1>2
<1>7. ASSUME NEW i \in 1..(Len(events) - n)
      PROVE  QueueNow'[i] = SubSeq(QueueNow, n + 1, Len(QueueNow))[i]
    BY <1>1, <1>2, <1>4, <1>6
<1> QED
    BY <1>1, <1>2, <1>5, <1>6, <1>7, SeqEqual

\* Servers are waiting for their reports before and after a step.
LEMMA FeedStep ==
    /\ HitsNow' = HitsNow /\ QueueNow' = QueueNow => UNCHANGED Feed!feedVars
    /\ \A h \in [server : Servers, group : Groups] :
          /\ HitsNow' = HitsNow \cup {h} /\ QueueNow' = QueueNow => Feed!FeedNext
          /\ /\ h \in HitsNow /\ Len(QueueNow) < RingSize
             /\ HitsNow' = HitsNow \ {h}
             /\ \E c \in Cgroups : QueueNow' = Append(QueueNow, [group |-> h.group, cgroup |-> c])
             => Feed!FeedNext
          /\ h \in HitsNow /\ HitsNow' = HitsNow \ {h} /\ QueueNow' = QueueNow => Feed!FeedNext
    /\ \A n \in 1..RingSize :
              /\ HitsNow' = HitsNow /\ n <= Len(QueueNow)
              /\ QueueNow' = SubSeq(QueueNow, n + 1, Len(QueueNow))
              => Feed!FeedNext
    /\ QueueNow = <<>> /\ HitsNow = {} /\ QueueNow' = QueueNow => Feed!FeedNext
    /\ HitsNow' = {} /\ QueueNow' = <<>> => Feed!FeedNext
<1>1. HitsNow' = HitsNow /\ QueueNow' = QueueNow => UNCHANGED Feed!feedVars
    BY DEF HitsNow, QueueNow, Feed!feedVars
<1>2. ASSUME NEW h \in [server : Servers, group : Groups]
      PROVE  /\ HitsNow' = HitsNow \cup {h} /\ QueueNow' = QueueNow => Feed!FeedNext
             /\ /\ h \in HitsNow /\ Len(QueueNow) < RingSize
                /\ HitsNow' = HitsNow \ {h}
                /\ \E c \in Cgroups : QueueNow' = Append(QueueNow, [group |-> h.group, cgroup |-> c])
                => Feed!FeedNext
             /\ h \in HitsNow /\ HitsNow' = HitsNow \ {h} /\ QueueNow' = QueueNow => Feed!FeedNext
    BY DEF HitsNow, QueueNow, Feed!Deplete, Feed!Report, Feed!Miss, Feed!Hit,
           Feed!FeedNext
<1>3. ASSUME NEW n \in 1..RingSize
      PROVE  /\ HitsNow' = HitsNow /\ n <= Len(QueueNow)
             /\ QueueNow' = SubSeq(QueueNow, n + 1, Len(QueueNow))
             => Feed!FeedNext
    BY DEF HitsNow, QueueNow, Feed!Take, Feed!FeedNext
<1>4. QueueNow = <<>> /\ HitsNow = {} /\ QueueNow' = QueueNow => Feed!FeedNext
  <2>1. HitsNow' \in SUBSET [server : Servers, group : Groups]
      BY DEF HitsNow
  <2> QED
      BY <2>1 DEF HitsNow, QueueNow, Feed!Begin, Feed!Hit, Feed!FeedNext
<1>5. HitsNow' = {} /\ QueueNow' = <<>> => Feed!FeedNext
    BY DEF HitsNow, QueueNow, Feed!End, Feed!FeedNext
<1> QED
    BY <1>1, <1>2, <1>3, <1>4, <1>5

\* The probe's part of a call reports the depletion, misses it, or changes nothing.
LEMMA EnterFeed ==
    ASSUME ProbeInv, NEW s \in Servers, Enter(s)
    PROVE  [Feed!FeedNext]_(Feed!feedVars)
<1>1. /\ ProbeTypeOK /\ ServerInv(s) /\ pc[s] = "out" /\ server[s].group # NoServer
      /\ UNCHANGED <<server, attached>>
    BY DEF Enter, ProbeInv, ServerInv, OneEventPerDepletion, MissedIsExplained
<1>2. server[s] \in Server
    BY <1>1 DEF ProbeTypeOK
<1>3. ASSUME UNCHANGED events, \A r \in Servers : r # s => story'[r] = story[r],
             story'[s] = "owed" => story[s] = "owed"
      PROVE  [Feed!FeedNext]_(Feed!feedVars)
  <2>1. QueueNow' = QueueNow
      BY <1>3 DEF QueueNow
  <2>2. CASE Owing(s)' <=> Owing(s)
    <3>1. HitsNow' = HitsNow
        BY <1>1, <1>3, <2>2, HitsOfOne
    <3> QED
        BY <2>1, <3>1, FeedStep
  <2>3. CASE Owing(s) /\ ~Owing(s)'
    <3>1. HitOf(s) \in HitsNow /\ HitsNow' = HitsNow \ {HitOf(s)}
        BY <1>1, <1>3, <2>3, HitsOfOne
    <3>2. HitOf(s) \in [server : Servers, group : Groups]
        BY <2>3 DEF Owing, HitOf
    <3> QED
        BY <2>1, <3>1, <3>2, FeedStep
  <2>4. ~(~Owing(s) /\ Owing(s)')
      BY <1>1, <1>3 DEF Owing
  <2> QED
      BY <2>2, <2>3, <2>4
<1>4. CASE Ignore(s)
    BY <1>3, <1>4 DEF Ignore
<1>5. CASE Untracked(s)
    BY <1>1, <1>3, <1>5 DEF Untracked, ProbeTypeOK
<1>6. CASE Lose(s)
    BY <1>1, <1>3, <1>6 DEF Lose, ProbeTypeOK
<1>7. CASE Observe(s)
    BY <1>1, <1>3, <1>7 DEF Observe, ProbeTypeOK
<1>8. CASE attached /\ server[s].group # NoGroup /\ ~(wasPos[s] = "none" /\ MapFull) /\ Reserve(s)
  <2>1. server[s].group \in Groups
      BY <1>1, <1>2, <1>8 DEF Server
  <2>2. PICK current \in Cgroups :
           /\ FirstHit(s) /\ Len(events) < RingSize
           /\ events' = Append(events, Record(s, current))
      BY <1>8 DEF Reserve
  <2>3. story[s] = "owed"
      BY <1>1, <1>8, <2>1, <2>2 DEF FirstHit, Was, ServerInv, StoryInv, ProbeTypeOK
  <2>4. story' = [story EXCEPT ![s] = "sent"]
      BY <1>8, <2>3 DEF Reserve, Sent
  <2>5. story'[s] = "sent" /\ \A r \in Servers : r # s => story'[r] = story[r]
      BY <1>1, <2>4 DEF ProbeTypeOK
  <2>6. Owing(s) /\ ~Owing(s)'
      BY <2>1, <2>3, <2>5 DEF Owing
  <2>7. HitOf(s) \in HitsNow /\ HitsNow' = HitsNow \ {HitOf(s)}
      BY <1>1, <2>5, <2>6, HitsOfOne
  <2>8. HitOf(s) \in [server : Servers, group : Groups] /\ HitOf(s).group = server[s].group
      BY <2>1 DEF HitOf
  <2>9. Record(s, current) \in Event
      BY <2>1 DEF Event, Record
  <2>10. events \in Seq(Event)
      BY <1>1 DEF ProbeTypeOK
  <2>11. QueueNow' = Append(QueueNow, [group |-> HitOf(s).group, cgroup |-> current])
    <3> DEFINE e == Record(s, current)
    <3>1. ReportOf(e) = [group |-> HitOf(s).group, cgroup |-> current]
        BY <2>8 DEF ReportOf, Record
    <3>2. e \in Event /\ events' = Append(events, e)
        BY <2>2, <2>9
    <3> HIDE DEF e
    <3>3. QueueNow' = Append(QueueNow, ReportOf(e))
        BY <2>10, <3>2, QueueAppend
    <3> QED
        BY <3>1, <3>3
  <2>12. Len(QueueNow) < RingSize
      BY <2>2, <2>10, QueueType
  <2> QED
      BY <2>7, <2>8, <2>11, <2>12, FeedStep
<1> QED
    BY <1>4, <1>5, <1>6, <1>7, <1>8 DEF Enter

\* A server is depleted, or goes on, or its depletion is over.
LEMMA KernelFeed ==
    ASSUME ProbeInv, NEW s \in Servers,
           \/ Body(s)
           \/ Replenish(s)
           \/ Destroy(s)
           \/ \E g \in Groups \cup {NoGroup} : Create(s, g)
    PROVE  [Feed!FeedNext]_(Feed!feedVars)
<1>1. /\ ProbeTypeOK /\ ServerInv(s) /\ UNCHANGED events
      /\ server[s] \in Server
    BY DEF Body, Replenish, Destroy, Create, ProbeInv, ServerInv, OneEventPerDepletion,
           MissedIsExplained, ProbeTypeOK
<1>2. /\ \A r \in Servers : r # s => server'[r] = server[r] /\ story'[r] = story[r]
      /\ \/ server'[s].group = server[s].group
         \/ ~Owing(s)'
    <2>1. CASE Body(s)
        BY <1>1, <2>1 DEF Body, ProbeTypeOK, Server
    <2>2. CASE Replenish(s)
        BY <1>1, <2>2 DEF Replenish, Over, ProbeTypeOK, Server
    <2>3. CASE Destroy(s)
        BY <1>1, <2>3 DEF Destroy, Over, ProbeTypeOK, Owing
    <2>4. CASE \E g \in Groups \cup {NoGroup} : Create(s, g)
      <3>1. story[s] = "none"
          BY <1>1, <2>4 DEF Create, ServerInv, UnusedInv
      <3> QED
          BY <1>1, <2>4, <3>1 DEF Create, ProbeTypeOK, Owing
    <2> QED
        BY <2>1, <2>2, <2>3, <2>4
<1>3. QueueNow' = QueueNow
    BY <1>1 DEF QueueNow
<1>4. server'[s].group = server[s].group \/ (~Owing(s) /\ ~Owing(s)') \/ (Owing(s) /\ ~Owing(s)')
    BY <1>2
<1>5. CASE Owing(s)' <=> Owing(s)
  <2>1. HitsNow' = HitsNow
      BY <1>2, <1>4, <1>5, HitsOfOne
  <2> QED
      BY <1>3, <2>1, FeedStep
<1>6. CASE Owing(s) /\ ~Owing(s)'
  <2>1. HitOf(s) \in HitsNow /\ HitsNow' = HitsNow \ {HitOf(s)}
      BY <1>2, <1>4, <1>6, HitsOfOne
  <2>2. HitOf(s) \in [server : Servers, group : Groups]
      BY <1>6 DEF Owing, HitOf
  <2> QED
      BY <1>3, <2>1, <2>2, FeedStep
<1>7. CASE ~Owing(s) /\ Owing(s)'
  <2>1. /\ HitOf(s) \in [server : Servers, group : Groups]
        /\ HitsNow' = HitsNow \cup {HitOf(s)}
      BY <1>2, <1>4, <1>7, HitsOfOne
  <2> QED
      BY <1>3, <2>1, FeedStep
<1> QED
    BY <1>5, <1>6, <1>7

\* Every step of the probe and of the kernel is a step of the feed, or leaves it unchanged.
LEMMA ProbeFeed == ProbeInv /\ [ProbeNext]_probeVars => [Feed!FeedNext]_(Feed!feedVars)
<1> SUFFICES ASSUME ProbeInv, [ProbeNext]_probeVars
             PROVE  [Feed!FeedNext]_(Feed!feedVars)
    OBVIOUS
<1>1. events \in Seq(Event) /\ Len(events) <= RingSize /\ RingSize \in Nat
    BY ProbeAssumption DEF ProbeInv, ProbeTypeOK
<1>2. CASE UNCHANGED probeVars
  <2>1. HitsNow' = HitsNow /\ QueueNow' = QueueNow
      BY <1>2 DEF probeVars, HitsNow, QueueNow
  <2> QED
      BY <2>1, FeedStep
<1>3. ASSUME NEW s \in Servers, Submit(s)
      PROVE  [Feed!FeedNext]_(Feed!feedVars)
  <2>1. HitsNow' = HitsNow
      BY <1>3 DEF Submit, HitsNow
  <2>2. /\ DOMAIN events' = DOMAIN events
        /\ \A i \in DOMAIN events : ReportOf(events'[i]) = ReportOf(events[i])
      BY <1>1, <1>3, MarkReady DEF Submit
  <2>3. QueueNow' = QueueNow
      BY <2>2, QueueSame
  <2> QED
      BY <2>1, <2>3, FeedStep
<1>4. CASE KernelNext
    BY <1>3, <1>4, EnterFeed, KernelFeed DEF KernelNext
<1>5. CASE Attach
  <2>1. events = <<>> /\ \A s \in Servers : story[s] = "none"
      BY <1>5 DEF Attach, ProbeInv, DetachedInv
  <2>2. HitsNow = {}
      BY <2>1 DEF HitsNow
  <2>3. QueueNow = <<>>
      BY <2>1 DEF QueueNow
  <2>4. QueueNow' = QueueNow
      BY <1>5 DEF Attach, QueueNow
  <2> QED
      BY <2>2, <2>3, <2>4, FeedStep
<1>6. CASE Detach
  <2>1. HitsNow' = {}
      BY <1>6 DEF Detach, HitsNow
  <2>2. QueueNow' = <<>>
      BY <1>6 DEF Detach, QueueNow
  <2> QED
      BY <2>1, <2>2, FeedStep
<1>7. ASSUME NEW n \in 1..RingSize, TakeReady(n)
      PROVE  [Feed!FeedNext]_(Feed!feedVars)
  <2>1. n \in 1..Len(events) /\ events' = SubSeq(events, n + 1, Len(events))
      BY <1>7 DEF TakeReady
  <2>2. QueueNow' = SubSeq(QueueNow, n + 1, Len(QueueNow)) /\ n <= Len(QueueNow)
      BY <1>1, <2>1, QueueTake
  <2>3. HitsNow' = HitsNow
      BY <1>7 DEF TakeReady, HitsNow
  <2> QED
      BY <2>2, <2>3, FeedStep
<1> QED
    BY <1>2, <1>4, <1>5, <1>6, <1>7 DEF ProbeNext

\* What the reader relies on, for the probe in any program that uses it as ProbeSpec allows
\* and in particular for this one.
THEOREM FeedImplemented == Spec => ImplementsFeed
<1>1. Init => Feed!FeedInit
  <2> SUFFICES ASSUME Init
               PROVE  Feed!FeedInit
      OBVIOUS
  <2>1. HitsNow = {}
      BY DEF Init, ProbeInit, HitsNow
  <2>2. QueueNow = <<>>
      BY DEF Init, ProbeInit, QueueNow
  <2> QED
      BY <2>1, <2>2 DEF HitsNow, QueueNow, Feed!FeedInit
<1>2. ProbeInv /\ [Next]_vars => [Feed!FeedNext]_(Feed!feedVars)
    BY ProgramStep, ProbeFeed
<1> QED
    BY <1>1, <1>2, ProbeCorrect, PTL DEF Spec, ImplementsFeed, Feed!FeedSpec
================================================================================
