------------------------------ MODULE OverrunProbe -----------------------------
(***************************************************************************)
(* The eBPF program src/ebpf/hcbs_overrun.bpf.c, which runs at the entry   *)
(* of the kernel's update_curr_dl_se(rq, dl_se, delta), and the kernel     *)
(* around it.  Each group of real-time tasks (cgroup) has a deadline       *)
(* server per CPU, with a runtime that is used up and replenished.  The    *)
(* probe sends an event when it finds a server exhausted for the first     *)
(* time since it saw runtime left.                                         *)
(*                                                                         *)
(* The probe reads the server as the previous call left it: a depletion is *)
(* seen by the call after the one that caused it, if there is one before   *)
(* the server is replenished.  Calls for one server are serialised by the  *)
(* lock of its run queue; calls for different servers run on different     *)
(* CPUs and share the map and the ring buffer.                             *)
(*                                                                         *)
(* A server is identified by its address, the key of the map.  When a      *)
(* group is removed its servers are freed, and a new server may get the    *)
(* same address: the map's entry is never deleted and passes to it.        *)
(***************************************************************************)
EXTENDS Naturals, Sequences, FiniteSets

CONSTANTS
    Servers,     \* addresses of struct sched_dl_entity
    Groups,      \* groups with a task group of their own
    Cgroups,     \* the cgroups that the current task of a CPU may be in
    FiftyMs,     \* those groups whose runtime is 50 ms, like that of the fair server
    NoGroup,     \* the group of a deadline task, or of a server without a task group
    NoServer,    \* the group of an address that is not in use
    MaxTracked,  \* max_entries of se_state: 8192 in the code
    RingSize     \* events that fit into the ring buffer: 16 MB in the code

ASSUME ProbeAssumption ==
    /\ IsFiniteSet(Servers)
    /\ FiftyMs \subseteq Groups
    /\ NoGroup \notin Groups /\ NoServer \notin Groups /\ NoGroup # NoServer
    /\ Cgroups # {}
    /\ MaxTracked \in Nat /\ RingSize \in Nat

VARIABLES
    server,    \* the kernel's servers: group, whether runtime is left, throttled
    pc,        \* where the call of update_curr_dl_se for a server is
    attached,  \* the probe is attached to that function
    wasPos,    \* se_state: was_pos of a server's entry, or "none"
    events,    \* the ring buffer: records that are reserved or ready
    story      \* history: what became of the server's present depletion

probeVars == <<server, pc, attached, wasPos, events, story>>

Server == [group : Groups \cup {NoGroup, NoServer}, left : BOOLEAN, throttled : BOOLEAN]
Unused == [group |-> NoServer, left |-> FALSE, throttled |-> FALSE]
Event == [group : Groups, cgroup : Cgroups, from : Servers, ready : BOOLEAN]

ProbeTypeOK ==
    /\ server \in [Servers -> Server]
    /\ pc \in [Servers -> {"out", "filling", "body"}]
    /\ attached \in BOOLEAN
    /\ wasPos \in [Servers -> {"none", "yes", "no"}]
    /\ events \in Seq(Event) /\ Len(events) <= RingSize
    /\ story \in [Servers -> {"none", "owed", "sent", "lost", "missed",
                              "twice", "unfounded"}]

ProbeInit ==
    /\ server = [s \in Servers |-> Unused]
    /\ pc = [s \in Servers |-> "out"]
    /\ attached = FALSE
    /\ wasPos = [s \in Servers |-> "none"]
    /\ events = <<>>
    /\ story = [s \in Servers |-> "none"]

Exhausted(s) == ~server[s].left /\ server[s].throttled
MapFull == Cardinality({s \in Servers : wasPos[s] # "none"}) >= MaxTracked

--------------------------------------------------------------------------------
(***************************************************************************)
(* The probe.                                                              *)
(***************************************************************************)

\* Nothing is done, or not for this kind of server.
Ignore(s) ==
    /\ ~attached \/ server[s].group = NoGroup
    /\ pc' = [pc EXCEPT ![s] = "body"]
    /\ UNCHANGED <<wasPos, events, story>>

\* The map has no room for a server that it does not know.
Untracked(s) ==
    /\ wasPos[s] = "none" /\ MapFull
    /\ pc' = [pc EXCEPT ![s] = "body"]
    /\ story' = [story EXCEPT ![s] = IF @ = "owed" THEN "missed" ELSE @]
    /\ UNCHANGED <<wasPos, events>>

\* A server is presumed to have had runtime left when it is first seen.
Was(s) == IF wasPos[s] = "none" THEN "yes" ELSE wasPos[s]

\* The condition for an event.
FirstHit(s) ==
    Was(s) = "yes" /\ Exhausted(s) /\ server[s].group \notin FiftyMs

\* The outcome of another event in the story of a depletion.
Sent(outcome) ==
    CASE outcome = "none" -> "unfounded"
      [] outcome \in {"sent", "twice"} -> "twice"
      [] OTHER -> "sent"

\* A record names the task group of the server (tg_ptr) and the cgroup of the task that is
\* current on this CPU (cgid).  That may be any task: whichever runs when the server that was
\* exhausted by an earlier call is looked at again.
Record(s, current) ==
    [group |-> server[s].group, cgroup |-> current, from |-> s, ready |-> FALSE]

\* Faulty variant of Reserve: room is not checked.
ReserveUnchecked(s) ==
    /\ FirstHit(s)
    /\ \E current \in Cgroups :
          events' = Append(events, Record(s, current))
    /\ wasPos' = [wasPos EXCEPT ![s] = Was(s)]
    /\ pc' = [pc EXCEPT ![s] = "filling"]
    /\ story' = [story EXCEPT ![s] = Sent(@)]

\* A first hit, and the ring buffer has room: a record is reserved.
Reserve(s) ==
    /\ FirstHit(s) /\ Len(events) < RingSize
    /\ \E current \in Cgroups :
          events' = Append(events, Record(s, current))
    /\ wasPos' = [wasPos EXCEPT ![s] = Was(s)]
    /\ pc' = [pc EXCEPT ![s] = "filling"]
    /\ story' = [story EXCEPT ![s] = Sent(@)]

\* Faulty variant of Lose: the oldest event makes room for the new one.
LoseOldest(s) ==
    /\ FirstHit(s) /\ Len(events) >= RingSize
    /\ \E current \in Cgroups :
          events' = Append(Tail(events), [Record(s, current) EXCEPT !.ready = TRUE])
    /\ wasPos' = [wasPos EXCEPT ![s] = "no"]
    /\ pc' = [pc EXCEPT ![s] = "body"]
    /\ story' = [story EXCEPT ![s] = Sent(@)]

\* A first hit, and the ring buffer is full: the flag is cleared all the same.
Lose(s) ==
    /\ FirstHit(s) /\ Len(events) >= RingSize
    /\ wasPos' = [wasPos EXCEPT ![s] = "no"]
    /\ pc' = [pc EXCEPT ![s] = "body"]
    /\ story' = [story EXCEPT ![s] = IF @ = "owed" THEN "lost" ELSE @]
    /\ UNCHANGED events

\* Faulty variant of Observe: the flag is not set again when runtime is left.
ObserveNoRearm(s) ==
    /\ ~FirstHit(s)
    /\ wasPos' = [wasPos EXCEPT ![s] = Was(s)]
    /\ pc' = [pc EXCEPT ![s] = "body"]
    /\ story' = [story EXCEPT ![s] = IF @ = "owed" THEN "missed" ELSE @]
    /\ UNCHANGED events

\* No first hit: the flag follows when there is runtime again.
Observe(s) ==
    /\ ~FirstHit(s)
    /\ wasPos' = [wasPos EXCEPT ![s] = IF server[s].left THEN "yes" ELSE Was(s)]
    /\ pc' = [pc EXCEPT ![s] = "body"]
    /\ story' = [story EXCEPT ![s] = IF @ = "owed" THEN "missed" ELSE @]
    /\ UNCHANGED events

\* The kernel calls update_curr_dl_se for a server; the probe runs first.
Enter(s) ==
    /\ pc[s] = "out" /\ server[s].group # NoServer
    /\ \/ Ignore(s)
       \/ /\ attached /\ server[s].group # NoGroup
          /\ \/ Untracked(s)
             \/ ~(wasPos[s] = "none" /\ MapFull) /\ (Reserve(s) \/ Lose(s) \/ Observe(s))
    /\ UNCHANGED <<server, attached>>

\* Faulty variant of Submit: the flag is not cleared.
SubmitKeepsFlag(s) ==
    /\ pc[s] = "filling"
    /\ events' = [i \in DOMAIN events |->
                    IF events[i].from = s THEN [events[i] EXCEPT !.ready = TRUE] ELSE events[i]]
    /\ UNCHANGED wasPos
    /\ pc' = [pc EXCEPT ![s] = "body"]
    /\ UNCHANGED <<server, attached, story>>

\* The record is filled in and submitted.
Submit(s) ==
    /\ pc[s] = "filling"
    /\ events' = [i \in DOMAIN events |->
                    IF events[i].from = s THEN [events[i] EXCEPT !.ready = TRUE] ELSE events[i]]
    /\ wasPos' = [wasPos EXCEPT ![s] = "no"]
    /\ pc' = [pc EXCEPT ![s] = "body"]
    /\ UNCHANGED <<server, attached, story>>

--------------------------------------------------------------------------------
(***************************************************************************)
(* The kernel.                                                             *)
(***************************************************************************)

\* The present depletion of a server, if any, is over.
Over(s) == story' = [story EXCEPT ![s] = "none"]

\* The body of update_curr_dl_se returns: a throttled server is not charged, nor is
\* one that has not been given runtime yet; another one may be exhausted or put off.
Body(s) ==
    /\ pc[s] = "body"
    /\ pc' = [pc EXCEPT ![s] = "out"]
    /\ \/ UNCHANGED <<server, story>>
       \/ /\ server[s].left /\ ~server[s].throttled
          /\ server' = [server EXCEPT ![s].left = FALSE, ![s].throttled = TRUE]
          /\ story' = [story EXCEPT ![s] = IF attached THEN "owed" ELSE "none"]
       \/ /\ server[s].left /\ ~server[s].throttled
          /\ server' = [server EXCEPT ![s].throttled = TRUE]
          /\ UNCHANGED story
    /\ UNCHANGED <<attached, wasPos, events>>

\* The replenishment timer, or the enqueueing of a server.
Replenish(s) ==
    /\ pc[s] = "out" /\ server[s].group # NoServer
    /\ server' = [server EXCEPT ![s].left = TRUE, ![s].throttled = FALSE]
    /\ Over(s)
    /\ UNCHANGED <<pc, attached, wasPos, events>>

\* A group is created: a server gets an address that is not in use.
Create(s, g) ==
    /\ server[s].group = NoServer
    /\ server' = [server EXCEPT ![s].group = g]
    /\ UNCHANGED <<pc, attached, wasPos, events, story>>

\* A group is removed.
Destroy(s) ==
    /\ pc[s] = "out" /\ server[s].group # NoServer
    /\ server' = [server EXCEPT ![s] = Unused]
    /\ Over(s)
    /\ UNCHANGED <<pc, attached, wasPos, events>>

\* The probe is attached, with new maps.
Attach ==
    /\ ~attached /\ attached' = TRUE
    /\ story' = [s \in Servers |-> IF server[s].group \in Groups /\ Exhausted(s)
                                   THEN "owed" ELSE "none"]
    /\ UNCHANGED <<server, pc, wasPos, events>>

\* Faulty variant of Detach: the map of the entities is pinned and outlives the program.
DetachKeepsMap ==
    /\ attached' = FALSE
    /\ events' = <<>>
    /\ pc' = [s \in Servers |-> IF pc[s] = "filling" THEN "body" ELSE pc[s]]
    /\ story' = [s \in Servers |-> "none"]
    /\ UNCHANGED <<server, wasPos>>

\* The probe is detached and its maps are freed, once a running call has left it.
Detach ==
    /\ attached' = FALSE
    /\ wasPos' = [s \in Servers |-> "none"]
    /\ events' = <<>>
    /\ pc' = [s \in Servers |-> IF pc[s] = "filling" THEN "body" ELSE pc[s]]
    /\ story' = [s \in Servers |-> "none"]
    /\ UNCHANGED server

\* The reader takes the first n records, which are ready.
TakeReady(n) ==
    /\ n \in 1..Len(events)
    /\ \A i \in 1..n : events[i].ready
    /\ events' = SubSeq(events, n + 1, Len(events))
    /\ UNCHANGED <<server, pc, attached, wasPos, story>>

KernelNext ==
    \E s \in Servers :
        \/ Enter(s)
        \/ Submit(s)
        \/ Body(s)
        \/ Replenish(s)
        \/ \E g \in Groups \cup {NoGroup} : Create(s, g)
        \/ Destroy(s)

ProbeNext ==
    \/ KernelNext
    \/ Attach
    \/ Detach
    \/ \E n \in 1..RingSize : TakeReady(n)

ProbeSpec == ProbeInit /\ [][ProbeNext]_probeVars

--------------------------------------------------------------------------------
(***************************************************************************)
(* Properties.                                                             *)
(***************************************************************************)

\* A depletion is reported at most once while the probe is attached, and nothing that is not
\* a depletion is reported, whatever the order in which CPUs enter the probe, groups come and
\* go, and addresses are used again ("only the first exhaustion event is sent").
OneEventPerDepletion ==
    \A s \in Servers : story[s] \notin {"twice", "unfounded"}

\* A depletion that the probe saw and did not report, with room in the ring buffer, is one of a
\* group whose runtime is 50 ms, or of a server for which the map had no room; in particular an
\* entry that a new server takes over from a dead one hides nothing.
MissedIsExplained ==
    \A s \in Servers : story[s] = "missed" =>
        \/ server[s].group \in FiftyMs
        \/ wasPos[s] = "none" /\ MapFull

\* A server that does not exist is as it will be when it is created.
UnusedInv(s) ==
    server[s].group = NoServer => server[s] = Unused /\ pc[s] = "out" /\ story[s] = "none"

\* Without the probe there are no maps.
DetachedInv(s) ==
    ~attached => wasPos[s] = "none" /\ pc[s] # "filling" /\ story[s] = "none"

\* A record is being written for a depletion that lasts.
FillingInv(s) ==
    pc[s] = "filling" => Exhausted(s) /\ server[s].group \in Groups /\ story[s] = "sent"

\* The flag has been set by the time a call can exhaust the server.
ArmedInv(s) ==
    pc[s] = "body" /\ server[s].left /\ server[s].group \in Groups => wasPos[s] # "no"

\* The flag knows what became of the depletion.
StoryInv(s) ==
    /\ story[s] # "none" => Exhausted(s)
    /\ server[s].group \in Groups =>
          /\ attached /\ Exhausted(s) => story[s] # "none"
          /\ story[s] = "owed" => wasPos[s] # "no"
    /\ story[s] \in {"sent", "lost"} => wasPos[s] = "no" \/ pc[s] = "filling"

\* The inductive invariant: together with the two properties above, what makes them so
\* in every order of the steps of the probe and of the kernel.
ProbeInv ==
    /\ ProbeTypeOK
    /\ ~attached => events = <<>>
    /\ \A s \in Servers :
          UnusedInv(s) /\ DetachedInv(s) /\ FillingInv(s) /\ ArmedInv(s) /\ StoryInv(s)
    /\ OneEventPerDepletion
    /\ MissedIsExplained

\* The feed that the reader relies on.
ReportOf(e) == [group |-> e.group, cgroup |-> e.cgroup]
Feed == INSTANCE OverrunFeed WITH
            hits <- {h \in [server : Servers, group : Groups] :
                        story[h.server] = "owed" /\ server[h.server].group = h.group},
            queue <- [i \in DOMAIN events |-> ReportOf(events[i])]

\* The probe implements the feed: reports are first hits, in order, and never more than fit.  A report
\* names the group that ran out; of the cgroup that it also carries nothing is promised.
ImplementsFeed == Feed!FeedSpec
================================================================================
