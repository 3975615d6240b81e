------------------------------ MODULE OverrunAgent -----------------------------
(***************************************************************************)
(* The overrun agent, src/ebpf/main.go: a loop that reads events from the  *)
(* ring buffer, finds the container of each by its cgroup id, counts it    *)
(* and posts it to the MC-Kube controller; and a goroutine that on SIGINT  *)
(* or SIGTERM writes the counts to a file and ends the process, without    *)
(* any lock.                                                               *)
(*                                                                         *)
(* Its environment is the feed of module OverrunFeed, of which the agent   *)
(* sees the queue alone, and of each report only the cgroup it carries:    *)
(* whenever there is room, a report with any cgroup that exists may come;  *)
(* cgroups that come and go; and the network.  A cgroup id is never used   *)
(* again (kernfs ids are 64 bits wide).                                    *)
(***************************************************************************)
EXTENDS Integers, Sequences, FiniteSets, Functions

CONSTANTS
    Groups,      \* the cgroups of the node
    Containers,  \* those whose path names a container
    NoEvent,     \* no event is being handled
    RingSize,    \* events that fit into the ring buffer
    MaxEvents    \* bound: events in a behaviour

ASSUME OverrunAgentAssumption ==
    /\ IsFiniteSet(Groups)
    /\ Containers \subseteq Groups
    /\ NoEvent \notin Groups
    /\ RingSize \in Nat /\ MaxEvents \in Nat

VARIABLES
    cgroup,      \* whether a cgroup is yet to come, exists, or is gone
    queue,       \* the ring buffer: the cgroups that the events carry
    known,       \* PathCache.byIno: the cgroups whose path is cached
    loop,        \* where main is
    cur,         \* the cgroup of the event being handled
    counts,      \* overrunCount; a key is present if its count is positive
    total,       \* totalCnt
    got,         \* the controller has received the request of the post under way
    saver,       \* where the signal goroutine is
    savedTotal, savedKeys, lines,  \* what it writes: the total, len(overrunCount), the table
    late,        \* requests under way whose sender has given up
    reported,    \* history: the events sent with each cgroup
    received     \* history: the posts for each container that reached the controller

envVars == <<cgroup, late, reported, received>>
tableVars == <<counts, total>>
saveVars == <<saver, savedTotal, savedKeys, lines>>
vars == <<envVars, queue, known, loop, cur, tableVars, got, saveVars>>

TypeOK ==
    /\ cgroup \in [Groups -> {"unborn", "live", "gone"}]
    /\ queue \in Seq(Groups) /\ Len(queue) <= RingSize
    /\ known \subseteq Groups
    /\ loop \in {"cache", "attach", "read", "resolve", "count", "total", "post", "ended"}
    /\ cur \in Groups \cup {NoEvent}
    /\ counts \in [Groups -> 0..MaxEvents]
    /\ total \in Nat
    /\ got \in BOOLEAN
    /\ saver \in {"wait", "create", "header", "lines", "saved", "failed"}
    /\ savedTotal \in Nat /\ savedKeys \subseteq Groups
    /\ lines \in [Groups -> 0..MaxEvents]
    /\ late \in [Groups -> 0..MaxEvents]
    /\ reported \in [Groups -> 0..MaxEvents]
    /\ received \in [Groups -> 0..MaxEvents]

Zero == [g \in Groups |-> 0]
Bump(f, g) == [f EXCEPT ![g] = @ + 1]
Live == {g \in Groups : cgroup[g] = "live"}

Init ==
    /\ cgroup \in [Groups -> {"unborn", "live"}]
    /\ \A g \in Groups \ Containers : cgroup[g] = "live"
    /\ queue = <<>> /\ known = {} /\ loop = "cache" /\ cur = NoEvent
    /\ counts = Zero /\ total = 0 /\ got = FALSE
    /\ saver = "wait" /\ savedTotal = 0 /\ savedKeys = {} /\ lines = Zero
    /\ late = Zero /\ reported = Zero /\ received = Zero

--------------------------------------------------------------------------------
(***************************************************************************)
(* The environment.                                                        *)
(***************************************************************************)

Running == loop \notin {"cache", "attach", "ended"}

\* The cgroup of a container is created or removed, while there is an agent to see it.
Change(g) ==
    /\ loop # "ended" /\ g \in Containers
    /\ \/ cgroup[g] = "unborn" /\ cgroup' = [cgroup EXCEPT ![g] = "live"]
       \/ cgroup[g] = "live" /\ cgroup' = [cgroup EXCEPT ![g] = "gone"]
    /\ UNCHANGED <<late, reported, received, queue, known, loop, cur, tableVars, got, saveVars>>

\* Faulty variant of Reported: room is not checked.
ReportedAlways(g) ==
    /\ Running /\ cgroup[g] = "live"
    /\ SumFunction(reported) < MaxEvents
    /\ queue' = Append(queue, g)
    /\ reported' = Bump(reported, g)
    /\ UNCHANGED <<cgroup, late, received, known, loop, cur, tableVars, got, saveVars>>

\* The probe reports a first hit, with room in the ring buffer, while a task of g is running.
Reported(g) ==
    /\ Running /\ cgroup[g] = "live"
    /\ Len(queue) < RingSize /\ SumFunction(reported) < MaxEvents
    /\ queue' = Append(queue, g)
    /\ reported' = Bump(reported, g)
    /\ UNCHANGED <<cgroup, late, received, known, loop, cur, tableVars, got, saveVars>>

\* A request whose sender has given up reaches the controller after all, or never.
Late(g) ==
    /\ late[g] > 0
    /\ late' = [late EXCEPT ![g] = @ - 1]
    /\ received' = Bump(received, g) \/ UNCHANGED received
    /\ UNCHANGED <<cgroup, reported, queue, known, loop, cur, tableVars, got, saveVars>>

--------------------------------------------------------------------------------
(***************************************************************************)
(* The loop.                                                               *)
(***************************************************************************)

\* buildPathCache, before the probe is attached; or log.Fatalf.
BuildCache ==
    /\ loop = "cache"
    /\ known' = Live
    /\ loop' \in {"attach", "ended"}
    /\ UNCHANGED <<envVars, queue, cur, tableVars, got, saveVars>>

\* loadAndAttach succeeds, or fails and takes back what it has done.
LoadAndAttach ==
    /\ loop = "attach"
    /\ loop' \in {"read", "ended"}
    /\ UNCHANGED <<envVars, queue, known, cur, tableVars, got, saveVars>>

\* rb.Read returns the oldest event.  It has no other outcome that changes anything: nobody closes
\* the reader, and every record has the size of Event.
Read ==
    /\ loop = "read" /\ queue # <<>>
    /\ cur' = Head(queue) /\ queue' = Tail(queue)
    /\ loop' = "resolve"
    /\ UNCHANGED <<envVars, known, tableVars, got, saveVars>>

\* Faulty variant of Resolve: a path that is not cached is not looked up again.
ResolveCachedOnly ==
    /\ loop = "resolve"
    /\ IF cur \in known \cap Containers
       THEN loop' = "count" /\ UNCHANGED cur
       ELSE loop' = "read" /\ cur' = NoEvent
    /\ UNCHANGED <<envVars, queue, known, tableVars, got, saveVars>>

\* The path of the cgroup id; the cache is refreshed, once, for an id that it does not
\* have.  An event without a path, or not of a container, is dropped.
Resolve ==
    /\ loop = "resolve"
    /\ known' = IF cur \in known THEN known ELSE known \cup Live
    /\ IF cur \in known' \cap Containers
       THEN loop' = "count" /\ UNCHANGED cur
       ELSE loop' = "read" /\ cur' = NoEvent
    /\ UNCHANGED <<envVars, queue, tableVars, got, saveVars>>

\* Faulty variant of Tally: the total goes up before the count of the container.
TallyTotalFirst ==
    /\ \/ /\ loop = "count" /\ loop' = "total"
          /\ total' = total + 1 /\ UNCHANGED <<counts, got>>
       \/ /\ loop = "total" /\ loop' = "post"
          /\ counts' = Bump(counts, cur) /\ got' = FALSE /\ UNCHANGED total
    /\ UNCHANGED <<envVars, queue, known, cur, saveVars>>

\* overrunCount[cid]++, then totalCnt++.
Tally ==
    /\ \/ /\ loop = "count" /\ loop' = "total"
          /\ counts' = Bump(counts, cur) /\ UNCHANGED <<total, got>>
       \/ /\ loop = "total" /\ loop' = "post"
          /\ total' = total + 1 /\ got' = FALSE /\ UNCHANGED counts
    /\ UNCHANGED <<envVars, queue, known, cur, saveVars>>

\* The controller receives the request of the post under way.
Receive ==
    /\ loop = "post" /\ ~got
    /\ got' = TRUE
    /\ received' = Bump(received, cur)
    /\ UNCHANGED <<cgroup, late, reported, queue, known, loop, cur, tableVars, saveVars>>

\* The controller has answered, or the connection is refused: both are only logged.
PostReturns ==
    /\ loop = "post"
    /\ loop' = "read" /\ cur' = NoEvent
    /\ UNCHANGED <<envVars, queue, known, tableVars, got, saveVars>>

\* Faulty variant of PostTimeout: the post is tried again.
PostTimeoutRetries ==
    /\ loop = "post"
    /\ late[cur] < MaxEvents
    /\ late' = IF got THEN late ELSE Bump(late, cur)
    /\ got' = FALSE
    /\ UNCHANGED <<cgroup, reported, received, queue, known, loop, cur, tableVars, saveVars>>

\* Faulty variant of PostTimeout: the post has no timeout.
PostNoTimeout == FALSE /\ UNCHANGED vars

\* The post is given up after 1.5 s; its request may still be under way.
PostTimeout ==
    /\ loop = "post"
    /\ late' = IF got THEN late ELSE Bump(late, cur)
    /\ loop' = "read" /\ cur' = NoEvent
    /\ UNCHANGED <<cgroup, reported, received, queue, known, tableVars, got, saveVars>>

--------------------------------------------------------------------------------
(***************************************************************************)
(* The signal goroutine.  It runs beside the loop.                         *)
(***************************************************************************)

\* os.Exit, or the end of main: the ring buffer goes with the process.
Exit == loop' = "ended" /\ queue' = <<>> /\ cur' = NoEvent

\* A signal: totalCnt is read, as an argument of saveStats.
Signal ==
    /\ saver = "wait" /\ Running
    /\ saver' = "create" /\ savedTotal' = total
    /\ UNCHANGED <<envVars, queue, known, loop, cur, tableVars, got, savedKeys, lines>>

\* Faulty variant of WriteHeader: the process is not ended when there is no file.
WriteHeaderOrReturn ==
    /\ saver = "create"
    /\ \/ /\ saver' = "header"
          /\ savedKeys' = {g \in Groups : counts[g] > 0}
       \/ saver' = "failed" /\ UNCHANGED savedKeys
    /\ UNCHANGED <<envVars, loop, queue, cur, known, tableVars, got, savedTotal, lines>>

\* The file is created and its header is written; or there is no file, and no statistics.
WriteHeader ==
    /\ saver = "create"
    /\ \/ /\ saver' = "header"
          /\ savedKeys' = {g \in Groups : counts[g] > 0}
          /\ UNCHANGED <<loop, queue, cur>>
       \/ saver' = "failed" /\ Exit /\ UNCHANGED savedKeys
    /\ UNCHANGED <<envVars, known, tableVars, got, savedTotal, lines>>

\* The iteration over the map reads another entry.
ReadEntry(g) ==
    /\ saver \in {"header", "lines"} /\ counts[g] > 0 /\ lines[g] = 0
    /\ saver' = "lines" /\ lines' = [lines EXCEPT ![g] = counts[g]]
    /\ UNCHANGED <<envVars, queue, known, loop, cur, tableVars, got, savedTotal, savedKeys>>

\* The iteration has read each entry that was there before it began; the table is
\* written and the process ends.
WriteTable ==
    /\ saver \in {"header", "lines"}
    /\ \A g \in savedKeys : lines[g] > 0
    /\ saver' = "saved" /\ Exit
    /\ UNCHANGED <<envVars, known, tableVars, got, savedTotal, savedKeys, lines>>

\* The iteration, also its first step, meets a write of the loop: the runtime ends the process.
Collide ==
    /\ saver \in {"header", "lines"} /\ loop = "count"
    /\ saver' = "failed" /\ Exit
    /\ UNCHANGED <<envVars, known, tableVars, got, savedTotal, savedKeys, lines>>

Environment == \E g \in Groups : Change(g) \/ Reported(g) \/ Late(g)

Loop ==
    \/ BuildCache \/ LoadAndAttach
    \/ Read \/ Resolve \/ Tally
    \/ Receive \/ PostReturns \/ PostTimeout

SaveStats ==
    \/ WriteHeader
    \/ \E g \in Groups : ReadEntry(g)
    \/ WriteTable
    \/ Collide

Next == Environment \/ Loop \/ Signal \/ SaveStats

\* The loop takes an event that waits, and its steps end; a post is given up after its time; the
\* goroutine runs on.  Nothing is assumed of the controller, the network and the kernel.
Fairness ==
    /\ WF_vars(Read) /\ WF_vars(Resolve) /\ WF_vars(Tally) /\ WF_vars(PostTimeout)
    /\ WF_vars(SaveStats)

Spec == Init /\ [][Next]_vars
FairSpec == Spec /\ Fairness

--------------------------------------------------------------------------------
(***************************************************************************)
(* Properties.                                                             *)
(***************************************************************************)

Queued(g) == Cardinality({i \in DOMAIN queue : queue[i] = g})
InHand(g) == IF cur = g /\ loop \in {"resolve", "count"} THEN 1 ELSE 0

\* While a container lives, each event with its cgroup is in the ring buffer, in hand, or counted
\* exactly once, whenever it was created; an event is dropped only if its container is gone when it is read.
CountsAreTrue ==
    loop # "ended" => \A g \in Containers :
        LET handled == counts[g] + InHand(g) + Queued(g)
        IN  /\ handled <= reported[g]
            /\ cgroup[g] = "live" => handled = reported[g]

\* Although the statistics are read while the loop writes them, the total saved is never more than
\* the sum of the table, no entry of which is more than what was reported for the container.
SavedTotalIsCovered ==
    saver = "saved" =>
        /\ savedTotal <= SumFunction(lines)
        /\ \A g \in Groups : lines[g] <= reported[g]

\* No overrun is posted twice: what reached the controller and what may still reach it has been
\* counted, once each, although the agent gives up posts that are under way.
PostedAtMostOnce ==
    \A g \in Groups :
        received[g] + late[g] + (IF loop = "post" /\ cur = g /\ ~got THEN 1 ELSE 0) <= counts[g]

\* The loop gets to every event that is in the ring buffer, also when the controller never answers:
\* the buffer is empty again once no more events come, of which there are at most MaxEvents.
EventsAreHandled == queue # <<>> ~> queue = <<>>

\* A signal ends the agent, whatever the loop does meanwhile.
SignalEndsAgent == saver = "create" ~> loop = "ended"
================================================================================
