------------------------------ MODULE OverrunFeed ------------------------------
(***************************************************************************)
(* What the overrun probe promises to the program that reads its ring      *)
(* buffer, without its maps, flags and steps: a depletion of a server's    *)
(* runtime is reported at most once, only while it lasts, to a queue of    *)
(* bounded length that is read in order; it may also go unreported.        *)
(*                                                                         *)
(* A hit is a depletion in progress that has not been reported yet.  A     *)
(* report names the group whose server ran out, and the cgroup of the task *)
(* that was running when that was found, which may be any other.           *)
(***************************************************************************)
EXTENDS Naturals, Sequences

CONSTANTS
    Servers,   \* the scheduling servers
    Groups,    \* the groups of tasks that they serve
    Cgroups,   \* the cgroups that a running task may be in
    RingSize   \* how many reports fit into the ring buffer

VARIABLES
    hits,      \* the hits: pairs of a server and its group
    queue      \* the reports that have not been read

feedVars == <<hits, queue>>

Hit == [server : Servers, group : Groups]
Reports == [group : Groups, cgroup : Cgroups]

FeedTypeOK ==
    /\ hits \subseteq Hit
    /\ queue \in Seq(Reports) /\ Len(queue) <= RingSize

FeedInit == hits = {} /\ queue = <<>>

\* A server runs out of runtime.
Deplete(h) ==
    /\ hits' = hits \cup {h}
    /\ UNCHANGED queue

\* The depletion is reported.
Report(h) ==
    /\ h \in hits /\ Len(queue) < RingSize
    /\ hits' = hits \ {h}
    /\ \E c \in Cgroups : queue' = Append(queue, [group |-> h.group, cgroup |-> c])

\* The depletion ends, or the probe fails to report it.
Miss(h) ==
    /\ h \in hits
    /\ hits' = hits \ {h}
    /\ UNCHANGED queue

\* The reader takes the first n reports.
Take(n) ==
    /\ n <= Len(queue)
    /\ queue' = SubSeq(queue, n + 1, Len(queue))
    /\ UNCHANGED hits

\* The probe is attached, with an empty buffer; depletions may be in progress.
Begin ==
    /\ queue = <<>> /\ hits = {}
    /\ hits' \in SUBSET Hit
    /\ UNCHANGED queue

\* The probe is detached, and with it goes what has not been read.
End == hits' = {} /\ queue' = <<>>

FeedNext ==
    \/ \E h \in Hit : Deplete(h) \/ Report(h) \/ Miss(h)
    \/ \E n \in 1..RingSize : Take(n)
    \/ Begin
    \/ End

FeedSpec == FeedInit /\ [][FeedNext]_feedVars
================================================================================
