---------------------------- MODULE CgroupBandwidth ----------------------------
(***************************************************************************)
(* The real-time bandwidth that the kernel (hierarchical CBS scheduling of *)
(* control groups, `struct task_group.dl_bandwidth` of src/ebpf/vmlinux.h) *)
(* keeps for one pod and its containers, and the rule by which it accepts  *)
(* or refuses a write to cpu.rt_period_us, cpu.rt_runtime_us and           *)
(* cpu.rt_multi_runtime_us.  The kernel is not part of the repository:     *)
(* what is stated here is what src/resource/main.go relies on (a write may *)
(* be refused; a child may not exceed its parent; a negative runtime is    *)
(* unlimited).  Pure operators on states; no behaviour.                    *)
(***************************************************************************)
EXTENDS Integers, FiniteSets, Functions

CONSTANTS
    Containers,  \* the containers of the pod: the child groups
    Pod,         \* the pod's own group, parent of the containers
    Cores,       \* values of the request's "core" string, disjoint CPU sets
    AnyCore,     \* the request names no core (core == nil in the code)
    BwUnit,      \* the utilization of a group that runs all the time
    Budget       \* the utilization that the kubepods slice leaves to the pod

ASSUME BandwidthAssumption ==
    /\ IsFiniteSet(Containers)
    /\ Pod \notin Containers
    /\ AnyCore \notin Cores
    /\ BwUnit \in Nat \ {0}
    /\ Budget \in Nat

Groups == Containers \cup {Pod}

\* A group has one global runtime (cpu.rt_runtime_us) and one per core
\* (cpu.rt_multi_runtime_us): one "dimension" for each.
Dims == Cores \cup {AnyCore}

Group == [period : Nat \ {0}, runtime : [Dims -> Int], cpus : Dims]

\* What reading a runtime back yields: every negative value is "unlimited".
StoredRuntime(v) == IF v < 0 THEN -1 ELSE v

\* The utilization of group record g in dimension d.
Share(g, d) == IF g.runtime[d] < 0 THEN BwUnit
                                   ELSE (g.runtime[d] * BwUnit) \div g.period

\* The utilization that all containers of the state s together hold.
Demand(s, d) == SumFunction([c \in Containers |-> Share(s[c], d)])

\* The states of the groups that the kernel admits.
Schedulable(s) ==
    \A d \in Dims :
        /\ \A g \in Groups : s[g].runtime[d] <= s[g].period
        /\ Demand(s, d) <= Share(s[Pod], d)
        /\ Share(s[Pod], d) <= Budget

\* The groups with the runtime of group g in dimension d set to v, with the
\* period of g set to p, and with the CPU set of g set to that of core k.
SetRuntime(s, g, d, v) == [s EXCEPT ![g].runtime[d] = StoredRuntime(v)]
SetPeriod(s, g, p)     == [s EXCEPT ![g].period = p]
SetCpus(s, g, k)       == [s EXCEPT ![g].cpus = k]
================================================================================
