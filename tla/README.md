# PC_setting: a TLA+ verification project

PC_setting is the node side of MC-Kube, a scheduler for real-time containers. Each node runs three
programs: a *resource controller* that sets the real-time bandwidth of containers, a *CPU agent*
that publishes the node's load, and an *overrun agent* that reports containers that have used up
their bandwidth. The MC-Kube controller, which drives them, is not in the repository.

This directory holds TLA+ models of these programs, TLC configurations that check them, and TLAPS
proofs. All definitions are translated from the Go, C and eBPF code under `src/`; the kernel, the
container runtime and kubectl, which are not there, are modelled from what that code relies on.

    tlc -config rc_cores.cfg MCResourceController     # model-check one run
    tlapm ResourceController_proofs.tla               # check the proofs

## 1. Inventory

| Component | Source | State | Operations |
|---|---|---|---|
| Resource controller, `POST /cgroup` | `resource/main.go` | none of its own: the cgroup files of a pod and its containers (`cpu.rt_period_us`, `cpu.rt_runtime_us`, `cpu.rt_multi_runtime_us`, `cpuset.cpus`), which outlive it | validate, `crictl inspect`, preflight, read the pod, choose an order, write two groups |
| Resource controller, `POST /renice` | `resource/main.go` | none | `crictl inspect`, `renice` of the PID found |
| Kernel (HCBS cgroups) | outside; `ebpf/vmlinux.h` shows its structures | bandwidth and CPU set of each group | accept or refuse a write |
| CPU agent, loop | `cpu_util_sender/main.go` | `prev`, `over90time`, `lastAnnUsage`, `lastAnnTime`, `droppedBelowTime`, `waitingForBusyFalse` | sample on a tick, publish |
| CPU agent, API server | same file | one goroutine and one kubectl per request | `kubectl annotate node` |
| Overrun probe | `ebpf/hcbs_overrun.bpf.c` | `se_state` map, ring buffer | detect the first exhaustion of a server |
| Overrun agent | `ebpf/main.go` | path cache, counters, statistics | read events, resolve the cgroup, `POST /overrun`, save the statistics on a signal |
| Alternative consumer | `ebpf/ebpf-co-re.c` | the ring buffer, a stop flag | load and attach the probe, poll and print, stop on a signal |
| Scripts, images, manifests, legacy agent, log analysis | `*.sh`, `Dockerfile`, `*.yaml`, `legacy/` | none | installation, reports |

How they interact. The MC-Kube controller reads the node's annotations (written by the CPU agent
through its own API server and kubectl), receives overruns (from the overrun agent) and sends
`/cgroup` requests to the resource controller. Between the programs of one node there is no call:
they meet in the kernel. Within the resource controller, requests meet in the cgroup files, with
no lock. Within the CPU agent, the loop and the API server meet in one HTTP request with a
timeout of three seconds on one side and none on the other. Within the overrun agent, the
signal handler and the loop share maps without a lock.

What is hard here, and what "correct" means for each component:

* **Resource controller.** The kernel accepts a write only if the children of a pod fit into the
  pod. The handler has to find an order of up to six writes none of which is refused, from a
  snapshot of the *pod* alone, while other handlers write the same files and while earlier requests
  may have been cut off half-way by an error or a restart. Correct: what is answered with success
  is in force on pod and container; what fits is not refused; what is refused leaves no trace.
* **CPU agent.** `isCpuBusy` depends on flags set before and after a call that may fail or take
  effect late. Correct: the node says busy while it is, with a bounded lag; `false` is not sent too
  early; and it is sent in the end.
* **`computeUsage`.** Correct: a percentage for every pair of samples, wrap-around and a decreasing
  iowait included; over several seconds, between the usages of the parts.
* **Overrun probe.** It runs on all CPUs at once, in the middle of the scheduler, with a map that can be
  full, entries of servers that no longer exist, and a ring buffer that can be full. Correct: at most one
  event for each depletion, none without one, and each depletion it overlooks is explained.
* **Consumers.** Correct: each event of a living container is counted once and posted at most once,
  although posts that were given up may still arrive; the statistics agree with themselves,
  although they are read while they are written; a signal ends the program; a full buffer gets room again.
* **renice.** Correct: the process whose priority changes belongs to the container asked for.

`PROJECT.json` lists every place in the code where one of these can go wrong ("hazards"), with the
properties that look at it.

## 2. Modules

| Module | What it models |
|---|---|
| `CgroupBandwidth` | the kernel's record of a pod and its containers, its admission rule, the effect of each write (pure operators) |
| `ResourceController` | `handleCgroup` and `applyCgroup`: concurrent handlers, faults, restarts; the properties |
| `Reservation` | abstract: a runtime per container and core, set atomically |
| `ControllerReservation` | the refinement mapping from `ResourceController` to `Reservation` |
| `MCResourceController` | request sets for TLC |
| `CpuAgent` | the sampling loop, the annotation call, kubectl, time, restarts |
| `BusySignal` | abstract: the signal with hysteresis that `isCpuBusy` is while nothing fails |
| `CpuUsage` | `computeUsage` on unsigned counters (pure operators), with the theorems about it |
| `Renice` | `handleRenice`: concurrent handlers, a node whose PIDs are used again, a runtime that hangs |
| `OverrunFeed` | abstract: what the probe promises to its reader |
| `OverrunProbe` | the eBPF program, and the kernel's deadline servers as far as it sees them |
| `HcbsOverrun` | `ebpf-co-re.c`, composed with the probe; the refinement of `OverrunFeed` |
| `OverrunAgent` | the Go agent on that feed: the loop and the signal goroutine |
| `SumFacts` | lemmas about sums over finite sets, of which the kernel's rule and the overrun agent's statistics speak |
| `ResourceController_proofs`, `ControllerReservation_proofs`, `CpuAgent_proofs`, `Renice_proofs`, `HcbsOverrun_proofs`, `OverrunAgent_proofs` | lemmas and theorems |

Operators whose comment begins with "Faulty variant of" are not part of the specification: each is
a plausible bug, which must make one of the properties fail when it takes the place of the correct
definition.

### 2.1 The kernel: `CgroupBandwidth`

A group is a record of a period, one runtime per *dimension* and a CPU set. The dimensions are the
values of the request's `core` (each a line of `cpu.rt_multi_runtime_us`) and `AnyCore`, the global
`cpu.rt_runtime_us`. The code treats these files as independent of each other and so does the model;
core ranges are disjoint opaque values. `Share` is the kernel's utilization, an integer fraction
runtime * BwUnit / period (BwUnit is 2^20 in the kernel). A state is `Schedulable` if in each
dimension no runtime exceeds its period, the containers' shares add up to no more than the pod's, and
the pod's does not exceed what `kubepods.slice` leaves to it (`Budget`). A write is accepted if the
state it leads to is schedulable. A negative runtime is "unlimited" and counts as the whole CPU.

### 2.2 The resource controller: `ResourceController`

| Action | Code (`src/resource/main.go`) |
|---|---|
| `Receive` | `handleCgroup`: the checks on period and runtime, 400 |
| `Preflight` | `applyCgroup`: crictl, the system-wide limits, the root period |
| `ReadPeriod`, `ReadRuntime` | `readRtValues` of the pod, with the flags computed from each |
| `ReadCore` | `getCurrentMultiRuntime`, which reports no error: an unreadable file is runtime 0 |
| `WriteRuntime`, `WritePeriod`, `WriteCpuset` | `writeRuntimeFile`, and the parts of `writeRtValues`; `Advance` and `NextFile` give the order of the files, `Target` that of the groups |
| `Fault` | any error that is returned: crictl, jq, a read, EBUSY on a write |
| `Crash` | the daemon is killed; `Restart=always` starts it again |

`lower[h]` is the disjunction of the decrease flags that apply in the request's mode. It decides
both orders: container before pod, and runtime before period. In the code the flags are computed
after all reads; since the request does not change, computing each with its read is the same.

Modelling choices. A step is one access of one cgroup file. `writeRtValues` reads the current period (and
CPU set) and writes it if it differs. The model has one step for the two accesses, which loses nothing:
if the write is skipped, the step is the read, and writing what is there would change nothing; if it is
not, the step is the write, whatever another handler did since the read. `"refused"` (the kernel's
rule) and `"failed"` (anything else) are the same HTTP 500; they are told apart to state properties.
Malformed JSON, a missing container ID and other methods are answered before anything is read and are
left out.

### 2.3 The CPU agent: `CpuAgent`

| Action | Code (`src/cpu_util_sender/main.go`) |
|---|---|
| `Second` | a second of load; the ticker, whose channel holds one tick |
| `Sample` = `SampleHigh`, `SampleDrop`, `SampleLow` | an iteration of the loop up to `annotateViaHTTP` |
| `SampleError` | `readProcStat` fails: `continue` |
| `SampleMisread` | the counters fell (iowait may) or stood still: `computeUsage` says 0, and `prev` moves on |
| `Serve` | the request reaches `handleNodeAnnotations`, which starts kubectl |
| `Finish` | kubectl ends, well (`KubectlDone`) or not (`KubectlFails`); a caller that still waits goes on |
| `Timeout` | the client's three seconds are over; kubectl runs on |
| `Unreachable` | the connection is refused |
| `Restart` | the container is restarted; its kubectl processes die with it |

Time is counted in whole seconds. The loop takes its tick before the next second passes unless it is
blocked in a call, so "at least five seconds ago" is exact up to jitter of less than a second; when the age
is exactly five, the model allows both outcomes (`Passed`). A sample after several seconds may find
any usage between the least and the greatest of them. `highFor` and `quiet` are history variables.

`BusySignal` is what a reader of `isCpuBusy` may rely on while nothing fails. Its phase is `"busy"` from a busy sample on,
`"cooling"` once a drop has been noted, and `"idle"` after `false`; the signal goes up within one call, stays up while the load
falls and rises again, and goes down between `HoldSeconds` and `Latest` seconds after the last busy sample. The refinement mapping
(`Phase`) reads the phase from three variables of the loop: `waiting` is cooling, a busy `lastAnnUsage` or a call that is to publish
one is busy. That such a mapping exists says that the loop's variables never contradict each other while nothing fails; after
a failure they may (`cpu_stuck_busy`).

`CpuUsage` has the arithmetic that this module leaves out. Two of its theorems are what the abstraction rests
on: `SpanIsBetween` (why a sample over several seconds is one of `Samples`) and `FallenIdleIsNoUsage` (what
`SampleMisread` stands for). Floats are taken to be exact: the code's may round the
other way where the exact percentage ends in one half.

### 2.4 The overrun probe: `OverrunProbe`

| Action | Code (`src/ebpf/hcbs_overrun.bpf.c`) |
|---|---|
| `Enter` = `Ignore` | no task group: return. (Or the probe is not attached.) |
| `Untracked` | `bpf_map_update_elem` finds no room: the second lookup fails, return |
| `Reserve` | first hit: `bpf_ringbuf_reserve` gives a record, which is filled in (`Record`) |
| `Lose` | first hit, no room: the flag is cleared all the same |
| `Observe` | no first hit: `was_pos` follows when there is runtime |
| `Submit` | the record is submitted, and the flag is cleared |
| `Body`, `Replenish`, `Create`, `Destroy` | the kernel: `update_curr_dl_se` itself, the timer, groups that come and go |
| `Attach`, `Detach`, `TakeReady` | what a program that uses the probe does |

A server is an address, the key of `se_state`. Calls for one server are serialised by its run queue's lock
(`pc`); calls for different servers interleave, between `Reserve` and `Submit` in particular, and the
reader stops at a record that is not submitted. When a group is removed, its address may be given to a
server of another group, with the map's entry and its flag. The fentry hook sees the server as the *previous*
call left it. `story` is a history variable: what became of a server's present depletion (owed, sent, lost to
a full buffer, missed; *twice* and *unfounded* must not occur).

A record has two ways to say whose depletion it is: `tg_ptr`, the task group of the server (`group` in the model), and
`cgid`, which is `bpf_get_current_cgroup_id()`, the cgroup of the task that is current on the CPU (`cgroup`). The two
need not agree: the depletion is seen one call after the charge that caused it, and by then another task may run.
Which one is outside the repository, so that `Reserve` takes any member of `Cgroups`.

`OverrunFeed` is what a reader can rely on: a depletion in progress (`hits`) may be reported once, to a bounded
queue read in order, or be missed. A report names the group that ran out; of the cgroup that it also carries nothing is
promised. In the mapping of `HcbsOverrun` a hit is a depletion that the probe still owes and the
queue is the ring buffer. `OverrunAgent` uses the feed with the hits and the groups hidden: the Go agent reads nothing but
the cgroup, so that its queue holds cgroups, any living one of which may come at any time.

### 2.5 The consumers: `HcbsOverrun`, `OverrunAgent`

`HcbsOverrun` has an action per step of `main`: `Open`, `Load`, `AttachProbe`, `NewRing` (each may fail and goes where
the code's `goto` goes), `Check` (the loop's condition), `PollEvents`, `PollTimeout`, `PollError`, `Cleanup`;
`Signal` sets the flag and, if the program is in the wait, ends it (unless it comes just before);
`Rerun` starts the program again. libbpf hands over all ready records in one step, since the callback only prints.

| Action of `OverrunAgent` | Code (`src/ebpf/main.go`) |
|---|---|
| `BuildCache`, `LoadAndAttach` | start-up, or `log.Fatalf` |
| `Read`, `Resolve` | `rb.Read`; the path by cgroup id, with one refresh of the cache; not a container: `continue` |
| `Tally` | `overrunCount[cid]++`, then `totalCnt++` |
| `Receive`, `PostReturns`, `PostTimeout` | the post: the controller gets it, the client returns, or gives up after 1.5 s |
| `Signal`, `WriteHeader`, `ReadEntry`, `WriteTable`, `Collide` | the goroutine: `totalCnt` is evaluated, the file created, the map iterated, `os.Exit` |
| `Change`, `Reported`, `Late` | the environment: containers, the feed, requests under way |

The goroutine takes no lock. Go's map iteration visits every key that was there when it began and may or may not visit
a later one (`ReadEntry`, `WriteTable`); when it coincides with a write, the runtime may detect that and end the
process (`Collide`). The error paths of `rb.Read` and `binary.Read` are not taken: nobody closes the reader, and every
record has the 48 bytes of `Event`. A cgroup id is not used again (kernfs ids have 64 bits), which the path cache needs,
as it forgets nothing.

### 2.6 renice: `Renice`

`Receive`, `Inspect` (crictl and jq, which have no timeout), `Apply`, `ApplyToGone` (no such process: an error),
`ApplyToNone`, `Fail`, `Crash` are the handler; `StartContainer`, `StartOther`, `Exit` and `Hang` are the node. For a
container that is not running, crictl says PID 0, `renice -p 0` changes the niceness of the renice command
itself, and the client is told success (`ApplyToNone`).

## 3. Runs

The period of a fresh group is 4 and BwUnit 12, so that runtimes 1..4 are shares of 3, 6, 9 and 12, and
the budget 9 refuses runtime 4 alone; the smaller and the larger periods (2, 6) make every pair of
shares that the ratios can compare occur. Requests may come in any order and number: no run bounds the
length of a behaviour of the controller.

| Run | Expect | Question | Bounds |
|---|---|---|---|
| `rc_alone` | pass | One request at a time, any mix: is an "ok" in force (`OkMeansInForce`)? Is each refusal explained by the budget or by a known weakness of the order (`RefusalExplained`)? Is a pod's core served to one container only (`OkMeansExclusive`)? | two containers, the second with one request, for the same core; one core and the global runtime; periods 2, 4, 6, 8 (8 above the root's 6); runtimes -1, 1, 2, 4; both modes; faults; restarts |
| `rc_cores` | pass | Two clients at a time, one core and one container each, one period: is only what exceeds the budget refused, at its first write, and is an "ok" kept (`RefusedOnlyOverBudget`, `RefusalIsClean`, `OkMeansReserved`)? Is the invariant of the proofs one (`IInv`)? Does the controller implement `Reservation`? | two handlers, containers and cores; one client escalates to 1, 2 or asks for 2, 4 in normal mode, the other for 1, 2 in normal mode; faults; restarts |
| `rc_overlap` | violation | Do concurrent requests for one container take effect one after the other (`OkMeansInForce`)? | one request each, with different cores and the periods 4 and 6 |
| `rc_unlimited` | violation | Does a negative runtime mean unlimited? | one request |
| `rc_first_setup` | violation | Is the pod written first when the share grows? | one request on a fresh pod |
| `cpu_steady` | pass | Calls succeed: is the node up to date while busy (`FreshWhileBusy`), and is busy withdrawn (`BusyIsCleared`), within 12 s of the last busy sample (`BusyIsClearedInTime`)? Does the agent implement `BusySignal`? | calls of 0..2 s; busy periods of up to 9 s, longer than the refresh period of 5 s; quiet seconds counted up to 14, more than the 12 |
| `cpu_faulty` | pass | Is `false` sent only after five quiet seconds (`FalseIsSentAfterQuiet`), whatever fails, does a late reply go to the right call (`IInv`), and when does the loop lose sight of a busy node (`ForgottenByMishapOnly`)? | one failure (sampling, a misread sample, connection or kubectl), any number of timeouts with one lingering kubectl, one restart; busy periods of up to 3 s, enough to have every flag set |
| `cpu_stuck_busy` | violation | Is busy withdrawn when one call may fail? | as `cpu_steady`, one failure |
| `cpu_duration` | violation | Does the duration count seconds? | calls of up to 2 s, no failure |
| `hcbs_overrun` | pass | Is a depletion reported at most once (`OneEventPerDepletion`), and what is missed explained (`MissedIsExplained`)? Does the probe implement the feed? Does a signal end the program (`SignalEnds`), does a full buffer get room (`RingGetsRoom`)? | two servers, two groups of which one has 50 ms, two cgroups for the current task (a group's own and another), a map of one entry, a buffer of two records; no bound on the number of depletions, groups or runs of the program |
| `overrun_agent` | pass | Is each event counted once (`CountsAreTrue`) and posted at most once (`PostedAtMostOnce`)? Are the saved statistics consistent (`SavedTotalIsCovered`)? Does the loop get on when nobody answers (`EventsAreHandled`: after the last of the three events the buffer is emptied), does a signal end the agent (`SignalEndsAgent`)? | two containers and another group, a buffer of two, three events; the process may end, so that stopping is allowed |
| `renice` | pass | Whose process can a request hit (`OnlyExitedHitsOthers`)? Is it answered if the runtime stays up in the end (`RequestsEnd`)? | two handlers, containers, PIDs and priorities; a PID is used again any number of times |

The CPU agent runs with the real constants (90 %, 5 s, 3 s); usages 90, 91 and 99 are the boundary, the
value above it, and another busy value, since the code asks only whether a usage is busy and whether
it equals the last. `Restart`, failures and lingering processes are bounded by counters in
the guards (`MaxRestarts`, `MaxFailures`, `MaxOrphans`); `MaxBusy` bounds the length of a busy period and
with it `over90time`, `MaxQuiet` how far `quiet` counts (it then stays; 6, which is more than `HoldSeconds`, is enough where
only `FalseIsSentAfterQuiet` reads it), and `SlowestCall` the seconds that a reply takes.

**Fairness** (`CpuAgent!Fairness`), used by `BusyIsCleared` only: time passes (`Second`), the loop takes a
tick that waits (`Sample`: the goroutine is runnable), a request reaches its handler (`Serve`:
net/http starts a goroutine for it), kubectl ends (`Finish`), and a call that has waited its three
seconds returns (`Timeout`: context and client both have the deadline). All are weak: each action stays
enabled until it is taken. Nothing is assumed of failures or restarts.

A map of one entry is the smallest with which a second server is not tracked, and the entry can pass from a dead server to
a new one at its address; a buffer of two lets a submitted record wait behind one being
written. Three events are enough for one in the buffer, one in hand and one whose post is late.

The other specifications with fairness: `HcbsOverrun!Fairness` takes the steps of `main` (the poll returns
after 200 ms) and lets a call that has entered the probe finish it; nothing is assumed of
depletions or failures. `OverrunAgent!Fairness` takes the loop's own steps, the end of a post after
its 1.5 s, and the goroutine's steps; the controller may never answer. `Renice!Fairness` lets a handler go on unless the
runtime hangs; that it does not hang for ever, or again and again, is not assumed but the premise of `RequestsEnd`. All of it is weak.

### What the violations say

* `rc_overlap`: both handlers find that their request is an increase and go pod first, and write period, runtime and CPU set of
  each group. Their writes alternate, and each file keeps what was written to it last: in the shortest traces the groups end with
  the period of one request and the CPU set of the other, or pod and container differ. Both clients are told success.
* `rc_unlimited`: `writeRtValues` replaces a negative runtime by 0, "no real-time at all", the opposite of what
  `isRuntimeDecrease` documents (line 476). `handleCgroup` (lines 158, 160) calls it a way to disable, which may be read either way. Escalations (`writeRuntimeOnly`) pass it on.
* `rc_first_setup`: a shorter period makes the request a "decrease" and the container is written first,
  while its pod holds nothing yet: the kernel refuses. The same cause explains most of `RefusalExplained`'s cases.
* `cpu_stuck_busy`: a drop below 90 is published (`waitingForBusyFalse` is set); the load rises again, which
  clears the flag, but its call fails and `lastAnnUsage` stays below 90; the load drops again: neither of the
  two branches applies and `isCpuBusy` stays true until the next published busy period ends.
* `cpu_duration`: the ticker drops the ticks of the seconds that the loop spends in a call; `over90time`
  counts the others.

## 4. Proofs

The constants' assumptions are `BandwidthAssumption` (the pod is not a container, no core is
`AnyCore`, BwUnit positive, finitely many containers) and `ControllerAssumption` (the constants' types); both are evaluated by every
controller run. With nothing more:

* `TypeCorrect`: `Spec => []TypeOK`, which includes that a request in progress passed validation.

* `KernelRule`: `Spec => []Schedulable(cg)`: no half-written request and no restart leaves the groups as the kernel would not
  have admitted them. The other proofs start from it.

With one handler, for *any* requests, containers and cores, any budget, with faults and restarts:

* `OkIsInForce`: `Spec => []OkMeansInForce`. The invariant behind it, `AppliedInv`, says that the files already written for a
  request hold what it asks for, in the first group and in the second; `FileOrder` shows that the order of
  files leaves none out.
* `OkIsExclusive`: `Spec => []OkMeansExclusive`. The pod's share of the core is then the container's own, which the kernel's rule
  bounds the sum of all containers by: nothing is left to the others.
* `RefusalIsExplained`: `Spec => []RefusalExplained`. `DecisionInv` records what the pod, unchanged since it was read, must
  have held for the chosen order; when the kernel refuses a write, the write's effect on the rule, together with that,
  leaves only the budget or the circumstances of `OrderMayFail` (`RefusalHasReason`); `ReasonInv` keeps it until the
  next request.

For `Disciplined` requests, the use that `applyCgroup`'s order is right for (one period, no negative
runtime, one handler and one container per core, no global runtimes beside per-core settings), for any finite
number of containers and any number of cores, handlers and requests, any period and budget, with faults and restarts:

* `Invariance`: `Spec => []IInv`,
* `OnlyOverBudgetIsRefused`: the kernel refuses only what exceeds the budget,
* `RefusalChangesNothing`: and it does so at the first write,
* `OkIsReserved`: an "ok" is kept on pod and container,
* `Implementation`: the controller implements `Reservation`: each request takes effect in one atomic step, the
  write of the container's runtime, or not at all.

**The argument.** `RefusedOnlyOverBudget` is not inductive: whether a write is accepted depends on what the
handler read earlier and on the other group. `IInv` adds three things. `GroupsInv`: what the kernel has is
schedulable, with the one period, and a container has a runtime on a core only if some request names the two
(`OwnersOnly`), which makes the container of a request the only one on its core. `ReadingInv`: what a handler has before its first write.
`WritingInv`: between its reads and its last write the decision it took stays right (a decrease asks for no more than the
pod has, an increase for no less), the first group keeps what was written to it, and nobody else touches
its core. It says nothing of how the groups came to be as they are, so a half-written state left by a crash
is like any other. For the write itself: writing the container, the runtime is at most the pod's; writing the pod, it is at
least the container's; shares are monotone in the runtime (`ShareMonotone`), hence the rule holds
(`ContainerFits`, `PodFits`), with the budget as the one exception (`RefusedRuntime`). As shares are integer
fractions, two different runtimes may have the same share: all comparisons are between shares where
the kernel's rule is concerned and between runtimes where the code's is.

**The refinement.** The register of a container and a core is the container's runtime; a request is "granted"
with the write of that file, which is the first or the second of the two groups. `AdvancePhase` shows that a handler
is answered "ok" only after it, `WrittenIsWithinBudget` that what it writes there is within the budget, and the
invariant that a refusal comes before it. A refusal that follows a failed read of the pod's
per-core runtime counts as that fault (`ReplyTo`).

**Sums.** The kernel compares the pod with the *sum* over its containers, which the community modules define by a recursive
function on the subsets of the set, taking away an arbitrary element each time. `SumFacts` proves what is needed of it for every
finite set. Induction is done without the library's induction theorems (their parameter is an operator, which no
installed prover can instantiate): a property of all subsets is stated as a set of counterexamples, and
`LeastSubset` gives a least one, from the well-foundedness of proper inclusion. `SumsExists` shows that the recursion has
a solution, `SumsUnique` that it is the same for a subset as in a larger set, `SumsAny` that it does not matter which
element is taken away first. The rest follows: `SumWithout`, `SumMonotone`, `SumOfChange`, `SumOfNaturals`, `SumOfOne`.

For the CPU agent, from `AgentAssumption` alone (types of the constants, and that a call waits no longer than its
timeout), for all usages, thresholds, delays, failures and restarts:

* `AgentInvariance`: `Spec => []IInv`, `AgentTypeCorrect`: `Spec => []TypeOK`,
* `FalseComesLate`: `Spec => []FalseIsSentAfterQuiet`.

`FalseIsSentAfterQuiet` speaks of a call that is under way; what keeps it true is `WaitingInv` (the wait for `false`
began after the last busy sample), and this in turn holds because a kubectl whose caller has given up
cannot set the flag: `RepliesInv`, the only live kubectl is that of the present call. `BusyInv` is
needed for the type of `over90time`.

* `OnlyMishapsForget`: `Spec => ForgottenByMishapOnly`, the node says busy without the loop knowing of it or waiting to withdraw
  it only after a restart, a failed or given-up call, or one that takes effect late; `KindInv` says what each kind of call
  publishes, so that one that succeeds leaves the loop with what the node says.

* `NodeIsFresh`: `Spec => []FreshWhileBusy`, if replies come before the timeout. The property speaks of the time until something
  fails: a call, a reading of `/proc/stat`, or a sample that is misread.

`NodeIsFresh` counts: between calls the published duration lags behind `over90time` by at most the age of the publication
plus one (`Early`: a tick that came while the call was under way), and less when a tick waits.

* `BusyEndsInTime`: `Spec => []BusyIsClearedInTime`, if replies come before the timeout.

This is the safety half of `BusyIsCleared`, with the bound that the liveness leaves open: time itself cannot pass the
moment at which `false` is due. The invariant, `ClearInv`, follows the wait through its stages. `CallTimes` says how long ago
the last busy sample can have been when each kind of call was made; `LoopTimes` says that between calls a node that says busy
has a loop that knows it (the last usage published was busy, or it waits for `false`), and how old the drop and the
sample may be then. Its premise is that nothing has failed yet, without which it is false (`cpu_stuck_busy`). The
bound is reached: 12 seconds with the constants of `cpu_steady`, of which 5 are the delay of the code.

* `SignalImplemented`: `Spec => ImplementsBusySignal`, if replies come before the timeout and nothing fails. "Nothing fails" is
  said of the constants here (`MaxFailures` and `MaxRestarts` are 0), as a refinement is about whole behaviours.

Each action of the agent is a step of `BusySignal` or a stutter: `Second` waits, a busy sample is `BusySample`, the reply to a
call raises, drops or clears. `IInv` gives that a clearing comes late enough, `ClearInv` the rest.

For `computeUsage`, for counters of any width: `UsageIsPercentage`, `FallenIdleIsNoUsage`, `SpanIsBetween`.

For the probe, for any number of servers and groups and any size of map and buffer (`ProbeAssumption`):

* `ProbeCorrect`: `Spec => []ProbeInv`, `TypeCorrect`, `UsesProbe` (the program uses the probe as `ProbeSpec` allows),
* `NoDuplicates`, `MissesExplained`: the two safety properties,
* `FeedImplemented`: the probe, in this program, implements `OverrunFeed`: each report names a group that ran out, once and in
  order, whatever cgroup it carries.

`ProbeInv` relates the flag of a server's entry to the story of its depletion. While the depletion is owed the flag is not
cleared (`StoryInv`), after a report or a loss it is, or the record is just being written (`FillingInv`). `ArmedInv`
is the part that depends on the order of steps: a call that can exhaust the server has passed the probe
with runtime left, which has set the flag. This is why an entry taken over from a dead server does no harm:
a new server is exhausted only after such a call (`UnusedInv`: it starts neither with runtime nor throttled).

For the overrun agent, for any number of groups and events and any size of the buffer (`OverrunAgentAssumption`):

* `Invariance`, `CountsCorrect`, `NoDoublePosts`, `TypeCorrect`,
* `SavedStatistics`: `Spec => []SavedTotalIsCovered`.

`AgentInv` follows each event from the buffer into the loop's hand and the
count, and each counted one to at most one of: a post that is due, a request still under way, a request received.

The goroutine reads the total, the keys and the entries at different times, while the loop goes on. `SaveInv` gives the least that the
table will say of each container (`Entry`): what was read of it or, for a key that is still to be read, its present count.
The sum of these covers the saved total: when the total is read, because a count goes up before the total does (`Tallied`);
when the keys are listed, because a container without a key has the count 0; and afterwards no entry
gets smaller (`TableGrows`).

For renice (`ReniceAssumption`): `Invariance` and `OthersAreSafe`. `PidInv`, the PID in a handler's hand is of its
container or of nobody's who still runs, is inductive because a container is started only once under its id.

## 5. What is only model-checked

* Each safety property and each action property of the passing runs is proved as well; what remains to TLC is the following.
* All liveness, which is out of the prover's reach: `BusyIsCleared`, `SignalEnds`, `RingGetsRoom`, `EventsAreHandled`,
  `SignalEndsAgent`, `RequestsEnd`.
* That the faulty variants are caught, and the five violations: a counterexample is found by search.

## 6. What is not modelled

* `analyze_overrun.sh`, a report over a finished log; `main copy.go` and `legacy/`, older copies that are not built.
* Scripts, manifests, images: installation; the restarts they cause are actions.
* Generated code: `vmlinux.h` (the kernel's types; used are `struct sched_dl_entity`, `task_group` and
  `rt_rq.tg`) and `hcbs_overrun.skel.h` (the compiled probe as bytes, and open, load, attach and destroy, which are actions
  of `HcbsOverrun`). They have 199,033 of the 199,220 lines of C in the repository; the other two C files, the probe and
  `ebpf-co-re.c`, are modelled completely.
* The MC-Kube controller: not in the repository. Its requests are unconstrained within the bounds.
* Which CPU set is inside which other one: only equality of core strings matters to the code.
* Malformed requests, other methods and paths, `/health`, logging and printing: they change no state.

Simplifications that a reader should know: libbpf's batch is one step; a write of a 64-bit counter is one step (amd64); floats are exact.

### Weaknesses that the models show and nothing in the repository denies

* An event carries the cgroup of the current task, which need not be that of the group that ran out; the Go agent counts and
  posts for that cgroup (`CountsAreTrue` and `PostedAtMostOnce` are about what the events carry).
* Misread samples are samples to the agent: if all samples of five seconds are, `false` is sent during a busy period
  (`FalseIsSentAfterQuiet` counts from the last sample that was *reported* as busy).
* After a restart the agent does not know that the node says busy, nor, as in `cpu_stuck_busy`, after a call that failed or
  took effect late: `isCpuBusy` then stays true until another busy period has been published and is over (`Forgotten`).
* An event lost to a full buffer is not sent later: the flag is cleared (`Lose`).
* A group with a runtime of 50 ms is never reported (it is taken for the fair server). Entries of dead servers are never
  deleted, so that after 8192 addresses new ones are not tracked. `MissedIsExplained` lists both.
* Requests for one container at the same time (`rc_overlap`), and so for two of one pod, which share its files; two containers on one core of a pod: the pod is given the
  runtime of the last, so that the kernel refuses (`OkMeansExclusive`, `RefusalExplained`). The pod's CPU set is
  that of the last request.
* crictl, jq and kubectl have no timeout: a handler may hang, and the agent's kubectl processes add up.
* renice of a container that has exited answers success; a PID used again between crictl and renice is hit
  (`OnlyExitedHitsOthers` says that it is the only way to hit another process).
* A statistics file that cannot be created, or a map write during the iteration, ends the agent without statistics.

## 7. Plan

Done: every component with state, and each safety and action property of the passing runs proved. What is left:

1. `OverrunAgent` on `OverrunProbe` itself instead of the feed with its hits hidden, as a theorem about the composition.
2. That the busy period published next after a mishap is withdrawn in time: `BusyIsClearedInTime` with a premise that
   counts from the last mishap, where now it ends with the first.
