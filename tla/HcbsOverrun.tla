------------------------------- MODULE HcbsOverrun -----------------------------
(***************************************************************************)
(* The program src/ebpf/ebpf-co-re.c: it loads and attaches the probe,     *)
(* polls the ring buffer with a timeout of 200 ms, prints each event, and  *)
(* stops on SIGINT or SIGTERM, whose handler only sets a flag.  The probe  *)
(* and the kernel (OverrunProbe) run beside it.                            *)
(***************************************************************************)
EXTENDS OverrunProbe

VARIABLES
    step,      \* where main is; "done": the process has ended
    stop       \* the flag set by on_sigint

vars == <<probeVars, step, stop>>

TypeOK ==
    /\ ProbeTypeOK
    /\ step \in {"open", "load", "attach", "ring", "check", "poll", "out", "done"}
    /\ stop \in BOOLEAN

Init == ProbeInit /\ step = "open" /\ stop = FALSE

GoTo(from, to) == step = from /\ step' = to

\* hcbs_overrun_bpf__open succeeds, or main returns.
Open ==
    /\ GoTo("open", "load") \/ GoTo("open", "done")
    /\ UNCHANGED <<probeVars, stop>>

\* hcbs_overrun_bpf__load succeeds, or main goes to out.
Load ==
    /\ GoTo("load", "attach") \/ GoTo("load", "out")
    /\ UNCHANGED <<probeVars, stop>>

\* hcbs_overrun_bpf__attach succeeds, or main goes to out.
AttachProbe ==
    /\ \/ GoTo("attach", "ring") /\ Attach
       \/ GoTo("attach", "out") /\ UNCHANGED probeVars
    /\ UNCHANGED stop

\* ring_buffer__new succeeds, or main goes to out.
NewRing ==
    /\ GoTo("ring", "check") \/ GoTo("ring", "out")
    /\ UNCHANGED <<probeVars, stop>>

\* The condition of the loop.
Check ==
    /\ IF stop THEN GoTo("check", "out") ELSE GoTo("check", "poll")
    /\ UNCHANGED <<probeVars, stop>>

\* Faulty variant of PollEvents: a full buffer is taken for an empty one.
PollEventsNotFull ==
    /\ GoTo("poll", "check")
    /\ Len(events) < RingSize
    /\ \E n \in 1..Len(events) :
          /\ TakeReady(n)
          /\ n < Len(events) => ~events[n + 1].ready
    /\ UNCHANGED stop

\* ring_buffer__poll hands all the events that are ready to handle_event, up to the
\* first that is still being written.
PollEvents ==
    /\ GoTo("poll", "check")
    /\ \E n \in 1..Len(events) :
          /\ TakeReady(n)
          /\ n < Len(events) => ~events[n + 1].ready
    /\ UNCHANGED stop

\* Faulty variant of PollTimeout: ring_buffer__poll waits for events for ever.
PollNoTimeout == FALSE /\ UNCHANGED vars

\* ring_buffer__poll returns 0 after 200 ms without events.
PollTimeout ==
    /\ GoTo("poll", "check")
    /\ events # <<>> => ~Head(events).ready
    /\ UNCHANGED <<probeVars, stop>>

\* ring_buffer__poll returns an error.
PollError ==
    /\ GoTo("poll", "out")
    /\ UNCHANGED <<probeVars, stop>>

\* A signal sets the flag.  In ring_buffer__poll it also ends the wait with -EINTR, unless
\* it arrives after the flag was read and before the wait begins.
Signal ==
    /\ step # "done" /\ ~stop
    /\ stop' = TRUE
    /\ UNCHANGED step \/ GoTo("poll", "out")
    /\ UNCHANGED probeVars

\* ring_buffer__free and hcbs_overrun_bpf__destroy, which detaches the probe.
Cleanup ==
    /\ GoTo("out", "done")
    /\ Detach
    /\ UNCHANGED stop

\* The program is run again.
Rerun ==
    /\ GoTo("done", "open")
    /\ stop' = FALSE
    /\ UNCHANGED probeVars

Main ==
    \/ Open \/ Load \/ AttachProbe \/ NewRing
    \/ Check \/ PollEvents \/ PollTimeout \/ PollError
    \/ Cleanup

Next ==
    \/ KernelNext /\ UNCHANGED <<step, stop>>
    \/ Main
    \/ Signal
    \/ Rerun

\* The program runs on; the kernel finishes the calls that have entered the probe.
Fairness ==
    /\ WF_vars(Open) /\ WF_vars(Load) /\ WF_vars(AttachProbe) /\ WF_vars(NewRing)
    /\ WF_vars(Check) /\ WF_vars(PollEvents) /\ WF_vars(PollTimeout) /\ WF_vars(Cleanup)
    /\ \A s \in Servers : WF_vars(Submit(s) /\ UNCHANGED <<step, stop>>)

Spec == Init /\ [][Next]_vars
FairSpec == Spec /\ Fairness

\* A signal ends the program, also one that arrives between the test of the flag and the wait.
SignalEnds == stop ~> step = "done"

\* While the program runs, the ring buffer does not stay full: losses come to an end.
RingGetsRoom == Len(events) = RingSize ~> Len(events) < RingSize
================================================================================
