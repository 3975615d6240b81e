------------------------- MODULE ControllerReservation -------------------------
(***************************************************************************)
(* The resource controller implements Reservation, for disciplined         *)
(* requests: the register of a container and a core is the container's     *)
(* runtime on it, and a request takes effect with the write of that file,  *)
(* be the container the first or the second group.                         *)
(***************************************************************************)
EXTENDS ResourceController

\* Handler h has written the container's runtime for its present request.
RuntimeWritten(h) ==
    LET r == req[h]
    IN  \/ lower[h] /\ second[h]
        \/ Target(h) = r.container
             /\ \/ pc[h] = "cpuset"
                \/ pc[h] = "period" /\ lower[h]

Reserved == [s \in Containers \X Dims |-> cg[s[1]].runtime[s[2]]]

Phase ==
    [h \in Handlers |->
        IF pc[h] = "idle" THEN "none"
        ELSE IF pc[h] \in Files /\ RuntimeWritten(h) THEN "granted" ELSE "asked"]

\* A refusal after a failed read of the pod's runtime is the fault's doing.
ReplyTo == [h \in Handlers |-> IF answer[h] = "refused" /\ blind[h] THEN "failed"
                                                                   ELSE answer[h]]

RequestsOf(h) == Requests[h]
WithinBudget(r) == ~OverBudget(r)
NotValid(r) == ~Valid(r)
SlotOf(r) == <<r.container, r.core>>

Promise == INSTANCE Reservation WITH
    Clients <- Handlers,
    Wants <- RequestsOf,
    Fits <- WithinBudget,
    Malformed <- NotValid,
    Slot <- SlotOf,
    Value <- GrantedRuntime,
    InitialRuntimes <- [s \in Containers \X Dims |-> 0],
    NoWant <- NoRequest,
    reserved <- Reserved,
    phase <- Phase,
    want <- req,
    reply <- ReplyTo

\* Each request takes effect atomically or not at all, within the budget always
\* and beyond it never, faults and crashes included.
ImplementsReservation == Promise!ASpec
================================================================================
