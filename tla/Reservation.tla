------------------------------ MODULE Reservation ------------------------------
(***************************************************************************)
(* What the resource controller promises its clients: the runtime of each  *)
(* container on each core is a register that a request sets in one atomic  *)
(* step, between its arrival and its reply.  A request that is within the  *)
(* budget is granted; one that exceeds it is refused and leaves no trace.  *)
(* A request that fails for another reason, or is in progress when the     *)
(* daemon dies, may or may not have been granted.  Only requests with one  *)
(* handler per core are in its scope.                                      *)
(***************************************************************************)
EXTENDS Integers

CONSTANTS
    Clients,        \* the parties that have one request in progress at a time
    Wants(_),       \* Wants(u): the requests client u may make
    Fits(_),        \* Fits(w): whether request w is within the budget
    Malformed(_),   \* Malformed(w): whether w is turned down unread
    Slot(_),        \* Slot(w): the register that w sets
    Value(_),       \* Value(w): the value w sets it to
    InitialRuntimes,\* the registers at the start
    NoWant          \* no request yet

VARIABLES
    reserved,  \* reserved[s]: the register s
    phase,     \* phase[u]: "none", "asked" or "granted"
    want,      \* want[u]: the request of client u
    reply      \* reply[u]: the reply to it

avars == <<reserved, phase, want, reply>>

AInit ==
    /\ reserved = InitialRuntimes
    /\ phase = [u \in Clients |-> "none"]
    /\ want = [u \in Clients |-> NoWant]
    /\ reply = [u \in Clients |-> "none"]

Ask(u) ==
    /\ phase[u] = "none"
    /\ \E w \in Wants(u) :
        /\ want' = [want EXCEPT ![u] = w]
        /\ phase' = [phase EXCEPT ![u] = IF Malformed(w) THEN "none" ELSE "asked"]
        /\ reply' = [reply EXCEPT ![u] = IF Malformed(w) THEN "bad" ELSE "none"]
    /\ UNCHANGED reserved

\* The one step in which the request takes effect.
Grant(u) ==
    /\ phase[u] = "asked"
    /\ Fits(want[u])
    /\ reserved' = [reserved EXCEPT ![Slot(want[u])] = Value(want[u])]
    /\ phase' = [phase EXCEPT ![u] = "granted"]
    /\ UNCHANGED <<want, reply>>

Confirm(u) ==
    /\ phase[u] = "granted"
    /\ phase' = [phase EXCEPT ![u] = "none"]
    /\ reply' = [reply EXCEPT ![u] = "ok"]
    /\ UNCHANGED <<reserved, want>>

\* The last write of the code may be both the grant and the confirmation.
GrantAndConfirm(u) ==
    /\ phase[u] = "asked"
    /\ Fits(want[u])
    /\ reserved' = [reserved EXCEPT ![Slot(want[u])] = Value(want[u])]
    /\ phase' = [phase EXCEPT ![u] = "none"]
    /\ reply' = [reply EXCEPT ![u] = "ok"]
    /\ UNCHANGED want

Refuse(u) ==
    /\ phase[u] = "asked"
    /\ ~Fits(want[u])
    /\ phase' = [phase EXCEPT ![u] = "none"]
    /\ reply' = [reply EXCEPT ![u] = "refused"]
    /\ UNCHANGED <<reserved, want>>

\* Something else went wrong, before or after the grant.
Fail(u) ==
    /\ phase[u] # "none"
    /\ phase' = [phase EXCEPT ![u] = "none"]
    /\ reply' = [reply EXCEPT ![u] = "failed"]
    /\ UNCHANGED <<reserved, want>>

Die ==
    /\ phase' = [u \in Clients |-> "none"]
    /\ reply' = [u \in Clients |-> IF phase[u] = "none" THEN reply[u] ELSE "lost"]
    /\ UNCHANGED <<reserved, want>>

ANext ==
    \/ Die
    \/ \E u \in Clients :
         \/ Ask(u) \/ Grant(u) \/ Confirm(u) \/ GrantAndConfirm(u)
         \/ Refuse(u) \/ Fail(u)

ASpec == AInit /\ [][ANext]_avars
================================================================================
