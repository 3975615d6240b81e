------------------------------- MODULE BusySignal -------------------------------
(***************************************************************************)
(* What the node's CPU agent promises to who reads isCpuBusy, as long as   *)
(* nothing fails: a signal with hysteresis.  It goes up soon after a busy  *)
(* sample, stays up while the load goes down and up again, and goes down   *)
(* only when no sample has been busy for a while, but then soon.           *)
(***************************************************************************)
EXTENDS Integers

CONSTANTS
    HoldSeconds,  \* the signal stays up at least so long after the last busy sample
    Lag,          \* seconds that the signal may take to go up
    Latest,       \* the signal stays up at most so long after the last busy sample
    MaxQuiet      \* bound: seconds that are counted

VARIABLES
    phase,   \* "idle"; "busy": since a busy sample; "cooling": a drop has been noted
    signal,  \* isCpuBusy, as the node shows it: "none", "true" or "false"
    quiet    \* seconds since the last busy sample

signalVars == <<phase, signal, quiet>>

SignalInit == phase = "idle" /\ signal = "none" /\ quiet = MaxQuiet

\* Time passes, but not beyond the second in which the signal has to follow.
Wait ==
    /\ quiet < MaxQuiet /\ quiet' = quiet + 1
    /\ phase = "busy" /\ signal # "true" => quiet < Lag
    /\ signal = "true" => quiet < Latest
    /\ UNCHANGED <<phase, signal>>

\* A busy sample, in any phase: it ends the cooling.
BusySample == quiet' = 0 /\ phase' = "busy" /\ UNCHANGED signal

Raise == phase = "busy" /\ quiet <= Lag /\ signal' = "true" /\ UNCHANGED <<phase, quiet>>

Drop ==
    /\ phase = "busy" /\ signal = "true" /\ quiet > 0
    /\ phase' = "cooling" /\ UNCHANGED <<signal, quiet>>

Clear ==
    /\ phase = "cooling" /\ quiet >= HoldSeconds
    /\ phase' = "idle" /\ signal' = "false" /\ UNCHANGED quiet

SignalNext == Wait \/ BusySample \/ Raise \/ Drop \/ Clear

SignalSpec == SignalInit /\ [][SignalNext]_signalVars
=================================================================================
