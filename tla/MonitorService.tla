---------------------------- MODULE MonitorService ----------------------------
(***************************************************************************)
(* What a user of one backend process is promised about monitoring, with   *)
(* neither handlers nor mutex: it is off, on, or winding down; polls begin *)
(* only while it is not off; and it is off again, or running anew, only    *)
(* when no poll is in flight.  SentinelLifecycle implements it.            *)
(***************************************************************************)
CONSTANT Pollers

VARIABLES
    phase,  \* "off", "on" or "draining"
    busy    \* the tasks with a poll in flight

vars == <<phase, busy>>

Init == phase = "off" /\ busy = {}

\* A start, a resume at boot, or the second half of a reload.
TurnOn ==
    /\ phase # "on" /\ busy = {}
    /\ phase' = "on"
    /\ UNCHANGED busy

BeginPoll(p) ==
    /\ phase # "off" /\ p \notin busy
    /\ busy' = busy \cup {p}
    /\ UNCHANGED phase

EndPoll(p) ==
    /\ p \in busy
    /\ busy' = busy \ {p}
    /\ UNCHANGED phase

BeginStop ==
    /\ phase = "on"
    /\ phase' = "draining"
    /\ UNCHANGED busy

FinishStop ==
    /\ phase = "draining" /\ busy = {}
    /\ phase' = "off"
    /\ UNCHANGED busy

Die == phase' = "off" /\ busy' = {}

Next ==
    \/ TurnOn \/ BeginStop \/ FinishStop \/ Die
    \/ \E p \in Pollers : BeginPoll(p) \/ EndPoll(p)

Spec == Init /\ [][Next]_vars
=============================================================================
