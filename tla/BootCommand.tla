----------------------------- MODULE BootCommand -----------------------------
(***************************************************************************)
(* What the two protocol mixins promise McuBoot, whatever the transport: a *)
(* command is a remote call.  The caller issues one at a time; the device  *)
(* executes an issued command at most once, perhaps after the caller has   *)
(* given up; an answer is the device's own verdict on this command as long *)
(* as no more than Tolerance calls were left without one since the device  *)
(* was restarted.  Beyond that an answer says nothing.                     *)
(***************************************************************************)
EXTENDS Naturals

CONSTANTS MaxCalls, Tolerance

VARIABLES
    cur,       \* number of the current, or last, call
    busy,      \* it has no outcome yet
    out,       \* the outcome of the last call
    executed,  \* commands the device executed
    failed,    \* commands the device reported an error for
    faults     \* calls left without an answer since the device was restarted

vars == <<cur, busy, out, executed, failed, faults>>

Init ==
    /\ cur = 0 /\ busy = FALSE /\ out = "none"
    /\ executed = {} /\ failed = {} /\ faults = 0

Issue ==
    /\ ~busy
    /\ cur < MaxCalls
    /\ cur' = cur + 1 /\ busy' = TRUE /\ out' = "none"
    /\ UNCHANGED <<executed, failed, faults>>

\* The command could not be sent.
IssueFails ==
    /\ ~busy
    /\ cur < MaxCalls
    /\ cur' = cur + 1 /\ out' = "broken" /\ faults' = faults + 1
    /\ UNCHANGED <<busy, executed, failed>>

\* The device executes a command that was issued, once.
Execute(c) ==
    /\ c \notin executed
    /\ executed' = executed \cup {c}
    /\ failed' \in {failed, failed \cup {c}}
    /\ UNCHANGED <<cur, busy, out, faults>>

\* The data phase of an executed command fails.
FailData(c) ==
    /\ c \in executed
    /\ failed' = failed \cup {c}
    /\ UNCHANGED <<cur, busy, out, executed, faults>>

Answer(verdict) ==
    /\ busy
    /\ faults <= Tolerance =>
         /\ cur \in executed
         /\ verdict = "refused" <=> cur \in failed
    /\ busy' = FALSE /\ out' = verdict
    /\ UNCHANGED <<cur, executed, failed, faults>>

\* The caller gets no answer, because it waited in vain or, if it did so
\* before, because of what that left behind.
GiveUp ==
    /\ busy
    /\ faults' \in {faults, faults + 1} \ {0}
    /\ busy' = FALSE /\ out' = "broken"
    /\ UNCHANGED <<cur, executed, failed>>

Restart ==
    /\ ~busy
    /\ faults' = 0 /\ out' = "none"
    /\ UNCHANGED <<cur, busy, executed, failed>>

Next ==
    \/ Issue \/ IssueFails
    \/ \E c \in 1 .. cur : Execute(c) \/ FailData(c)
    \/ Answer("ok") \/ Answer("refused")
    \/ GiveUp
    \/ Restart

Spec == Init /\ [][Next]_vars

=============================================================================
