----------------------------- MODULE ProbeLease -----------------------------
(***************************************************************************)
(* What the circuit breaker promises about recovery probes, without        *)
(* deadlines, revisions or configurations.  A provider's circuit is closed *)
(* or open.  A probe that crossed the transport boundary is attached to    *)
(* its provider; at most one is.  An open circuit closes only when the     *)
(* attached probe succeeds or somebody resets the provider, and only that  *)
(* reset detaches a probe that is still running: it may then finish, but   *)
(* its outcome no longer means anything.                                   *)
(***************************************************************************)
CONSTANTS Providers, Owners

VARIABLES
    circuit,    \* circuit[p]: "CLOSED" or "OPEN"
    attached,   \* attached[p]: the probes of p whose outcome counts
    detached    \* detached[p]: the probes of p a reset cut off

vars == <<circuit, attached, detached>>

TypeOK ==
    /\ circuit \in [Providers -> {"CLOSED", "OPEN"}]
    /\ attached \in [Providers -> SUBSET Owners]
    /\ detached \in [Providers -> SUBSET Owners]

Init ==
    /\ circuit \in [Providers -> {"CLOSED", "OPEN"}]
    /\ attached = [p \in Providers |-> {}]
    /\ detached = [p \in Providers |-> {}]

\* Ordinary failures open a closed circuit.
Trip(p) ==
    /\ circuit[p] = "CLOSED"
    /\ circuit' = [circuit EXCEPT ![p] = "OPEN"]
    /\ UNCHANGED <<attached, detached>>

\* A probe crosses the transport boundary.
Start(p, g) ==
    /\ circuit[p] = "OPEN"
    /\ attached[p] = {}
    /\ attached' = [attached EXCEPT ![p] = {g}]
    /\ UNCHANGED <<circuit, detached>>

Recover(p, g) ==
    /\ g \in attached[p]
    /\ circuit[p] = "OPEN"
    /\ circuit' = [circuit EXCEPT ![p] = "CLOSED"]
    /\ attached' = [attached EXCEPT ![p] = {}]
    /\ UNCHANGED detached

\* A probe ends without recovery: failed, aborted or rolled back.
End(p, g) ==
    /\ g \in attached[p] \cup detached[p]
    /\ attached' = [attached EXCEPT ![p] = @ \ {g}]
    /\ detached' = [detached EXCEPT ![p] = @ \ {g}]
    /\ UNCHANGED circuit

Reset(p) ==
    /\ circuit' = [circuit EXCEPT ![p] = "CLOSED"]
    /\ detached' = [detached EXCEPT ![p] = @ \cup attached[p]]
    /\ attached' = [attached EXCEPT ![p] = {}]

Next ==
    \E p \in Providers :
        \/ Trip(p)
        \/ Reset(p)
        \/ \E g \in Owners : Start(p, g) \/ Recover(p, g) \/ End(p, g)

Spec == Init /\ [][Next]_vars

=============================================================================
