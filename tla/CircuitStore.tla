---------------------------- MODULE CircuitStore ----------------------------
(***************************************************************************)
(* What the gateway expects of the place where circuit states survive a    *)
(* restart.  States of a provider are numbered by their revision.  The     *)
(* store follows the breaker: it may skip states, it may lag, but it never *)
(* goes back and never shows a state the breaker has not been in.  A state *)
(* is promised once a caller was told that it is stored; a restart goes on *)
(* from what is stored.                                                    *)
(***************************************************************************)
EXTENDS Naturals

CONSTANT Providers

VARIABLES
    current,    \* current[p]: revision of the breaker's state of p
    stored,     \* stored[p]: revision of the stored state of p
    promised    \* promised[p]: latest revision this process was told is stored

vars == <<current, stored, promised>>

TypeOK ==
    /\ current \in [Providers -> Nat]
    /\ stored \in [Providers -> Nat]
    /\ promised \in [Providers -> Nat]

Init ==
    /\ stored \in [Providers -> Nat]
    /\ current = stored
    /\ promised = [p \in Providers |-> 0]

\* States of some providers change.
Change ==
    /\ current' \in [Providers -> Nat]
    /\ \A p \in Providers : current'[p] \in {current[p], current[p] + 1}
    /\ UNCHANGED <<stored, promised>>

\* The store catches up, with what was current now or earlier.
Store ==
    /\ stored' \in [Providers -> Nat]
    /\ \A p \in Providers : stored[p] <= stored'[p] /\ stored'[p] <= current[p]
    /\ promised' \in [Providers -> Nat]
    /\ \A p \in Providers :
          promised'[p] # promised[p] => promised'[p] <= stored'[p]
    /\ UNCHANGED current

Restart ==
    /\ current' = stored
    /\ promised' = [p \in Providers |-> 0]
    /\ UNCHANGED stored

Next == Change \/ Store \/ Restart

Spec == Init /\ [][Next]_vars

=============================================================================
