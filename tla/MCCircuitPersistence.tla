------------------------ MODULE MCCircuitPersistence ------------------------
(***************************************************************************)
(* Small instances of CircuitPersistence for TLC.                          *)
(***************************************************************************)
EXTENDS CircuitPersistence

CONSTANTS p1, p2, c1, c2, t1, t2

TwoProviders == {p1, p2}
TwoCallers == {c1, c2}
OneCaller == {c1}
TwoTasks == {t1, t2}
OneTask == {t1}

\* Two states of one provider may overtake each other, and a state of the other
\* provider competes with them for the slots.
TwoAndOne == [p \in TwoProviders |-> IF p = p1 THEN 2 ELSE 1]

=============================================================================
