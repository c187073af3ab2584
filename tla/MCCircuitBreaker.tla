-------------------------- MODULE MCCircuitBreaker --------------------------
(***************************************************************************)
(* Small instances of CircuitBreaker for TLC.                              *)
(***************************************************************************)
EXTENDS CircuitBreaker

CONSTANTS p1, g1, g2

MCProviders == {p1}
MCOwners == {g1, g2}
OneOwner == {g1}

\* Two failures within the window open the circuit.
Default ==
    [failure_threshold |-> 2, open_duration_secs |-> 2,
     provider_cooldown_secs |-> 1, natural_probe_max_wait_secs |-> 2]

\* A hot reload that changes every deadline, and one that keeps only the natural
\* wait: both branches of update_config.
Eager ==
    [failure_threshold |-> 1, open_duration_secs |-> 1,
     provider_cooldown_secs |-> 0, natural_probe_max_wait_secs |-> 1]

TwoConfigs == {Default, Eager}

Row(state, failures, revision) ==
    [state |-> state, failure_timestamps |-> failures, open_until |-> None,
     probe_reference_at |-> None, next_probe_at |-> None,
     natural_probe_due_at |-> None, recovery_guard_until |-> None,
     state_revision |-> revision, updated_at |-> 0]

\* What an older version may have left: an interrupted half-open probe and a
\* closed circuit with one failure, neither with deadlines.
LegacyRows == {Row("HALF_OPEN", {}, 0), Row("CLOSED", {<<1, 1>>}, 0)}

=============================================================================
