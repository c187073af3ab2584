--------------------------- MODULE CircuitHealth ---------------------------
(***************************************************************************)
(* The health record the circuit breaker keeps for one provider, and what  *)
(* each breaker call does to that record while it holds the health mutex   *)
(* (src-tauri/src/shared/circuit_breaker.rs and circuit_breaker/types.rs). *)
(* Operators only: CircuitBreaker turns them into actions.                 *)
(*                                                                         *)
(* What is abstracted.  half_open_success_count is always zero and the     *)
(* last trigger error code is only shown to the user: both are left out.   *)
(* updated_at is kept in a stored row, where a row without deadlines is    *)
(* restored from it, and not in the live record, which reads it only for   *)
(* an OPEN entry without a reference (there is none, see OpenCanBeProbed   *)
(* in CircuitBreaker).  failure_timestamps is a bag: a timestamp pushed    *)
(* for the n-th time is the pair <<timestamp, n>>; its hard cap of 256     *)
(* entries, a memory limit far above every threshold, is left out.  The    *)
(* trigger in a token repeats what the generation already says: two tokens *)
(* of one provider with one generation are the same token.  Saturation of  *)
(* the 64-bit additions is out of reach of wall-clock seconds.             *)
(***************************************************************************)
EXTENDS Integers, FiniteSets

CONSTANTS
    Owners,                 \* owner_trace_id of the requests that probe
    None,                   \* Option::None
    Never,                  \* i64::MAX as a deadline
    Configs,                \* configurations the settings may hold
    FAILURE_WINDOW_SECS,
    RECOVERY_GUARD_SECS,
    PROBE_LEASE_TTL_SECS

Optional(S) == S \cup {None}

\* What the validation of the settings lets through: unsigned, two of them above 0.
CircuitBreakerConfig ==
    [failure_threshold : Nat,
     open_duration_secs : Nat \ {0},
     provider_cooldown_secs : Nat,
     natural_probe_max_wait_secs : Nat \ {0}]

ProbeLeaseState ==
    [generation : Nat,
     owner_trace_id : Owners,
     dispatched_at : Optional(Int),
     expires_at : Int]

Failures == {F \in SUBSET (Int \X Nat) : IsFiniteSet(F)}

ProviderHealth ==
    [state : {"CLOSED", "OPEN"},
     failure_timestamps : Failures,
     open_until : Optional(Int),
     cooldown_until : Optional(Int),
     probe_reference_at : Optional(Int),
     next_probe_at : Optional(Int),
     natural_probe_due_at : Optional(Int),
     recovery_guard_until : Optional(Int),
     recovery_epoch : Nat,
     state_revision : Nat,
     probe_generation : Nat,
     probe_lease : Optional(ProbeLeaseState)]

\* A row of provider_circuit_breakers as a start of the gateway reads it; rows
\* written by older versions may be HALF_OPEN and may lack the deadlines.
CircuitPersistedState ==
    [state : {"CLOSED", "OPEN", "HALF_OPEN"},
     failure_timestamps : Failures,
     open_until : Optional(Int),
     probe_reference_at : Optional(Int),
     next_probe_at : Optional(Int),
     natural_probe_due_at : Optional(Int),
     recovery_guard_until : Optional(Int),
     state_revision : Nat,
     updated_at : Int]

ASSUME ConfigsAssumption == Configs \subseteq CircuitBreakerConfig

ASSUME SecondsAssumption ==
    /\ Never \in Int
    /\ FAILURE_WINDOW_SECS \in Int
    /\ RECOVERY_GUARD_SECS \in Int
    /\ PROBE_LEASE_TTL_SECS \in Int

ASSUME NoneAssumption ==
    /\ None \notin Int
    /\ None \notin ProbeLeaseState
    /\ None \notin ProviderHealth

-----------------------------------------------------------------------------
(* Building blocks.                                                         *)

AtLeast(n, low) == IF n < low THEN low ELSE n

closed ==
    [state |-> "CLOSED",
     failure_timestamps |-> {},
     open_until |-> None,
     cooldown_until |-> None,
     probe_reference_at |-> None,
     next_probe_at |-> None,
     natural_probe_due_at |-> None,
     recovery_guard_until |-> None,
     recovery_epoch |-> 0,
     state_revision |-> 0,
     probe_generation |-> 0,
     probe_lease |-> None]

RecentFailures(failures, now) ==
    {f \in failures : f[1] > now - FAILURE_WINDOW_SECS}

effective_failure_count(e, now) ==
    Cardinality(RecentFailures(e.failure_timestamps, now))

prune_old_failures(e, now) ==
    [e EXCEPT !.failure_timestamps = RecentFailures(@, now)]

\* failure_timestamps.push(now) followed by the prune.
count_failure(e, now) ==
    LET again == {f \in e.failure_timestamps : f[1] = now}
        pushed == e.failure_timestamps \cup {<<now, Cardinality(again) + 1>>}
    IN  [e EXCEPT !.failure_timestamps = RecentFailures(pushed, now)]

bump_revision(e) ==
    LET revision == e.state_revision + 1
    IN  [e EXCEPT !.state_revision = revision,
                  !.probe_generation = AtLeast(@, revision)]

set_natural_failback_deadline(cfg, e, now) ==
    [e EXCEPT
        !.probe_reference_at = now,
        !.natural_probe_due_at =
            now + AtLeast(cfg.natural_probe_max_wait_secs, 1)]

set_open_deadlines(cfg, e, now) ==
    [set_natural_failback_deadline(cfg, e, now) EXCEPT
        !.state = "OPEN",
        !.recovery_epoch = 0,
        !.next_probe_at = now + AtLeast(cfg.provider_cooldown_secs, 0),
        !.open_until = now + AtLeast(cfg.open_duration_secs, 1),
        !.recovery_guard_until = None]

protect_open(cfg, e, now) ==
    bump_revision(
        set_open_deadlines(cfg, [e EXCEPT !.probe_lease = None], now))

\* The recovery guard lapses at its deadline; a reserved lease lapses after its
\* TTL; a dispatched lease never lapses, whatever its expires_at says.
expire_guard(e, now) ==
    IF e.recovery_guard_until # None /\ now >= e.recovery_guard_until
    THEN bump_revision([e EXCEPT !.recovery_guard_until = None])
    ELSE e

\* Fault: a lease lapses at its expiry although its request is on the wire.
expired_lease_OnTheWire(e, now) ==
    e.probe_lease # None /\ now >= e.probe_lease.expires_at

expired_lease(e, now) ==
    /\ e.probe_lease # None
    /\ e.probe_lease.dispatched_at = None
    /\ now >= e.probe_lease.expires_at

expire_runtime_state(e, now) ==
    [expire_guard(e, now) EXCEPT
        !.probe_lease = IF expired_lease(e, now) THEN None ELSE @]

lease_matches(e, token) ==
    /\ e.probe_lease # None
    /\ e.probe_lease.generation = token.generation
    /\ e.probe_lease.owner_trace_id = token.owner_trace_id

lease_dispatched(e) ==
    /\ e.probe_lease # None
    /\ e.probe_lease.dispatched_at # None

is_inert_closed_health(e) ==
    /\ e.state = "CLOSED"
    /\ e.failure_timestamps = {}
    /\ e.open_until = None
    /\ e.cooldown_until = None
    /\ e.probe_reference_at = None
    /\ e.next_probe_at = None
    /\ e.natural_probe_due_at = None
    /\ e.recovery_guard_until = None
    /\ e.recovery_epoch = 0
    /\ e.probe_lease = None

persisted_from_health(e) ==
    [state |-> e.state,
     failure_timestamps |-> e.failure_timestamps,
     open_until |-> e.open_until,
     probe_reference_at |-> e.probe_reference_at,
     next_probe_at |-> e.next_probe_at,
     natural_probe_due_at |-> e.natural_probe_due_at,
     recovery_guard_until |-> e.recovery_guard_until,
     state_revision |-> e.state_revision]

\* The deadlines of the planners count from one reference by one configuration,
\* unless a probe is barred until something else arms it again.
of_one_configuration(reference, next, due) ==
    \E cfg \in Configs :
        /\ next \in {reference + cfg.provider_cooldown_secs, Never}
        /\ due = reference + cfg.natural_probe_max_wait_secs

\* An OPEN record knows its deadlines and carries no recovery guard.
probeable(e) ==
    e.state = "OPEN" =>
        /\ e.open_until # None
        /\ e.probe_reference_at # None
        /\ e.next_probe_at # None
        /\ e.natural_probe_due_at # None
        /\ of_one_configuration(e.probe_reference_at, e.next_probe_at,
                                e.natural_probe_due_at)
        /\ e.recovery_guard_until = None

\* The row of an OPEN circuit.
of_an_open_circuit(row) ==
    /\ row.recovery_guard_until = None
    /\ \/ row.next_probe_at = None /\ row.natural_probe_due_at = None
       \/ /\ row.probe_reference_at # None
          /\ row.next_probe_at # None
          /\ row.natural_probe_due_at # None
          /\ of_one_configuration(row.probe_reference_at, row.next_probe_at,
                                  row.natural_probe_due_at)

\* The deadlines a rollback may restore: those of an OPEN record.
ready(before) ==
    /\ before.open_until \in Int
    /\ before.probe_reference_at \in Int
    /\ before.next_probe_at \in Int
    /\ before.natural_probe_due_at \in Int
    /\ of_one_configuration(before.probe_reference_at, before.next_probe_at,
                            before.natural_probe_due_at)
    /\ before.recovery_guard_until = None

-----------------------------------------------------------------------------
(* Calls that any request, the status view or the settings make.            *)

should_allow(e, now) ==
    LET cooled == [e EXCEPT !.cooldown_until =
                      IF @ # None /\ now >= @ THEN None ELSE @]
        expired == expire_runtime_state(cooled, now)
        pruned == prune_old_failures(expired, now)
        after == IF expired.state = "CLOSED" /\ pruned # expired
                 THEN bump_revision(pruned) ELSE expired
    IN  IF is_inert_closed_health(after) /\ after.state_revision = 0
        THEN None ELSE after

record_success(e, now) ==
    LET expired == expire_runtime_state(e, now)
        cleared == [expired EXCEPT !.cooldown_until = None,
                                   !.probe_reference_at = None,
                                   !.natural_probe_due_at = None]
        persisted_changed == \/ expired.failure_timestamps # {}
                             \/ expired.probe_reference_at # None
                             \/ expired.natural_probe_due_at # None
    IN  CASE expired.state = "OPEN" -> expired
          [] expired.state = "CLOSED" /\ ~persisted_changed -> cleared
          [] expired.state = "CLOSED" /\ persisted_changed ->
                bump_revision([cleared EXCEPT !.failure_timestamps = {}])

record_failure(cfg, e, now) ==
    LET expired == [expire_runtime_state(e, now) EXCEPT !.recovery_epoch = 0]
        counted == set_natural_failback_deadline(cfg,
                       count_failure(expired, now), now)
        recovery_guard_active == /\ counted.recovery_guard_until # None
                                 /\ now < counted.recovery_guard_until
    IN  IF expired.state = "OPEN"
        THEN expired
        ELSE IF \/ recovery_guard_active
                \/ effective_failure_count(counted, now) >= cfg.failure_threshold
             THEN protect_open(cfg, counted, now)
             ELSE bump_revision(counted)

trigger_cooldown(e, now, secs) ==
    [e EXCEPT !.cooldown_until =
        IF @ = None THEN now + secs ELSE AtLeast(@, now + secs)]

reset(e) ==
    bump_revision(
        [closed EXCEPT !.state_revision = e.state_revision,
                       !.probe_generation = e.probe_generation])

\* Fault: the hot reload rewrites the deadlines without raising the revision.
reconfigured_Unrevised(cfg, e, natural_timing_changed) ==
    IF e.state = "OPEN"
    THEN [e EXCEPT
            !.open_until = e.probe_reference_at + cfg.open_duration_secs,
            !.next_probe_at = e.probe_reference_at + cfg.provider_cooldown_secs,
            !.natural_probe_due_at =
                e.probe_reference_at + cfg.natural_probe_max_wait_secs]
    ELSE e

\* One entry of the loop in update_config.
reconfigured(cfg, e, natural_timing_changed) ==
    CASE e.state = "OPEN" ->
            bump_revision([e EXCEPT
                !.open_until = e.probe_reference_at + cfg.open_duration_secs,
                !.next_probe_at = e.probe_reference_at + cfg.provider_cooldown_secs,
                !.natural_probe_due_at =
                    e.probe_reference_at + cfg.natural_probe_max_wait_secs])
      [] /\ e.state = "CLOSED"
         /\ natural_timing_changed
         /\ e.probe_reference_at # None ->
            bump_revision([e EXCEPT !.natural_probe_due_at =
                    e.probe_reference_at + cfg.natural_probe_max_wait_secs])
      [] OTHER -> e

-----------------------------------------------------------------------------
(* Calls of the owner of a probe lease.                                     *)

probe_available(e, now) ==
    /\ e.state = "OPEN"
    /\ e.probe_lease = None
    /\ ~(e.next_probe_at # None /\ now < e.next_probe_at)

\* Fault: a lease takes the current generation instead of the next one.
try_acquire_probe_SameGeneration(e, owner, now) ==
    LET expired == expire_runtime_state(e, now)
    IN  IF probe_available(expired, now)
        THEN [expired EXCEPT
                !.probe_lease = [generation |-> expired.probe_generation,
                                 owner_trace_id |-> owner,
                                 dispatched_at |-> None,
                                 expires_at |-> now + PROBE_LEASE_TTL_SECS]]
        ELSE expired

try_acquire_probe(e, owner, now) ==
    LET expired == expire_runtime_state(e, now)
        generation == expired.probe_generation + 1
    IN  IF probe_available(expired, now)
        THEN [expired EXCEPT
                !.probe_generation = generation,
                !.probe_lease = [generation |-> generation,
                                 owner_trace_id |-> owner,
                                 dispatched_at |-> None,
                                 expires_at |-> now + PROBE_LEASE_TTL_SECS]]
        ELSE expired

mark_applies(e, token, now) ==
    LET expired == expire_runtime_state(e, now)
    IN  lease_matches(expired, token) /\ expired.state = "OPEN"

mark_probe_dispatched(cfg, e, token, now) ==
    LET expired == expire_runtime_state(e, now)
        lease == [expired.probe_lease EXCEPT
                     !.dispatched_at = IF @ = None THEN now ELSE @,
                     !.expires_at = now + PROBE_LEASE_TTL_SECS]
    IN  IF mark_applies(e, token, now)
        THEN bump_revision(set_open_deadlines(cfg,
                 [expired EXCEPT !.probe_lease = lease], now))
        ELSE expired

owns_dispatched_lease(e, token) == lease_matches(e, token) /\ lease_dispatched(e)

\* Fault: the rollback restores the deadlines and leaves the lease in place.
rollback_probe_dispatch_KeepingLease(e, token, before) ==
    IF owns_dispatched_lease(e, token)
    THEN bump_revision([e EXCEPT
            !.open_until = before.open_until,
            !.probe_reference_at = before.probe_reference_at,
            !.next_probe_at = before.next_probe_at,
            !.natural_probe_due_at = before.natural_probe_due_at,
            !.recovery_guard_until = before.recovery_guard_until])
    ELSE e

\* Fault: the rollback leaves the next probe where the dispatch put it.
rollback_probe_dispatch_KeepingNext(e, token, before) ==
    IF owns_dispatched_lease(e, token)
    THEN bump_revision([e EXCEPT
            !.probe_lease = None,
            !.state = "OPEN",
            !.recovery_epoch = 0,
            !.open_until = before.open_until,
            !.probe_reference_at = before.probe_reference_at,
            !.natural_probe_due_at = before.natural_probe_due_at,
            !.recovery_guard_until = before.recovery_guard_until])
    ELSE e

\* before is the snapshot mark_probe_dispatched returned.
rollback_probe_dispatch(e, token, before) ==
    IF owns_dispatched_lease(e, token)
    THEN bump_revision([e EXCEPT
            !.probe_lease = None,
            !.state = "OPEN",
            !.recovery_epoch = 0,
            !.open_until = before.open_until,
            !.probe_reference_at = before.probe_reference_at,
            !.next_probe_at = before.next_probe_at,
            !.natural_probe_due_at = before.natural_probe_due_at,
            !.recovery_guard_until = before.recovery_guard_until])
    ELSE e

record_probe_attempt_failure(e, token, now, counted_failure) ==
    IF owns_dispatched_lease(e, token)
    THEN bump_revision(
            IF counted_failure
            THEN [count_failure(e, now) EXCEPT !.recovery_epoch = 0]
            ELSE e)
    ELSE e

success_applies(e, token, now) ==
    LET expired == expire_runtime_state(e, now)
    IN  owns_dispatched_lease(expired, token) /\ expired.state = "OPEN"

complete_probe_success(e, token, now, recovery_epoch) ==
    LET expired == expire_runtime_state(e, now)
    IN  IF success_applies(e, token, now)
        THEN [bump_revision(
                [closed EXCEPT
                    !.recovery_guard_until = now + RECOVERY_GUARD_SECS,
                    !.state_revision = expired.state_revision,
                    !.probe_generation = expired.probe_generation])
              EXCEPT !.recovery_epoch = recovery_epoch]
        ELSE expired

\* Fault: a failed probe renews the deadlines and leaves the lease in place.
finish_probe_failure_KeepingLease(cfg, e, token, now, counted_failure) ==
    LET expired == expire_runtime_state(e, now)
    IN  IF owns_dispatched_lease(expired, token)
        THEN bump_revision(set_open_deadlines(cfg, expired, now))
        ELSE expired

finish_probe_failure(cfg, e, token, now, counted_failure) ==
    LET expired == expire_runtime_state(e, now)
        released == [expired EXCEPT !.probe_lease = None]
        counted == IF counted_failure THEN count_failure(released, now)
                                      ELSE released
    IN  CASE ~lease_matches(expired, token) -> expired
          [] lease_matches(expired, token) /\ ~lease_dispatched(expired) -> released
          [] owns_dispatched_lease(expired, token) ->
                bump_revision(set_open_deadlines(cfg, counted, now))

fail_closed_after_probe_persist_error(e, expected_revision) ==
    IF e.state = "OPEN" /\ e.state_revision = expected_revision
    THEN bump_revision([e EXCEPT !.next_probe_at = Never])
    ELSE e

-----------------------------------------------------------------------------
(* A start of the gateway: CircuitBreaker::new on one stored row.           *)

latest_failure(failures) ==
    CHOOSE t \in {f[1] : f \in failures} : \A f \in failures : f[1] <= t

\* Fault: the stored state is taken over without normalising it.
restored_AsStored(cfg, row) ==
    [closed EXCEPT !.state = row.state,
                   !.failure_timestamps = row.failure_timestamps,
                   !.open_until = row.open_until,
                   !.probe_reference_at = row.probe_reference_at,
                   !.next_probe_at = row.next_probe_at,
                   !.natural_probe_due_at = row.natural_probe_due_at,
                   !.recovery_guard_until = row.recovery_guard_until,
                   !.state_revision = row.state_revision,
                   !.probe_generation = row.state_revision]

restored(cfg, row) ==
    LET open == row.state # "CLOSED"
        armed == \/ open
                 \/ row.failure_timestamps # {}
                 \/ row.probe_reference_at # None
        reference == CASE row.probe_reference_at # None -> row.probe_reference_at
                       [] row.probe_reference_at = None /\ ~open
                            /\ row.failure_timestamps # {} ->
                                latest_failure(row.failure_timestamps)
                       [] OTHER -> row.updated_at
        fill(deadline, wait, needed) ==
            IF deadline = None /\ needed THEN reference + wait ELSE deadline
        health ==
            [closed EXCEPT
                !.state = IF open THEN "OPEN" ELSE "CLOSED",
                !.failure_timestamps = row.failure_timestamps,
                !.open_until = fill(row.open_until, cfg.open_duration_secs, open),
                !.probe_reference_at = IF armed THEN reference ELSE None,
                !.next_probe_at =
                    fill(row.next_probe_at, cfg.provider_cooldown_secs, open),
                !.natural_probe_due_at =
                    fill(row.natural_probe_due_at,
                         cfg.natural_probe_max_wait_secs, armed),
                !.recovery_guard_until = row.recovery_guard_until,
                !.state_revision = row.state_revision,
                !.probe_generation = row.state_revision]
        changed == \/ row.state = "HALF_OPEN"
                   \/ health.open_until # row.open_until
                   \/ health.probe_reference_at # row.probe_reference_at
                   \/ health.next_probe_at # row.next_probe_at
                   \/ health.natural_probe_due_at # row.natural_probe_due_at
    IN  CASE changed -> bump_revision(health)
          [] ~changed /\ is_inert_closed_health(health)
                /\ row.state_revision = 0 -> None
          [] OTHER -> health

=============================================================================
