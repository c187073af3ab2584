--------------------------- MODULE CircuitBreaker ---------------------------
(***************************************************************************)
(* The in-memory circuit breaker of the gateway together with the probe    *)
(* lease guards its callers hold (shared/circuit_breaker.rs, called by     *)
(* gateway/proxy/dispatch.rs, provider_router.rs and gateway/runtime.rs).  *)
(*                                                                         *)
(* Every breaker call is one step, because it runs under the health mutex. *)
(* What is not atomic in the code is not atomic here:                      *)
(*  - a call reads the configuration before it takes the health mutex, so  *)
(*    it may run with the configuration of before the last hot reload;     *)
(*  - update_config publishes the new configuration first and rewrites the *)
(*    deadlines later, under the health mutex;                             *)
(*  - a request reads the wall clock before the call, so that a call may   *)
(*    carry a time up to MaxLag seconds old;                               *)
(*  - between the calls of one request the calls of the others run.        *)
(*                                                                         *)
(* A guard is the ProbeLeaseGuard of one request; the request's trace id   *)
(* is the guard's name.  Its phase is the state of the                     *)
(* ProviderDispatchOwnership around it: "pending" until the transport      *)
(* boundary, "committing" between mark_dispatched and the outcome of the   *)
(* durable write, "dispatched" while the request is on the wire, and       *)
(* "finished" once the guard has been completed, rolled back or abandoned. *)
(* Guards that stay stale do nothing more, so they need no other phase.    *)
(***************************************************************************)
EXTENDS CircuitHealth

CONSTANTS
    Providers,      \* provider ids (positive ones: the others are never stored)
    Rows,           \* what a stored provider row may look like at start
    Cooldowns,      \* seconds asked for by trigger_cooldown
    MaxClock,       \* bound: the wall clock stops here
    MaxLag,         \* bound: age of the time a call carries
    StaleReads,     \* bound: whether a call may straddle a hot reload
    MaxRevision     \* bound: calls that raise a revision or a generation
                    \* stop here; the calls that end a guard never do

ASSUME CircuitAssumption ==
    /\ Rows \subseteq CircuitPersistedState
    /\ Cooldowns \subseteq Int
    /\ MaxClock \in Int
    /\ MaxLag \in Int
    /\ StaleReads \in BOOLEAN
    /\ MaxRevision \in Int

\* Stored rows respect what the code stores.  An OPEN row carries no recovery guard,
\* because every step to OPEN removes it, and the deadlines of the planners, which
\* are younger than the table, are all missing or as OpenCanBeProbed has them.
ASSUME RowsAssumption ==
    \A row \in Rows : row.state # "CLOSED" => of_an_open_circuit(row)

VARIABLES
    clock,                  \* wall clock, in seconds
    config,                 \* the published configuration
    old_config,             \* what a call in progress may still have read
    reload,                 \* update_config between its two critical sections
    health,                 \* HashMap<provider id, ProviderHealth>
    global_recovery_epoch,
    guards                  \* the live ProbeLeaseGuard of each request

settings == <<config, old_config, reload>>
vars == <<clock, settings, health, global_recovery_epoch, guards>>

-----------------------------------------------------------------------------

Deadlines ==
    [open_until : Optional(Int),
     probe_reference_at : Optional(Int),
     next_probe_at : Optional(Int),
     natural_probe_due_at : Optional(Int),
     recovery_guard_until : Optional(Int)]

\* before: the snapshot kept for a rollback while committing.
\* failed_revision: the revision of a counted end of the probe, while the caller
\* still has to persist it.
ProbeLeaseGuard ==
    [provider_id : Providers,
     generation : Nat,
     owner_trace_id : Owners,
     phase : {"pending", "committing", "dispatched", "finished"},
     before : Optional(Deadlines),
     failed_revision : Optional(Nat)]

ASSUME NoGuardAssumption == None \notin ProbeLeaseGuard

deadlines_of(e) ==
    [open_until |-> e.open_until,
     probe_reference_at |-> e.probe_reference_at,
     next_probe_at |-> e.next_probe_at,
     natural_probe_due_at |-> e.natural_probe_due_at,
     recovery_guard_until |-> e.recovery_guard_until]

Reload == [from : Configs]

ASSUME NoReloadAssumption == None \notin Reload

TypeOK ==
    /\ clock \in Int
    /\ config \in Configs
    /\ old_config \in Configs
    /\ reload \in Optional(Reload)
    /\ health \in [Providers -> Optional(ProviderHealth)]
    /\ global_recovery_epoch \in Nat
    /\ guards \in [Owners -> Optional(ProbeLeaseGuard)]

Init ==
    /\ clock = 1
    /\ config \in Configs
    /\ old_config = config
    /\ reload = None
    /\ health \in [Providers -> {None} \cup {restored(config, row) : row \in Rows}]
    /\ global_recovery_epoch = 0
    /\ guards = [g \in Owners |-> None]

-----------------------------------------------------------------------------
(* The time and the configuration a call carries, and the bounds.           *)

CallTimes == {t \in (clock - MaxLag) .. clock : t > 0}

ReadConfigs == IF StaleReads THEN {config, old_config} ELSE {config}

Known(p) == health[p] # None

\* A call raises a revision at most twice (the recovery guard lapses, then the
\* call's own change); a generation is never below the revision.
Bounded(p) == Known(p) => health[p].probe_generation + 2 <= MaxRevision

Put(p, e) == health' = [health EXCEPT ![p] = e]

Tick ==
    /\ clock < MaxClock
    /\ clock' = clock + 1
    /\ UNCHANGED <<settings, health, global_recovery_epoch, guards>>

-----------------------------------------------------------------------------
(* Calls without a lease.                                                   *)

Snapshot(p) ==
    \E now \in CallTimes :
        /\ Known(p)
        /\ Put(p, expire_runtime_state(health[p], now))
        /\ UNCHANGED <<clock, settings, global_recovery_epoch, guards>>

ShouldAllow(p) ==
    \E now \in CallTimes :
        /\ Known(p)
        /\ Put(p, should_allow(health[p], now))
        /\ UNCHANGED <<clock, settings, global_recovery_epoch, guards>>

RecordSuccess(p) ==
    \E now \in CallTimes :
        /\ Known(p)
        /\ Bounded(p)
        /\ Put(p, record_success(health[p], now))
        /\ UNCHANGED <<clock, settings, global_recovery_epoch, guards>>

RecordFailure(p) ==
    \E now \in CallTimes, cfg \in ReadConfigs :
        /\ Bounded(p)
        /\ Put(p, record_failure(cfg, IF Known(p) THEN health[p] ELSE closed, now))
        /\ UNCHANGED <<clock, settings, global_recovery_epoch, guards>>

TriggerCooldown(p) ==
    \E now \in CallTimes, secs \in {s \in Cooldowns : s > 0} :
        /\ Put(p, trigger_cooldown(IF Known(p) THEN health[p] ELSE closed,
                                   now, secs))
        /\ UNCHANGED <<clock, settings, global_recovery_epoch, guards>>

\* An operator's reset holds the gateway manager's mutex, like a hot reload.
Reset(p) ==
    /\ reload = None
    /\ Known(p)
    /\ Bounded(p)
    /\ Put(p, reset(health[p]))
    /\ UNCHANGED <<clock, settings, global_recovery_epoch, guards>>

-----------------------------------------------------------------------------
(* update_config: one caller at a time (the gateway manager's mutex).        *)

PublishConfig ==
    /\ reload = None
    /\ \E cfg \in Configs \ {config} :
        /\ config' = cfg
        /\ old_config' = config
        /\ reload' = [from |-> config]
    /\ UNCHANGED <<clock, health, global_recovery_epoch, guards>>

open_timing_changed(old, new) ==
    \/ old.open_duration_secs # new.open_duration_secs
    \/ old.provider_cooldown_secs # new.provider_cooldown_secs

natural_timing_changed(old, new) ==
    old.natural_probe_max_wait_secs # new.natural_probe_max_wait_secs

RewriteDeadlines ==
    /\ reload # None
    /\ \A p \in Providers : Bounded(p)
    /\ LET natural == natural_timing_changed(reload.from, config)
           rewrite == natural \/ open_timing_changed(reload.from, config)
       IN  health' = [p \in Providers |->
                        IF rewrite /\ Known(p)
                        THEN reconfigured(config, health[p], natural)
                        ELSE health[p]]
    /\ reload' = None
    /\ UNCHANGED <<clock, config, old_config, global_recovery_epoch, guards>>

-----------------------------------------------------------------------------
(* The life of a probe lease guard.                                         *)

Holds(g, phases) == guards[g] # None /\ guards[g].phase \in phases

Entry(g) == health[guards[g].provider_id]

HasEntry(g) == Entry(g) # None

SetPhase(g, phase) == guards' = [guards EXCEPT ![g].phase = phase]

\* gate_provider with a probe trigger, then the guard around the token.
AcquireProbe(g, p) ==
    \E now \in CallTimes :
        /\ guards[g] = None
        /\ Known(p)
        /\ Bounded(p)
        /\ LET after == try_acquire_probe(health[p], g, now)
               acquired == probe_available(expire_runtime_state(health[p], now), now)
           IN  /\ Put(p, after)
               /\ guards' = [guards EXCEPT ![g] =
                      IF acquired
                      THEN [provider_id |-> p,
                            generation |-> after.probe_generation,
                            owner_trace_id |-> g,
                            phase |-> "pending",
                            before |-> None,
                            failed_revision |-> None]
                      ELSE None]
        /\ UNCHANGED <<clock, settings, global_recovery_epoch>>

\* The transport boundary.  A stale token leaves the guard to be dropped.
MarkDispatched(g) ==
    \E now \in CallTimes, cfg \in ReadConfigs :
        /\ Holds(g, {"pending"})
        /\ HasEntry(g)
        /\ Put(guards[g].provider_id,
               mark_probe_dispatched(cfg, Entry(g), guards[g], now))
        /\ guards' =
               IF mark_applies(Entry(g), guards[g], now)
               THEN [guards EXCEPT
                        ![g].phase = "committing",
                        ![g].before =
                            deadlines_of(expire_runtime_state(Entry(g), now))]
               ELSE guards
        /\ UNCHANGED <<clock, settings, global_recovery_epoch>>

\* The dispatch is durable and the lease is still this request's.
CommitDispatch(g) ==
    /\ Holds(g, {"committing"})
    /\ HasEntry(g)
    /\ owns_dispatched_lease(Entry(g), guards[g])
    /\ guards' = [guards EXCEPT ![g].phase = "dispatched", ![g].before = None]
    /\ UNCHANGED <<clock, settings, health, global_recovery_epoch>>

\* The durable write failed, or the lease was lost while it ran.
RollbackDispatched(g) ==
    /\ Holds(g, {"committing"})
    /\ HasEntry(g)
    /\ Put(guards[g].provider_id,
           rollback_probe_dispatch(Entry(g), guards[g], guards[g].before))
    /\ guards' = [guards EXCEPT ![g].phase = "finished", ![g].before = None]
    /\ UNCHANGED <<clock, settings, global_recovery_epoch>>

\* A failed attempt that the same provider's retry chain goes on from.
RecordAttemptFailure(g) ==
    \E now \in CallTimes, counted \in BOOLEAN :
        /\ Holds(g, {"dispatched"})
        /\ HasEntry(g)
        /\ Bounded(guards[g].provider_id)
        /\ Put(guards[g].provider_id,
               record_probe_attempt_failure(Entry(g), guards[g], now, counted))
        /\ UNCHANGED <<clock, settings, global_recovery_epoch, guards>>

CompleteSuccess(g) ==
    \E now \in CallTimes :
        /\ Holds(g, {"dispatched"})
        /\ HasEntry(g)
        /\ LET epoch == global_recovery_epoch + 1 IN
            /\ Put(guards[g].provider_id,
                   complete_probe_success(Entry(g), guards[g], now, epoch))
            /\ global_recovery_epoch' =
                   IF success_applies(Entry(g), guards[g], now)
                   THEN epoch ELSE global_recovery_epoch
        /\ SetPhase(g, "finished")
        /\ UNCHANGED <<clock, settings>>

\* complete_failure of a dispatched probe, with a counted failure or (a drop, a
\* client abort) without.  The caller still has to persist an applied one.
CompleteFailure(g) ==
    \E now \in CallTimes, cfg \in ReadConfigs, counted \in BOOLEAN :
        /\ Holds(g, {"dispatched"})
        /\ HasEntry(g)
        /\ LET after == finish_probe_failure(cfg, Entry(g), guards[g], now, counted)
               applied == lease_matches(expire_runtime_state(Entry(g), now), guards[g])
           IN  /\ Put(guards[g].provider_id, after)
               /\ guards' = [guards EXCEPT
                      ![g].phase = "finished",
                      ![g].failed_revision =
                          IF applied THEN after.state_revision ELSE None]
        /\ UNCHANGED <<clock, settings, global_recovery_epoch>>

\* abandon of a probe that never crossed the transport boundary.
Abandon(g) ==
    \E now \in CallTimes, cfg \in ReadConfigs :
        /\ Holds(g, {"pending"})
        /\ HasEntry(g)
        /\ Put(guards[g].provider_id,
               finish_probe_failure(cfg, Entry(g), guards[g], now, FALSE))
        /\ SetPhase(g, "finished")
        /\ UNCHANGED <<clock, settings, global_recovery_epoch>>

\* The durable write of a failed probe failed.
FailClosed(g) ==
    /\ Holds(g, {"finished"})
    /\ guards[g].failed_revision # None
    /\ HasEntry(g)
    /\ Bounded(guards[g].provider_id)
    /\ Put(guards[g].provider_id,
           fail_closed_after_probe_persist_error(Entry(g),
                                                 guards[g].failed_revision))
    /\ guards' = [guards EXCEPT ![g].failed_revision = None]
    /\ UNCHANGED <<clock, settings, global_recovery_epoch>>

\* The last reference to a finished guard goes away.
DropGuard(g) ==
    /\ Holds(g, {"finished"})
    /\ guards' = [guards EXCEPT ![g] = None]
    /\ UNCHANGED <<clock, settings, health, global_recovery_epoch>>

-----------------------------------------------------------------------------

ProviderStep(p) ==
    \/ Snapshot(p)
    \/ ShouldAllow(p)
    \/ RecordSuccess(p)
    \/ RecordFailure(p)
    \/ TriggerCooldown(p)
    \/ Reset(p)

GuardStep(g) ==
    \/ \E p \in Providers : AcquireProbe(g, p)
    \/ MarkDispatched(g)
    \/ CommitDispatch(g)
    \/ RollbackDispatched(g)
    \/ RecordAttemptFailure(g)
    \/ CompleteSuccess(g)
    \/ CompleteFailure(g)
    \/ Abandon(g)
    \/ FailClosed(g)
    \/ DropGuard(g)

Next ==
    \/ Tick
    \/ \E p \in Providers : ProviderStep(p)
    \/ PublishConfig
    \/ RewriteDeadlines
    \/ \E g \in Owners : GuardStep(g)

Spec == Init /\ [][Next]_vars

-----------------------------------------------------------------------------
(* Safety.                                                                  *)

Leased(p) == Known(p) /\ health[p].probe_lease # None

InFlight(g) == Holds(g, {"committing", "dispatched"})

\* A lease is only ever attached to an OPEN circuit, and it belongs to a guard
\* that will end it: same provider, same generation, not finished, and on the
\* same side of the transport boundary as the lease.  A dispatched lease has no
\* expiry (expire_runtime_state), so one without such a guard would keep its
\* provider out of rotation until an operator resets it.
LeaseHasLiveGuard ==
    \A p \in Providers : Leased(p) =>
        LET lease == health[p].probe_lease
            g == lease.owner_trace_id
        IN  /\ health[p].state = "OPEN"
            /\ guards[g] # None
            /\ guards[g].provider_id = p
            /\ guards[g].generation = lease.generation
            /\ guards[g].phase # "finished"
            /\ InFlight(g) <=> lease.dispatched_at # None

\* Two guards of one provider never carry the same generation, however many
\* leases lapsed, were reset or were recovered between them: a late request can
\* not speak for a later lease.  The entry a guard refers to never goes away
\* either (should_allow removes entries), so its generation counter does not
\* start again.
TokensAreUnique ==
    \A g \in Owners : guards[g] # None =>
        /\ HasEntry(g)
        /\ guards[g].generation <= Entry(g).probe_generation
        /\ \A h \in Owners \ {g} :
              /\ guards[h] # None
              /\ guards[h].provider_id = guards[g].provider_id
              => guards[h].generation # guards[g].generation

\* An OPEN circuit always knows when it may be probed again and when the
\* planners become due, through every rollback, hot reload, failed write and
\* restart: both deadlines count from the same reference by the same
\* configuration, though calls with an old one meet the rewrite of the deadlines
\* and rollbacks put copies of them back.  Only a failed write moves the next probe,
\* out of reach.  And the recovery guard, which turns a single failure into an OPEN
\* circuit, is only set while the circuit is CLOSED.
OpenCanBeProbed ==
    \A p \in Providers : Known(p) => probeable(health[p])

\* What the three invariants above rest on.  The entry of a guard is OPEN or has
\* been stored, so should_allow can not remove it.
GuardsHoldEntries ==
    \A g \in Owners : guards[g] # None =>
        /\ guards[g].owner_trace_id = g
        /\ HasEntry(g)
        /\ Entry(g).state = "OPEN" \/ Entry(g).state_revision > 0

\* A rollback can only restore the deadlines of an OPEN circuit.
RollbackIsReady ==
    \A g \in Owners :
        Holds(g, {"committing"}) => ready(guards[g].before)

SafetyInvariant ==
    /\ TypeOK
    /\ OpenCanBeProbed
    /\ LeaseHasLiveGuard
    /\ TokensAreUnique
    /\ GuardsHoldEntries
    /\ RollbackIsReady

\* The writer and the database order the states of a provider by revision alone,
\* so a step that changes what is stored must raise the revision, and no step
\* may lower it.  An entry that was removed is a CLOSED one of revision 0.
stored(h, p) == persisted_from_health(IF h[p] = None THEN closed ELSE h[p])

RevisionOrdersStoredStates ==
    [][\A p \in Providers :
          stored(health, p)' # stored(health, p) =>
              stored(health, p).state_revision
                < stored(health, p)'.state_revision]_vars

-----------------------------------------------------------------------------
(* The abstract specification of recovery probes.                           *)

probes_of(p, owned) ==
    {g \in Owners : /\ InFlight(g)
                    /\ guards[g].provider_id = p
                    /\ owned <=> Known(p) /\ lease_matches(health[p], guards[g])}

Lease == INSTANCE ProbeLease WITH
    circuit <- [p \in Providers |-> IF Known(p) THEN health[p].state ELSE "CLOSED"],
    attached <- [p \in Providers |-> probes_of(p, TRUE)],
    detached <- [p \in Providers |-> probes_of(p, FALSE)]

\* Single flight: a second probe of a provider crosses the transport boundary
\* only after the first one ended or a reset disowned it, and only the outcome
\* of the attached probe closes the circuit.
ImplementsProbeLease == Lease!Spec

-----------------------------------------------------------------------------
(* What the contract of the route planners says of the natural deadline: a      *)
(* change of natural_probe_max_wait_secs recomputes it from the reference.      *)

\* Between two hot reloads the natural deadline of every provider is the one the
\* published configuration gives it.
NaturalDeadlineIsCurrent ==
    reload = None =>
        \A p \in Providers : Known(p) /\ health[p].natural_probe_due_at # None =>
            health[p].natural_probe_due_at =
                health[p].probe_reference_at
                    + AtLeast(config.natural_probe_max_wait_secs, 1)

-----------------------------------------------------------------------------
(* Liveness.                                                                *)

FinishGuard(g) ==
    \/ MarkDispatched(g)
    \/ CommitDispatch(g)
    \/ RollbackDispatched(g)
    \/ CompleteSuccess(g)
    \/ CompleteFailure(g)
    \/ Abandon(g)

\* A request that holds a guard is polled to its end or dropped, and both end
\* the guard (ProbeLeaseGuardInner::drop).  Nothing else is fair.
FairSpec == Spec /\ \A g \in Owners : WF_vars(FinishGuard(g))

\* No lease is held for ever, although a dispatched one never expires.
LeaseIsReleased ==
    \A p \in Providers : Leased(p) ~> ~Leased(p)

=============================================================================
