----------------------------- MODULE AccountUsage -----------------------------
(***************************************************************************)
(* The account-usage runtime (app/provider_account_usage_runtime.rs): one   *)
(* entry per provider with its leases, its fetch in flight and the force    *)
(* epochs of manual refreshes; the scheduler; the route entries that the    *)
(* failover gate reads; and its callers: the commands of the window         *)
(* (commands/providers/account_usage.rs), the coordinator of the gateway    *)
(* (gateway/background_tasks.rs), saves and deletions of a provider         *)
(* (app/provider_service.rs) and the import of a configuration              *)
(* (commands/config_migrate.rs).                                            *)
(*                                                                          *)
(* Everything the runtime does under its mutex is one step; what a caller   *)
(* read from the database before it is a step of its own, and so is the     *)
(* configuration a fetch reads for itself.  A target is its config token,   *)
(* which does not tell two API keys apart; db[p].version does.  A deleted   *)
(* id is never given out again.                                             *)
(*                                                                          *)
(* There is no clock: a lease lapses at any time, and an entry is due       *)
(* whenever nothing is in flight for it, which allows more than the         *)
(* intervals do (entry_is_due only chooses among these moments).  A         *)
(* snapshot is replaced together with the generation of its entry, so the   *)
(* generation the code keeps in it is left out; so are the lease of a route *)
(* entry, which hides the entry from the gate, and the recovery epochs.     *)
(***************************************************************************)
EXTENDS Naturals, FiniteSets

CONSTANTS
    Providers,
    Tokens,                 \* config tokens
    Gated,                  \* those of targets with the route gate on
    Stored,                 \* providers that exist at first
    Calls,                  \* calls of the window, each made once
    MAX_CONCURRENT_PROVIDER_FETCHES,
    MaxChanges,             \* bound: saves, deletions and imports
    None

ASSUME AccountUsageAssumption ==
    /\ Gated \subseteq Tokens
    /\ Stored \subseteq Providers
    /\ MAX_CONCURRENT_PROVIDER_FETCHES \in Nat \ {0}
    /\ MaxChanges \in Nat
    /\ None \notin Nat \cup Tokens

VARIABLES
    changes,
    db,                 \* db[p]: the stored provider
    saving,             \* changed in the database, not yet invalidated
    importing,          \* an import is committed, reset_all is to come
    entries,            \* entries[p]: the entry of the runtime, or None
    scheduler_running,
    schedulers,         \* scheduler tasks alive
    route_entries,      \* route_entries[p]: what the failover gate reads, or None
    fetches,            \* fetches under way, each with its permit
    coordinator,
    calls,
    life,               \* history: reset_all calls so far
    crossed             \* history: providers that took a completion of an earlier life

stored == <<changes, db, saving, importing>>
runtime == <<entries, scheduler_running, schedulers, route_entries>>
vars == <<stored, runtime, fetches, coordinator, calls, life, crossed>>

\* What a fetch ended with: the version of the configuration it judged, or None
\* when it failed.  calls: the refreshes that waited when it was dispatched (history).
Snapshot == [version : Nat \cup {None}, calls : SUBSET Calls]

\* No deadline, one to come, one that has passed and was not yet removed.
Leases == {"none", "live", "lapsed"}

\* 0 where the code has None for a generation in flight or an epoch.
Entry ==
    [token : Tokens \cup {None}, snapshot : Snapshot \cup {None}, desktop : Leases,
     gateway : Leases, generation : Nat, in_flight : Nat, pending_force : Nat,
     in_flight_force : Nat, next_force : Nat, completed_force : Nat]

DefaultEntry ==
    [token |-> None, snapshot |-> None, desktop |-> "none", gateway |-> "none",
     generation |-> 0, in_flight |-> 0, pending_force |-> 0, in_flight_force |-> 0,
     next_force |-> 0, completed_force |-> 0]

RouteEntry == [token : Gated, generation : Nat, snapshot : Snapshot \cup {None}]

NewRouteEntry(token, generation) ==
    [token |-> token, generation |-> generation, snapshot |-> None]

Fetch ==
    [provider : Providers, generation : Nat, epoch : Nat, life : Nat,
     version : Nat \cup {None}, calls : SUBSET Calls]

ASSUME NoneAssumption == None \notin Snapshot \cup Entry \cup RouteEntry

NewCall ==
    [place |-> "new", provider |-> None, token |-> None,
     generation |-> 0, wanted |-> 0, life |-> 0, woken |-> FALSE, answer |-> None]

Idle == [place |-> "idle", targets |-> [p \in Providers |-> None], removed |-> {}]
Off == [Idle EXCEPT !.place = "off"]

------------------------------------------------------------------------------
(* The entry of a provider.                                                *)

EntryOf(p) == IF entries[p] = None THEN DefaultEntry ELSE entries[p]

\* sync_target
Synced(e, token) ==
    IF e.token = token THEN e
    ELSE [e EXCEPT !.generation = @ + 1, !.token = token, !.snapshot = None,
                   !.pending_force = 0]

\* entry_has_active_consumer
HasActiveConsumer(e) ==
    /\ e # None
    /\ e.token # None
    /\ e.pending_force > 0 \/ e.in_flight_force > 0 \/ "live" \in {e.desktop, e.gateway}

\* expire_leases
Expired(e) ==
    IF e = None THEN None
    ELSE [e EXCEPT !.desktop = IF @ = "live" THEN @ ELSE "none",
                   !.gateway = IF @ = "live" THEN @ ELSE "none"]

\* Fault: every caller with a consumer spawns one.
StartSchedulerIfNeeded_Always ==
    IF \E p \in Providers : HasActiveConsumer(entries'[p])
    THEN scheduler_running' = TRUE /\ schedulers' = schedulers + 1
    ELSE UNCHANGED <<scheduler_running, schedulers>>

\* start_scheduler_if_needed on the new entries, and spawn_scheduler.
StartSchedulerIfNeeded ==
    IF ~scheduler_running /\ \E p \in Providers : HasActiveConsumer(entries'[p])
    THEN scheduler_running' = TRUE /\ schedulers' = schedulers + 1
    ELSE UNCHANGED <<scheduler_running, schedulers>>

\* sync_route_target on a table of route entries.
RouteSynced(table, p, token, generation) ==
    [table EXCEPT ![p] =
        IF token \notin Gated THEN None
        ELSE IF @ = None \/ @.token # token \/ @.generation # generation
        THEN NewRouteEntry(token, generation)
        ELSE @]

\* publish_completion wakes the refreshes that wait for p.
Wake(c, p) ==
    IF calls[c].place = "waiting" /\ calls[c].provider = p
    THEN [calls[c] EXCEPT !.woken = TRUE] ELSE calls[c]

WakeWaiters(P) ==
    [c \in Calls |-> IF calls[c].provider \in P THEN Wake(c, calls[c].provider) ELSE calls[c]]

\* Fault: a replaced target tells nobody.
Republished_Never(p, token) == {}

\* The providers whose waiters sync_target wakes.
Republished(p, token) == IF EntryOf(p).token = token THEN {} ELSE {p}

\* Fault: the fetch of the old target is forgotten while it is under way.
Invalidated_ForgetsFetch(e) ==
    [e EXCEPT !.generation = @ + 1, !.token = None, !.snapshot = None, !.in_flight = 0,
              !.desktop = "none", !.gateway = "none", !.pending_force = 0]

Invalidated(e) ==
    [e EXCEPT !.generation = @ + 1, !.token = None, !.snapshot = None,
              !.desktop = "none", !.gateway = "none", !.pending_force = 0]

\* Fault: a changed API key leaves the route entry, its token being the same.
Invalidate_RouteStays(p) ==
    /\ entries' = [entries EXCEPT ![p] = IF @ = None THEN None ELSE Invalidated(@)]
    /\ UNCHANGED <<route_entries, scheduler_running, schedulers>>

\* invalidate, but for the wake of the waiters.
Invalidate(p) ==
    /\ entries' = [entries EXCEPT ![p] = IF @ = None THEN None ELSE Invalidated(@)]
    /\ route_entries' = [route_entries EXCEPT ![p] = None]
    /\ UNCHANGED <<scheduler_running, schedulers>>

------------------------------------------------------------------------------
(* The database and those who change it.                                   *)

Init ==
    /\ changes = 0
    /\ db \in {d \in [Providers -> [state : {"unborn", "live"}, token : Tokens,
                                    version : {0}]] :
                 \A p \in Providers : d[p].state = "live" <=> p \in Stored}
    /\ saving = {}
    /\ importing = FALSE
    /\ entries = [p \in Providers |-> None]
    /\ scheduler_running = FALSE
    /\ schedulers = 0
    /\ route_entries = [p \in Providers |-> None]
    /\ fetches = {}
    /\ coordinator = Off
    /\ calls = [c \in Calls |-> NewCall]
    /\ life = 0
    /\ crossed = {}

\* A save that changes what a fetch depends on, or the switch of the provider, which
\* is left out; no adapter is no token.
SaveProvider(p, token) ==
    /\ changes < MaxChanges
    /\ db[p].state = "live"
    /\ p \notin saving
    /\ db' = [db EXCEPT ![p].token = token, ![p].version = @ + 1]
    /\ saving' = saving \cup {p}
    /\ changes' = changes + 1
    /\ UNCHANGED <<importing, runtime, fetches, coordinator, calls, life, crossed>>

DeleteProvider(p) ==
    /\ changes < MaxChanges
    /\ db[p].state = "live"
    /\ p \notin saving
    /\ db' = [db EXCEPT ![p].state = "deleted"]
    /\ saving' = saving \cup {p}
    /\ changes' = changes + 1
    /\ UNCHANGED <<importing, runtime, fetches, coordinator, calls, life, crossed>>

\* The command goes on after its transaction.
InvalidateSaved(p) ==
    /\ p \in saving
    /\ saving' = saving \ {p}
    /\ Invalidate(p)
    /\ calls' = IF entries[p] = None THEN calls ELSE WakeWaiters({p})
    /\ UNCHANGED <<changes, db, importing, fetches, coordinator, life, crossed>>

\* The import replaces every provider; the new ones have new ids.
ImportConfig ==
    /\ changes < MaxChanges
    /\ ~importing
    /\ db' = [p \in Providers |->
                [db[p] EXCEPT !.state = IF @ = "unborn" THEN "live" ELSE "deleted"]]
    /\ importing' = TRUE
    /\ changes' = changes + 1
    /\ UNCHANGED <<saving, runtime, fetches, coordinator, calls, life, crossed>>

\* reset_all; with the entries their completion channels are dropped.
ResetAll ==
    /\ importing
    /\ importing' = FALSE
    /\ entries' = [p \in Providers |-> None]
    /\ scheduler_running' = FALSE
    /\ route_entries' = [p \in Providers |-> None]
    /\ calls' = WakeWaiters(Providers)
    /\ life' = life + 1
    /\ UNCHANGED <<changes, db, saving, schedulers, fetches, coordinator, crossed>>

------------------------------------------------------------------------------
(* The commands of the window.                                             *)

\* load_account_usage_runtime_target
LoadTarget(c, p) ==
    /\ calls[c].place = "new"
    /\ db[p].state = "live"
    /\ calls' = [calls EXCEPT ![c] = [@ EXCEPT !.place = "loaded", !.provider = p,
                                               !.token = db[p].token]]
    /\ UNCHANGED <<stored, runtime, fetches, coordinator, life, crossed>>

Returned(answer) == [NewCall EXCEPT !.place = "returned", !.answer = answer]

\* No adapter is configured.
InvalidateUnconfigured(c) ==
    LET p == calls[c].provider IN
    /\ calls[c].place = "loaded"
    /\ calls[c].token = None
    /\ Invalidate(p)
    /\ calls' = [(IF entries[p] = None THEN calls ELSE WakeWaiters({p}))
                    EXCEPT ![c] = Returned(None)]
    /\ UNCHANGED <<stored, fetches, coordinator, life, crossed>>

\* acquire_desktop_lease
AcquireDesktopLease(c) ==
    LET p == calls[c].provider
        token == calls[c].token
        e == [Synced(EntryOf(p), token) EXCEPT !.desktop = "live"] IN
    /\ calls[c].place = "loaded"
    /\ token # None
    /\ entries' = [entries EXCEPT ![p] = e]
    /\ route_entries' = RouteSynced(route_entries, p, token, e.generation)
    /\ StartSchedulerIfNeeded
    /\ calls' = [WakeWaiters(Republished(p, token)) EXCEPT ![c] = Returned(None)]
    /\ UNCHANGED <<stored, fetches, coordinator, life, crossed>>

\* Fault: a refresh joins the force epoch whose fetch is already under way.
RequestForceEpoch_JoinsInFlight(e) ==
    IF e.pending_force > 0 THEN e
    ELSE IF e.in_flight_force > 0 THEN e
    ELSE [e EXCEPT !.next_force = @ + 1, !.pending_force = e.next_force + 1]

\* request_force_epoch
RequestForceEpoch(e) ==
    IF e.pending_force > 0 THEN e
    ELSE [e EXCEPT !.next_force = @ + 1, !.pending_force = e.next_force + 1]

\* refresh up to its wait.
Refresh(c) ==
    LET p == calls[c].provider
        token == calls[c].token
        e == RequestForceEpoch([Synced(EntryOf(p), token) EXCEPT !.desktop = "live"]) IN
    /\ calls[c].place = "loaded"
    /\ token # None
    /\ entries' = [entries EXCEPT ![p] = e]
    /\ route_entries' = RouteSynced(route_entries, p, token, e.generation)
    /\ StartSchedulerIfNeeded
    /\ calls' = [WakeWaiters(Republished(p, token)) EXCEPT ![c] =
                    [@ EXCEPT !.place = "waiting", !.generation = e.generation,
                              !.wanted = e.next_force, !.life = life, !.woken = TRUE]]
    /\ UNCHANGED <<stored, fetches, coordinator, life, crossed>>

\* One turn of the loop of refresh: its target is gone or replaced, its epoch is
\* complete, its channel is dropped, or it sleeps.
CheckCompletion(c) ==
    LET q == calls[c]
        e == entries[q.provider] IN
    /\ q.place = "waiting"
    /\ q.woken
    /\ calls' = [calls EXCEPT ![c] =
            IF e = None \/ e.token # q.token \/ e.generation # q.generation THEN Returned(None)
            ELSE IF e.completed_force >= q.wanted
            THEN IF e.snapshot = None THEN Returned(None)
                 ELSE [Returned(e.snapshot.calls) EXCEPT !.provider = q.provider]
            ELSE IF q.life # life THEN Returned(None)
            ELSE [q EXCEPT !.woken = FALSE]]
    /\ UNCHANGED <<stored, runtime, fetches, coordinator, life, crossed>>

HeartbeatDesktopLease(p) ==
    /\ entries[p] # None
    /\ entries[p].desktop # "none"
    /\ entries[p].token # None
    /\ entries' = [entries EXCEPT ![p].desktop = "live"]
    /\ UNCHANGED <<stored, scheduler_running, schedulers, route_entries,
                   fetches, coordinator, calls, life, crossed>>

ReleaseDesktopLease(p) ==
    /\ entries[p] # None
    /\ entries' = [entries EXCEPT ![p].desktop = "none"]
    /\ UNCHANGED <<stored, scheduler_running, schedulers, route_entries,
                   fetches, coordinator, calls, life, crossed>>

------------------------------------------------------------------------------
(* The coordinator of the gateway.                                         *)

StartCoordinator ==
    /\ coordinator.place = "off"
    /\ coordinator' = Idle
    /\ UNCHANGED <<stored, runtime, fetches, calls, life, crossed>>

\* list_account_usage_gateway_target_contexts, on a heartbeat or on request.
LoadGatewayTargets ==
    /\ coordinator.place = "idle"
    /\ \E enabled \in SUBSET {p \in Providers : db[p].state = "live" /\ db[p].token \in Gated} :
        coordinator' =
            [Idle EXCEPT !.place = "loaded",
                         !.targets = [p \in Providers |->
                            IF p \in enabled THEN db[p].token ELSE None]]
    /\ UNCHANGED <<stored, runtime, fetches, calls, life, crossed>>

\* replace_gateway_targets while it holds the mutex; the route entries of the
\* removed targets follow after it.
ReplaceGatewayTargets ==
    LET token == coordinator.targets
        targets == {p \in Providers : token[p] # None}
        removed == {p \in Providers \ targets : entries[p] # None /\ entries[p].gateway # "none"}
        synced(p) == [Synced(EntryOf(p), token[p]) EXCEPT !.gateway = "live"] IN
    /\ coordinator.place = "loaded"
    /\ entries' = [p \in Providers |->
            IF p \in targets THEN synced(p)
            ELSE IF p \in removed THEN [entries[p] EXCEPT !.gateway = "none"]
            ELSE entries[p]]
    /\ route_entries' = [p \in Providers |->
            IF p \in targets
            THEN RouteSynced(route_entries, p, token[p], synced(p).generation)[p]
            ELSE route_entries[p]]
    /\ StartSchedulerIfNeeded
    /\ calls' = WakeWaiters(UNION {Republished(p, token[p]) : p \in targets})
    /\ coordinator' = IF removed = {} THEN Idle
                      ELSE [Idle EXCEPT !.place = "removing", !.removed = removed]
    /\ UNCHANGED <<stored, fetches, life, crossed>>

RemoveRouteEntries ==
    /\ coordinator.place = "removing"
    /\ route_entries' = [p \in Providers |->
            IF p \in coordinator.removed THEN None ELSE route_entries[p]]
    /\ coordinator' = Idle
    /\ UNCHANGED <<stored, entries, scheduler_running, schedulers,
                   fetches, calls, life, crossed>>

\* The gateway stops: release_gateway_targets.
StopCoordinator ==
    /\ coordinator.place = "idle"
    /\ entries' = [p \in Providers |->
            IF entries[p] = None THEN None ELSE [entries[p] EXCEPT !.gateway = "none"]]
    /\ route_entries' = [p \in Providers |-> None]
    /\ coordinator' = Off
    /\ UNCHANGED <<stored, scheduler_running, schedulers, fetches, calls, life, crossed>>

\* It does not stop in time and is aborted at an await.
AbortCoordinator ==
    /\ coordinator.place \in {"idle", "loaded"}
    /\ coordinator' = Off
    /\ UNCHANGED <<stored, runtime, fetches, calls, life, crossed>>

------------------------------------------------------------------------------
(* The scheduler and the fetches.                                          *)

\* Fault: a scheduler that stops leaves the lapsed leases in place.
SchedulerTurn_LeasesStay ==
    /\ schedulers > 0
    /\ UNCHANGED entries
    /\ IF \E p \in Providers : HasActiveConsumer(entries[p])
       THEN UNCHANGED <<scheduler_running, schedulers>>
       ELSE scheduler_running' = FALSE /\ schedulers' = schedulers - 1
    /\ UNCHANGED <<stored, route_entries, fetches, coordinator, calls, life, crossed>>

\* One turn of a scheduler loop after its sleep; what it dispatches is below.
SchedulerTurn ==
    /\ schedulers > 0
    /\ entries' = [p \in Providers |-> Expired(entries[p])]
    /\ IF \E p \in Providers : HasActiveConsumer(entries[p])
       THEN UNCHANGED <<scheduler_running, schedulers>>
       ELSE scheduler_running' = FALSE /\ schedulers' = schedulers - 1
    /\ UNCHANGED <<stored, route_entries, fetches, coordinator, calls, life, crossed>>

\* One selection of dispatch_due, by a scheduler or by a caller: a consumer has a
\* scheduler (SchedulerServesConsumers).
Dispatch(p) ==
    LET e == Expired(entries[p]) IN
    /\ schedulers > 0
    /\ Cardinality(fetches) < MAX_CONCURRENT_PROVIDER_FETCHES
    /\ HasActiveConsumer(e)
    /\ e.in_flight = 0
    /\ entries' = [q \in Providers |->
            IF q = p
            THEN [e EXCEPT !.in_flight = e.generation, !.in_flight_force = e.pending_force,
                           !.pending_force = 0]
            ELSE Expired(entries[q])]
    /\ fetches' = fetches \cup
            {[provider |-> p, generation |-> e.generation, epoch |-> e.pending_force,
              life |-> life, version |-> None,
              calls |-> {c \in Calls : calls[c].place = "waiting" /\ calls[c].provider = p}]}
    /\ UNCHANGED <<stored, scheduler_running, schedulers, route_entries,
                   coordinator, calls, life, crossed>>

\* fetch_account_usage_uncached reads the provider for itself.
ReadProvider(f) ==
    /\ f \in fetches
    /\ f.version = None
    /\ db[f.provider].state = "live"
    /\ fetches' = (fetches \ {f}) \cup {[f EXCEPT !.version = db[f.provider].version]}
    /\ UNCHANGED <<stored, runtime, coordinator, calls, life, crossed>>

\* The entry still waits for this fetch.
Matches(e, f) == e # None /\ e.in_flight = f.generation /\ e.in_flight_force = f.epoch

\* Fault: any completion that matches is stored, whatever happened to the target.
Accepts_Matched(e, f) == e.token # None

\* ... and the target it was for is still the entry's.
Accepts(e, f) == e.generation = f.generation /\ e.token # None

Stores(e, f, snapshot) ==
    [e EXCEPT !.snapshot = snapshot,
              !.completed_force = IF f.epoch > @ THEN f.epoch ELSE @]

\* The end of perform_refresh.
CompleteFetch(f, ok) ==
    LET p == f.provider
        e == entries[p]
        landed == [e EXCEPT !.in_flight = 0, !.in_flight_force = 0]
        snapshot == [version |-> IF ok THEN f.version ELSE None, calls |-> f.calls]
        accepted == Matches(e, f) /\ Accepts(e, f) IN
    /\ f \in fetches
    /\ f.version = None => ~ok
    /\ fetches' = fetches \ {f}
    /\ entries' = [entries EXCEPT ![p] =
            IF accepted THEN Stores(landed, f, snapshot)
            ELSE IF Matches(e, f) THEN landed ELSE e]
    /\ route_entries' = [route_entries EXCEPT ![p] =
            IF accepted /\ @ # None /\ @.generation = f.generation
            THEN [@ EXCEPT !.snapshot = snapshot] ELSE @]
    /\ calls' = IF Matches(e, f) THEN WakeWaiters({p}) ELSE calls
    /\ crossed' = IF Matches(e, f) /\ f.life # life THEN crossed \cup {p} ELSE crossed
    /\ UNCHANGED <<stored, scheduler_running, schedulers, coordinator, life>>

\* The deadline of a lease passes.
LeaseLapses(p) ==
    /\ entries[p] # None
    /\ \/ entries[p].desktop = "live" /\ entries' = [entries EXCEPT ![p].desktop = "lapsed"]
       \/ entries[p].gateway = "live" /\ entries' = [entries EXCEPT ![p].gateway = "lapsed"]
    /\ UNCHANGED <<stored, scheduler_running, schedulers, route_entries,
                   fetches, coordinator, calls, life, crossed>>

Next ==
    \/ \E p \in Providers :
        \/ \E token \in Tokens \cup {None} : SaveProvider(p, token)
        \/ DeleteProvider(p) \/ InvalidateSaved(p)
        \/ HeartbeatDesktopLease(p) \/ ReleaseDesktopLease(p) \/ LeaseLapses(p)
        \/ Dispatch(p)
    \/ ImportConfig \/ ResetAll
    \/ \E c \in Calls :
        \/ \E p \in Providers : LoadTarget(c, p)
        \/ InvalidateUnconfigured(c) \/ AcquireDesktopLease(c)
        \/ Refresh(c) \/ CheckCompletion(c)
    \/ StartCoordinator \/ LoadGatewayTargets \/ ReplaceGatewayTargets
    \/ RemoveRouteEntries \/ StopCoordinator \/ AbortCoordinator
    \/ SchedulerTurn
    \/ \E f \in fetches : ReadProvider(f) \/ \E ok \in BOOLEAN : CompleteFetch(f, ok)

Spec == Init /\ [][Next]_vars

------------------------------------------------------------------------------
(* Properties.                                                             *)

TypeOK ==
    /\ changes \in 0 .. MaxChanges
    /\ db \in [Providers -> [state : {"unborn", "live", "deleted"}, token : Tokens \cup {None},
                             version : 0 .. MaxChanges]]
    /\ saving \subseteq Providers
    /\ importing \in BOOLEAN
    /\ \A p \in Providers : entries[p] \in Entry \cup {None}
    /\ scheduler_running \in BOOLEAN
    /\ schedulers \in 0 .. life + 1
    /\ \A p \in Providers : route_entries[p] \in RouteEntry \cup {None}
    /\ fetches \subseteq Fetch
    /\ Cardinality(fetches) <= MAX_CONCURRENT_PROVIDER_FETCHES
    /\ coordinator.place \in {"off", "idle", "loaded", "removing"}
    /\ coordinator.targets \in [Providers -> Gated \cup {None}]
    /\ coordinator.removed \subseteq Providers
    /\ \A c \in Calls :
        /\ calls[c].place \in {"new", "loaded", "waiting", "returned"}
        /\ calls[c].provider \in Providers \cup {None}
        /\ calls[c].token \in Tokens \cup {None}
        /\ calls[c].answer \in {None} \cup SUBSET Calls
    /\ life \in 0 .. MaxChanges
    /\ crossed \subseteq Providers

\* What is shown of a provider, or keeps it from being tried, was fetched with the
\* configuration of its last save, once that save has come to invalidate: a fetch
\* that was under way is not taken, though the config token may be the same.
SnapshotIsCurrent ==
    \A p \in Providers \ (saving \cup crossed) :
        /\ db[p].state = "live"
        /\ entries[p] # None
        /\ entries[p].snapshot # None
        /\ entries[p].snapshot.version # None
        => entries[p].snapshot.version = db[p].version

\* The failover gate never judges by a result the runtime has dropped or replaced:
\* the two tables are kept under two locks, and one removal comes late.
RouteShowsSnapshot ==
    \A p \in Providers :
        route_entries[p] # None /\ route_entries[p].snapshot # None =>
            /\ entries[p] # None
            /\ entries[p].generation = route_entries[p].generation
            /\ entries[p].snapshot = route_entries[p].snapshot

\* A manual refresh is never answered by a fetch dispatched before it was asked for:
\* what is under way does not satisfy it.
ManualRefreshIsNew ==
    \A c \in Calls :
        calls[c].answer # None /\ calls[c].provider \notin crossed => c \in calls[c].answer

\* A manual refresh that sleeps will be woken: its epoch is pending or a fetch
\* carries it.
NoLostWakeup ==
    \A c \in Calls :
        calls[c].place = "waiting" /\ ~calls[c].woken =>
            LET p == calls[c].provider
                e == entries[p] IN
            /\ e # None
            /\ calls[c].life = life
            /\ \/ e.pending_force = calls[c].wanted
               \/ /\ e.in_flight_force = calls[c].wanted
                  /\ \E f \in fetches : f.provider = p /\ Matches(e, f)

\* While somebody uses the runtime a scheduler runs, also after a reset that left
\* the old one alive and after leases that lapse or are renewed at the last moment.
SchedulerServesConsumers ==
    (\E p \in Providers : HasActiveConsumer(entries[p])) => scheduler_running /\ schedulers > 0

\* The window, the gateway and the timer share one fetch of a provider, whatever
\* invalidates the target while it is under way.
OneFetchPerProvider ==
    \A p \in Providers \ crossed :
        Cardinality({f \in fetches : f.provider = p /\ f.life = life}) <= 1

\* The contract of the runtime says that a reset rejects stale completions; here of
\* providers that exist.
ResetRejectsStaleCompletion == \A p \in crossed : db[p].state # "live"
================================================================================
