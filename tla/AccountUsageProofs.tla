-------------------------- MODULE AccountUsageProofs --------------------------
(***************************************************************************)
(* Theorems about AccountUsage: its types, and what its run checks of the   *)
(* scheduler, of the route entries, of a fetch under way and of the manual  *)
(* refreshes that wait for one.                                             *)
(***************************************************************************)
EXTENDS AccountUsage, FiniteSetTheorems, TLAPS

StoredProvider == [state : {"unborn", "live", "deleted"}, token : Tokens \cup {None}, version : Nat]

Coordinator ==
    [place : {"off", "idle", "loaded", "removing"},
     targets : [Providers -> Gated \cup {None}], removed : SUBSET Providers]

Call ==
    [place : {"new", "loaded", "waiting", "returned"}, provider : Providers \cup {None},
     token : Tokens \cup {None}, generation : Nat, wanted : Nat, life : Nat,
     woken : BOOLEAN, answer : {None} \cup SUBSET Calls]

CallTypes(cs) ==
    /\ cs \in [Calls -> Call]
    /\ \A c \in Calls : cs[c].place \in {"loaded", "waiting"} => cs[c].provider \in Providers

\* The types that the other invariants rest on.
Types ==
    /\ changes \in Nat
    /\ db \in [Providers -> StoredProvider]
    /\ saving \subseteq Providers
    /\ importing \in BOOLEAN
    /\ entries \in [Providers -> Entry \cup {None}]
    /\ scheduler_running \in BOOLEAN
    /\ schedulers \in Nat
    /\ route_entries \in [Providers -> RouteEntry \cup {None}]
    /\ fetches \subseteq Fetch
    /\ coordinator \in Coordinator
    /\ CallTypes(calls)
    /\ life \in Nat
    /\ crossed \subseteq Providers

\* The bounds of TypeOK: an import resets once, and each reset leaves a scheduler.
Bounds ==
    /\ changes <= MaxChanges
    /\ \A p \in Providers : db[p].version <= changes
    /\ life + (IF importing THEN 1 ELSE 0) <= changes
    /\ schedulers <= life + (IF scheduler_running THEN 1 ELSE 0)
    /\ IsFiniteSet(fetches)
    /\ Cardinality(fetches) <= MAX_CONCURRENT_PROVIDER_FETCHES

\* A lease that has lapsed still keeps the scheduler: heartbeat may renew it.
Used(e) ==
    /\ e # None
    /\ e.token # None
    /\ e.pending_force > 0 \/ e.in_flight_force > 0 \/ e.desktop # "none" \/ e.gateway # "none"

SchedulerInv ==
    /\ scheduler_running => schedulers > 0
    /\ (\E p \in Providers : Used(entries[p])) => scheduler_running

Generations ==
    /\ \A p \in Providers :
        entries[p] # None /\ entries[p].token # None => entries[p].generation >= 1
    /\ \A f \in fetches :
        /\ f.generation >= 1
        /\ f.life <= life
        /\ f.version # None => db[f.provider].state # "unborn"
    /\ \A p \in Providers :
        entries[p] # None /\ entries[p].snapshot # None /\ entries[p].snapshot.version # None
        => db[p].state # "unborn"

\* The one fetch of this life that the entry waits for.
InFlight ==
    /\ \A f \in fetches :
        f.life = life /\ f.provider \notin crossed =>
            /\ Matches(entries[f.provider], f)
            /\ f.generation <= entries[f.provider].generation
    /\ \A f, g \in fetches :
        f.life = life /\ g.life = life /\ f.provider = g.provider /\ f.provider \notin crossed
        => f = g

\* What it has read is current while the generation is.
FetchIsCurrent ==
    \A f \in fetches :
        /\ f.life = life
        /\ f.provider \notin saving \cup crossed
        /\ db[f.provider].state = "live"
        /\ f.version # None
        /\ entries[f.provider].generation = f.generation
        => f.version = db[f.provider].version

DataInv ==
    RouteShowsSnapshot /\ Generations /\ InFlight /\ FetchIsCurrent /\ SnapshotIsCurrent

IInv == Types /\ Bounds /\ SchedulerInv /\ DataInv

-----------------------------------------------------------------------------
(* The operators on an entry.                                               *)

LEMMA NoneIsNothing ==
    /\ None \notin Nat /\ None \notin Tokens
    /\ None \notin Snapshot /\ None \notin Entry /\ None \notin RouteEntry
BY AccountUsageAssumption, NoneAssumption

\* The entry that a call starts from.
LEMMA EntryOfType ==
    ASSUME Types, NEW p \in Providers
    PROVE  /\ EntryOf(p) \in Entry
           /\ entries[p] # None => EntryOf(p) = entries[p] /\ entries[p] \in Entry
           /\ entries[p] = None => EntryOf(p) = DefaultEntry
<1>1. DefaultEntry \in Entry
  BY DEF DefaultEntry, Entry, Leases
<1> QED
  BY <1>1 DEF Types, EntryOf

\* What sync_target does to an entry.
LEMMA SyncedEffect ==
    ASSUME NEW e \in Entry, NEW token \in Tokens
    PROVE  /\ Synced(e, token) \in Entry
           /\ Synced(e, token).token = token
           /\ Synced(e, token).in_flight = e.in_flight
           /\ Synced(e, token).in_flight_force = e.in_flight_force
           /\ e.token = token => Synced(e, token) = e
           /\ Synced(e, token).next_force = e.next_force
           /\ Synced(e, token).completed_force = e.completed_force
           /\ e.token # token => /\ Synced(e, token).generation = e.generation + 1
                                 /\ Synced(e, token).snapshot = None
                                 /\ Synced(e, token).pending_force = 0
<1>1. CASE e.token = token
  BY <1>1 DEF Synced
<1>2. CASE e.token # token
  <2>1. Synced(e, token) = [e EXCEPT !.generation = @ + 1, !.token = token, !.snapshot = None,
                                     !.pending_force = 0]
    BY <1>2 DEF Synced
  <2>2. e.generation + 1 \in Nat
    BY DEF Entry
  <2>3. [e EXCEPT !.generation = @ + 1, !.token = token, !.snapshot = None,
                  !.pending_force = 0] \in Entry
    BY <2>2 DEF Entry
  <2>4. /\ Synced(e, token).token = token
        /\ Synced(e, token).in_flight = e.in_flight
        /\ Synced(e, token).in_flight_force = e.in_flight_force
    BY <2>1 DEF Entry
  <2>5. /\ Synced(e, token).generation = e.generation + 1 /\ Synced(e, token).snapshot = None
        /\ Synced(e, token).pending_force = 0
        /\ Synced(e, token).next_force = e.next_force
        /\ Synced(e, token).completed_force = e.completed_force
    BY <2>1 DEF Entry
  <2> QED
    BY <1>2, <2>1, <2>3, <2>4, <2>5
<1> QED
  BY <1>1, <1>2

LEMMA RequestForceEpochEffect ==
    ASSUME NEW e \in Entry
    PROVE  /\ RequestForceEpoch(e) \in Entry
           /\ RequestForceEpoch(e).token = e.token
           /\ RequestForceEpoch(e).generation = e.generation
           /\ RequestForceEpoch(e).snapshot = e.snapshot
           /\ RequestForceEpoch(e).in_flight = e.in_flight
           /\ RequestForceEpoch(e).in_flight_force = e.in_flight_force
           /\ RequestForceEpoch(e).desktop = e.desktop
           /\ RequestForceEpoch(e).completed_force = e.completed_force
           /\ e.pending_force > 0 => RequestForceEpoch(e) = e
           /\ ~(e.pending_force > 0) =>
                /\ RequestForceEpoch(e).next_force = e.next_force + 1
                /\ RequestForceEpoch(e).pending_force = e.next_force + 1
<1>1. CASE e.pending_force > 0
  BY <1>1 DEF RequestForceEpoch
<1>2. CASE ~(e.pending_force > 0)
  <2>1. RequestForceEpoch(e) =
            [e EXCEPT !.next_force = @ + 1, !.pending_force = e.next_force + 1]
    BY <1>2 DEF RequestForceEpoch
  <2>2. e.next_force + 1 \in Nat
    BY DEF Entry
  <2>3. RequestForceEpoch(e) \in Entry
    BY <2>1, <2>2 DEF Entry
  <2> QED
    BY <1>2, <2>1, <2>3 DEF Entry
<1> QED
  BY <1>1, <1>2

\* The same entry but for its leases.
Kept(e, k) ==
    \/ e = None /\ k = None
    \/ /\ e \in Entry /\ k \in Entry
       /\ k.token = e.token /\ k.generation = e.generation /\ k.snapshot = e.snapshot
       /\ k.pending_force = e.pending_force
       /\ k.in_flight = e.in_flight /\ k.in_flight_force = e.in_flight_force
       /\ k.next_force = e.next_force /\ k.completed_force = e.completed_force

\* What a step that neither dispatches nor lands a fetch does to the epochs: the
\* pending one stays, is new, or goes with the generation.
Grows(e, k) ==
    /\ k.in_flight = e.in_flight /\ k.in_flight_force = e.in_flight_force
    /\ k.completed_force = e.completed_force
    /\ \/ /\ k.generation = e.generation /\ k.token = e.token /\ k.snapshot = e.snapshot
          /\ \/ k.pending_force = e.pending_force /\ k.next_force = e.next_force
             \/ /\ e.pending_force = 0
                /\ k.next_force = e.next_force + 1 /\ k.pending_force = k.next_force
       \/ /\ k.generation = e.generation + 1 /\ k.snapshot = None
          /\ \/ k.pending_force = 0 /\ k.next_force = e.next_force
             \/ k.next_force = e.next_force + 1 /\ k.pending_force = k.next_force

\* The entry of a target that somebody has just asked for.
Targeted(e, k, token) ==
    /\ k \in Entry
    /\ k.token = token /\ token \in Tokens
    /\ k.in_flight = e.in_flight /\ k.in_flight_force = e.in_flight_force
    /\ k.desktop = "live" \/ k.gateway = "live"
    /\ e.token = token => k.generation = e.generation /\ k.snapshot = e.snapshot
    /\ e.token # token => k.generation = e.generation + 1 /\ k.snapshot = None
    /\ Grows(e, k)

LEMMA ExpiredKeeps ==
    ASSUME NEW e \in Entry \cup {None}
    PROVE  /\ Kept(e, Expired(e))
           /\ e # None => /\ Expired(e) \in Entry
                          /\ Expired(e).desktop # "none" => e.desktop = "live"
                          /\ Expired(e).gateway # "none" => e.gateway = "live"
<1>1. CASE e = None
  BY <1>1 DEF Kept, Expired
<1>2. CASE e \in Entry
  BY <1>2, NoneIsNothing DEF Kept, Expired, Entry, Leases
<1> QED
  BY <1>1, <1>2

LEMMA InvalidatedEffect ==
    ASSUME NEW e \in Entry
    PROVE  /\ Invalidated(e) \in Entry
           /\ Invalidated(e).token = None /\ Invalidated(e).snapshot = None
           /\ Invalidated(e).generation = e.generation + 1
           /\ Invalidated(e).in_flight = e.in_flight
           /\ Invalidated(e).in_flight_force = e.in_flight_force
           /\ Grows(e, Invalidated(e))
<1>1. "none" \in Leases /\ e.generation + 1 \in Nat
  BY DEF Leases, Entry
<1>2. Invalidated(e) \in Entry
  BY <1>1 DEF Invalidated, Entry
<1>3. /\ Invalidated(e).token = None /\ Invalidated(e).snapshot = None
      /\ Invalidated(e).generation = e.generation + 1
      /\ Invalidated(e).in_flight = e.in_flight
      /\ Invalidated(e).in_flight_force = e.in_flight_force
      /\ Invalidated(e).pending_force = 0 /\ Invalidated(e).next_force = e.next_force
      /\ Invalidated(e).completed_force = e.completed_force
  BY DEF Invalidated, Entry
<1> QED
  BY <1>2, <1>3 DEF Grows

\* A waiter that is woken stays what it is.
LEMMA WakeWaitersType ==
    ASSUME CallTypes(calls), NEW P
    PROVE  CallTypes(WakeWaiters(P))
<1>1. ASSUME NEW c \in Calls
      PROVE  /\ WakeWaiters(P)[c] \in Call
             /\ WakeWaiters(P)[c].place = calls[c].place
             /\ WakeWaiters(P)[c].provider = calls[c].provider
  <2>1. calls[c] \in Call
    BY DEF CallTypes
  <2>2. WakeWaiters(P)[c] = calls[c] \/ WakeWaiters(P)[c] = [calls[c] EXCEPT !.woken = TRUE]
    BY DEF WakeWaiters, Wake
  <2> QED
    BY <2>1, <2>2 DEF Call
<1>2. WakeWaiters(P) = [c \in Calls |-> WakeWaiters(P)[c]]
  BY DEF WakeWaiters
<1>3. WakeWaiters(P) \in [Calls -> Call]
  BY <1>1, <1>2
<1> QED
  BY <1>1, <1>3 DEF CallTypes

LEMMA PutCall ==
    ASSUME NEW cs, CallTypes(cs), NEW c \in Calls, NEW x \in Call,
           x.place \in {"loaded", "waiting"} => x.provider \in Providers
    PROVE  CallTypes([cs EXCEPT ![c] = x])
<1>1. [cs EXCEPT ![c] = x] \in [Calls -> Call]
  BY DEF CallTypes
<1>2. \A d \in Calls : [cs EXCEPT ![c] = x][d] = IF d = c THEN x ELSE cs[d]
  BY DEF CallTypes
<1> QED
  BY <1>1, <1>2 DEF CallTypes

LEMMA ReturnedType ==
    ASSUME NEW answer \in {None} \cup SUBSET Calls
    PROVE  /\ Returned(answer) \in Call /\ Returned(answer).place = "returned"
BY DEF Returned, NewCall, Call

\* A target gets its route entry, or keeps the one it has.
LEMMA RouteSyncedType ==
    ASSUME Types, NEW p \in Providers, NEW token \in Tokens, NEW g \in Nat
    PROVE  /\ RouteSynced(route_entries, p, token, g) \in [Providers -> RouteEntry \cup {None}]
           /\ \A q \in Providers \ {p} :
                RouteSynced(route_entries, p, token, g)[q] = route_entries[q]
           /\ \/ RouteSynced(route_entries, p, token, g)[p] = None
              \/ RouteSynced(route_entries, p, token, g)[p] = NewRouteEntry(token, g)
              \/ /\ RouteSynced(route_entries, p, token, g)[p] = route_entries[p]
                 /\ route_entries[p] # None
                 /\ route_entries[p].token = token
                 /\ route_entries[p].generation = g
<1>1. route_entries \in [Providers -> RouteEntry \cup {None}]
  BY DEF Types
<1>2. token \in Gated => NewRouteEntry(token, g) \in RouteEntry
  BY DEF NewRouteEntry, RouteEntry
<1>3. RouteSynced(route_entries, p, token, g)[p] =
        IF token \notin Gated THEN None
        ELSE IF \/ route_entries[p] = None \/ route_entries[p].token # token
                \/ route_entries[p].generation # g
        THEN NewRouteEntry(token, g)
        ELSE route_entries[p]
  BY <1>1 DEF RouteSynced
<1>4. RouteSynced(route_entries, p, token, g)[p] \in RouteEntry \cup {None}
  BY <1>1, <1>2, <1>3
<1>5. RouteSynced(route_entries, p, token, g) =
        [route_entries EXCEPT ![p] = RouteSynced(route_entries, p, token, g)[p]]
  BY <1>1, <1>3 DEF RouteSynced
<1>6. RouteSynced(route_entries, p, token, g) \in [Providers -> RouteEntry \cup {None}]
  BY <1>1, <1>4, <1>5
<1>7. \A q \in Providers \ {p} : RouteSynced(route_entries, p, token, g)[q] = route_entries[q]
  BY <1>1, <1>5
<1> QED
  BY <1>3, <1>6, <1>7

-----------------------------------------------------------------------------
(* What each action does to the entries.                                    *)

Spared == <<fetches, life, crossed>>

\* No target changes hands; a route entry may go.
KeepStep ==
    /\ \A p \in Providers : Kept(entries[p], entries'[p])
    /\ \A p \in Providers : route_entries'[p] \in {route_entries[p], None}
    /\ UNCHANGED Spared

\* A consumer, after which SchedulerInv need not be argued again.
NoNewUser ==
    /\ \A p \in Providers : Used(entries'[p]) => Used(entries[p])
    /\ UNCHANGED <<scheduler_running, schedulers>>

\* Somebody asks for targets.
TargetStep ==
    /\ \A p \in Providers :
        \/ Kept(entries[p], entries'[p]) /\ route_entries'[p] = route_entries[p]
           /\ (Used(entries'[p]) => Used(entries[p]))
        \/ \E token \in Tokens :
            /\ Targeted(EntryOf(p), entries'[p], token)
            /\ \/ route_entries'[p] = None
               \/ route_entries'[p] = NewRouteEntry(token, entries'[p].generation)
               \/ /\ route_entries'[p] = route_entries[p]
                  /\ route_entries[p].generation = entries'[p].generation
    /\ StartSchedulerIfNeeded
    /\ UNCHANGED <<Spared, db, saving, importing, changes>>

LEMMA KeptSelf ==
    ASSUME Types, NEW p \in Providers
    PROVE  Kept(entries[p], entries[p])
BY DEF Types, Kept

\* Steps that leave the entries and the fetches alone.
LEMMA SaveProviderEffect ==
    ASSUME Types, NEW p \in Providers, NEW token \in Tokens \cup {None}, SaveProvider(p, token)
    PROVE  Types' /\ KeepStep /\ NoNewUser
<1>1. db[p] \in StoredProvider /\ changes + 1 \in Nat
  BY DEF Types
<1>2. db[p].version + 1 \in Nat
  BY <1>1 DEF StoredProvider
<1>3. [db[p] EXCEPT !.token = token, !.version = @ + 1] \in StoredProvider
  BY <1>1, <1>2 DEF StoredProvider
<1>4. db' = [db EXCEPT ![p] = [db[p] EXCEPT !.token = token, !.version = @ + 1]]
  BY DEF Types, SaveProvider
<1>5. db' \in [Providers -> StoredProvider]
  BY <1>3, <1>4 DEF Types
<1>6. Types'
  BY <1>1, <1>5 DEF Types, SaveProvider, runtime, CallTypes
<1> QED
  BY <1>6, KeptSelf DEF SaveProvider, runtime, KeepStep, NoNewUser, Spared

LEMMA DeleteProviderEffect ==
    ASSUME Types, NEW p \in Providers, DeleteProvider(p)
    PROVE  Types' /\ KeepStep /\ NoNewUser
<1>1. db[p] \in StoredProvider /\ changes + 1 \in Nat
  BY DEF Types
<1>2. [db[p] EXCEPT !.state = "deleted"] \in StoredProvider
  BY <1>1 DEF StoredProvider
<1>3. db' \in [Providers -> StoredProvider]
  BY <1>2 DEF Types, DeleteProvider
<1>4. Types'
  BY <1>1, <1>3 DEF Types, DeleteProvider, runtime, CallTypes
<1> QED
  BY <1>4, KeptSelf DEF DeleteProvider, runtime, KeepStep, NoNewUser, Spared

LEMMA ImportConfigEffect ==
    ASSUME Types, ImportConfig
    PROVE  Types' /\ KeepStep /\ NoNewUser
<1>1. changes + 1 \in Nat
  BY DEF Types
<1>2. ASSUME NEW p \in Providers
      PROVE  [db[p] EXCEPT !.state = IF @ = "unborn" THEN "live" ELSE "deleted"] \in StoredProvider
  <2>1. db[p] \in StoredProvider
    BY DEF Types
  <2> QED
    BY <2>1 DEF StoredProvider
<1>3. db' \in [Providers -> StoredProvider]
  BY <1>2 DEF ImportConfig
<1>4. Types'
  BY <1>1, <1>3 DEF Types, ImportConfig, runtime, CallTypes
<1> QED
  BY <1>4, KeptSelf DEF ImportConfig, runtime, KeepStep, NoNewUser, Spared

LEMMA LoadTargetEffect ==
    ASSUME Types, NEW c \in Calls, NEW p \in Providers, LoadTarget(c, p)
    PROVE  Types' /\ KeepStep /\ NoNewUser
<1>1. calls[c] \in Call /\ db[p].token \in Tokens \cup {None}
  BY DEF Types, CallTypes, StoredProvider
<1> DEFINE x == [calls[c] EXCEPT !.place = "loaded", !.provider = p, !.token = db[p].token]
<1>2. x \in Call /\ x.provider = p
  BY <1>1 DEF Call
<1>3. CallTypes(calls')
  BY <1>2, PutCall DEF LoadTarget, Types
<1>4. Types'
  BY <1>3 DEF Types, LoadTarget, stored, runtime, CallTypes
<1> QED
  BY <1>4, KeptSelf DEF LoadTarget, stored, runtime, KeepStep, NoNewUser, Spared

LEMMA CheckCompletionEffect ==
    ASSUME Types, NEW c \in Calls, CheckCompletion(c)
    PROVE  Types' /\ KeepStep /\ NoNewUser
<1> DEFINE q == calls[c]
           e == entries[q.provider]
<1>1. q \in Call /\ q.place = "waiting"
  BY DEF Types, CallTypes, CheckCompletion
<1>2. q.provider \in Providers
  BY <1>1 DEF Types, CallTypes
<1>3. e \in Entry \cup {None}
  BY <1>2 DEF Types
<1>4. ASSUME e # None, e.snapshot # None
      PROVE  /\ [Returned(e.snapshot.calls) EXCEPT !.provider = q.provider] \in Call
             /\ [Returned(e.snapshot.calls) EXCEPT !.provider = q.provider].place = "returned"
  <2>1. e.snapshot.calls \in SUBSET Calls
    BY <1>3, <1>4 DEF Entry, Snapshot
  <2>2. Returned(e.snapshot.calls) \in Call /\ Returned(e.snapshot.calls).place = "returned"
    BY <2>1, ReturnedType
  <2> QED
    BY <1>2, <2>2 DEF Call
<1>5. Returned(None) \in Call /\ Returned(None).place = "returned"
  BY ReturnedType
<1>6. /\ [q EXCEPT !.woken = FALSE] \in Call
      /\ [q EXCEPT !.woken = FALSE].provider = q.provider
  BY <1>1 DEF Call
<1>7. PICK x \in Call : /\ calls' = [calls EXCEPT ![c] = x]
                        /\ x.place \in {"loaded", "waiting"} => x.provider \in Providers
  <2>1. CASE e = None \/ e.token # q.token \/ e.generation # q.generation
    BY <2>1, <1>5 DEF CheckCompletion
  <2>2. CASE /\ ~(e = None \/ e.token # q.token \/ e.generation # q.generation)
             /\ e.completed_force >= q.wanted
    BY <2>2, <1>4, <1>5 DEF CheckCompletion
  <2>3. CASE /\ ~(e = None \/ e.token # q.token \/ e.generation # q.generation)
             /\ ~(e.completed_force >= q.wanted)
    BY <2>3, <1>2, <1>5, <1>6 DEF CheckCompletion
  <2> QED
    BY <2>1, <2>2, <2>3
<1>8. CallTypes(calls')
  BY <1>7, PutCall DEF Types
<1>9. Types'
  BY <1>8 DEF Types, CheckCompletion, stored, runtime
<1> QED
  BY <1>9, KeptSelf DEF CheckCompletion, stored, runtime, KeepStep, NoNewUser, Spared

\* The leases of one entry.
LEMMA LeaseEffect ==
    ASSUME Types, NEW p \in Providers, entries[p] # None,
           NEW desktop \in Leases, NEW gateway \in Leases,
           entries' = [entries EXCEPT ![p] = [@ EXCEPT !.desktop = desktop, !.gateway = gateway]]
    PROVE  /\ entries' \in [Providers -> Entry \cup {None}]
           /\ \A q \in Providers : Kept(entries[q], entries'[q])
           /\ \A q \in Providers \ {p} : entries'[q] = entries[q]
           /\ entries'[p].desktop = desktop /\ entries'[p].gateway = gateway
           /\ entries'[p] # None
<1>1. entries[p] \in Entry
  BY DEF Types
<1> DEFINE k == [entries[p] EXCEPT !.desktop = desktop, !.gateway = gateway]
<1>2. k \in Entry /\ k.desktop = desktop /\ k.gateway = gateway /\ Kept(entries[p], k)
  BY <1>1 DEF Entry, Kept
<1>3. entries'[p] = k /\ \A q \in Providers \ {p} : entries'[q] = entries[q]
  BY DEF Types
<1>4. entries' \in [Providers -> Entry \cup {None}]
  BY <1>2 DEF Types
<1> QED
  BY <1>2, <1>3, <1>4, KeptSelf, NoneIsNothing

LEMMA HeartbeatDesktopLeaseEffect ==
    ASSUME Types, NEW p \in Providers, HeartbeatDesktopLease(p)
    PROVE  Types' /\ KeepStep /\ NoNewUser
<1>1. entries[p] \in Entry
  BY DEF Types, HeartbeatDesktopLease
<1>2. entries[p].gateway \in Leases /\ "live" \in Leases
  BY <1>1 DEF Entry, Leases
<1>3. [entries[p] EXCEPT !.desktop = "live"] =
        [entries[p] EXCEPT !.desktop = "live", !.gateway = entries[p].gateway]
  BY <1>1 DEF Entry
<1>4. PICK desktop \in Leases, gateway \in Leases :
        entries' = [entries EXCEPT ![p] = [@ EXCEPT !.desktop = desktop, !.gateway = gateway]]
  BY <1>2, <1>3 DEF HeartbeatDesktopLease
<1>5. /\ entries' \in [Providers -> Entry \cup {None}]
      /\ \A q \in Providers : Kept(entries[q], entries'[q])
      /\ \A q \in Providers \ {p} : entries'[q] = entries[q]
  BY <1>1, <1>4, NoneIsNothing, LeaseEffect
<1>6. Types'
  BY <1>5 DEF Types, HeartbeatDesktopLease, stored, CallTypes
<1>7. \A q \in Providers : Used(entries'[q]) => Used(entries[q])
  BY <1>5 DEF HeartbeatDesktopLease, Used
<1> QED
  BY <1>5, <1>6, <1>7 DEF HeartbeatDesktopLease, KeepStep, NoNewUser, Spared

LEMMA ReleaseDesktopLeaseEffect ==
    ASSUME Types, NEW p \in Providers, ReleaseDesktopLease(p)
    PROVE  Types' /\ KeepStep /\ NoNewUser
<1>1. entries[p] \in Entry
  BY DEF Types, ReleaseDesktopLease
<1>2. entries[p].gateway \in Leases /\ "none" \in Leases
  BY <1>1 DEF Entry, Leases
<1>3. [entries[p] EXCEPT !.desktop = "none"] =
        [entries[p] EXCEPT !.desktop = "none", !.gateway = entries[p].gateway]
  BY <1>1 DEF Entry
<1>4. PICK desktop \in Leases, gateway \in Leases :
        /\ entries' = [entries EXCEPT ![p] = [@ EXCEPT !.desktop = desktop, !.gateway = gateway]]
        /\ desktop = "none" /\ gateway = entries[p].gateway
  BY <1>2, <1>3 DEF ReleaseDesktopLease
<1>5. /\ entries' \in [Providers -> Entry \cup {None}]
      /\ \A q \in Providers : Kept(entries[q], entries'[q])
      /\ \A q \in Providers \ {p} : entries'[q] = entries[q]
      /\ entries'[p].desktop = "none" /\ entries'[p].gateway = entries[p].gateway
  BY <1>1, <1>4, NoneIsNothing, LeaseEffect
<1>6. Types'
  BY <1>5 DEF Types, ReleaseDesktopLease, stored, CallTypes
<1>7. \A q \in Providers : Used(entries'[q]) => Used(entries[q])
  BY <1>5 DEF ReleaseDesktopLease, Used, Kept
<1> QED
  BY <1>5, <1>6, <1>7 DEF ReleaseDesktopLease, KeepStep, NoNewUser, Spared

LEMMA LeaseLapsesEffect ==
    ASSUME Types, NEW p \in Providers, LeaseLapses(p)
    PROVE  Types' /\ KeepStep /\ NoNewUser
<1>1. entries[p] \in Entry
  BY DEF Types, LeaseLapses
<1>2. entries[p].gateway \in Leases /\ entries[p].desktop \in Leases /\ "lapsed" \in Leases
  BY <1>1 DEF Entry, Leases
<1>3. /\ [entries[p] EXCEPT !.desktop = "lapsed"] =
            [entries[p] EXCEPT !.desktop = "lapsed", !.gateway = entries[p].gateway]
      /\ [entries[p] EXCEPT !.gateway = "lapsed"] =
            [entries[p] EXCEPT !.desktop = entries[p].desktop, !.gateway = "lapsed"]
  BY <1>1 DEF Entry
<1>4. PICK desktop \in Leases, gateway \in Leases :
        /\ entries' = [entries EXCEPT ![p] = [@ EXCEPT !.desktop = desktop, !.gateway = gateway]]
        /\ desktop = entries[p].desktop \/ entries[p].desktop = "live"
        /\ gateway = entries[p].gateway \/ entries[p].gateway = "live"
  BY <1>2, <1>3 DEF LeaseLapses
<1>5. /\ entries' \in [Providers -> Entry \cup {None}]
      /\ \A q \in Providers : Kept(entries[q], entries'[q])
      /\ \A q \in Providers \ {p} : entries'[q] = entries[q]
      /\ entries'[p].desktop = desktop /\ entries'[p].gateway = gateway
  BY <1>4, LeaseEffect DEF LeaseLapses
<1>6. Types'
  BY <1>5 DEF Types, LeaseLapses, stored, CallTypes
<1>7. \A q \in Providers : Used(entries'[q]) => Used(entries[q])
  <2>1. Used(entries'[p]) => Used(entries[p])
    BY <1>1, <1>4, <1>5, NoneIsNothing DEF Used, Kept
  <2> QED
    BY <1>5, <2>1
<1> QED
  BY <1>5, <1>6, <1>7 DEF LeaseLapses, KeepStep, NoNewUser, Spared

\* The coordinator, as far as it only reads or stops.
LEMMA CoordinatorType ==
    /\ Idle \in Coordinator /\ Off \in Coordinator
    /\ \A targets \in [Providers -> Gated \cup {None}] :
        [Idle EXCEPT !.place = "loaded", !.targets = targets] \in Coordinator
    /\ \A removed \in SUBSET Providers :
        [Idle EXCEPT !.place = "removing", !.removed = removed] \in Coordinator
BY DEF Idle, Off, Coordinator

LEMMA StartCoordinatorEffect ==
    ASSUME Types, StartCoordinator
    PROVE  Types' /\ KeepStep /\ NoNewUser
<1>1. Types'
  BY CoordinatorType DEF Types, StartCoordinator, stored, runtime, CallTypes
<1> QED
  BY <1>1, KeptSelf DEF StartCoordinator, runtime, KeepStep, NoNewUser, Spared

LEMMA LoadGatewayTargetsEffect ==
    ASSUME Types, LoadGatewayTargets
    PROVE  Types' /\ KeepStep /\ NoNewUser
<1>1. PICK enabled \in SUBSET {p \in Providers : db[p].state = "live" /\ db[p].token \in Gated} :
        coordinator' =
            [Idle EXCEPT !.place = "loaded",
                         !.targets = [p \in Providers |->
                            IF p \in enabled THEN db[p].token ELSE None]]
  BY DEF LoadGatewayTargets
<1>2. [p \in Providers |-> IF p \in enabled THEN db[p].token ELSE None]
        \in [Providers -> Gated \cup {None}]
  OBVIOUS
<1>3. Types'
  BY <1>1, <1>2, CoordinatorType DEF Types, LoadGatewayTargets, stored, runtime, CallTypes
<1> QED
  BY <1>3, KeptSelf DEF LoadGatewayTargets, runtime, KeepStep, NoNewUser, Spared

LEMMA AbortCoordinatorEffect ==
    ASSUME Types, AbortCoordinator
    PROVE  Types' /\ KeepStep /\ NoNewUser
<1>1. Types'
  BY CoordinatorType DEF Types, AbortCoordinator, stored, runtime, CallTypes
<1> QED
  BY <1>1, KeptSelf DEF AbortCoordinator, runtime, KeepStep, NoNewUser, Spared

LEMMA RemoveRouteEntriesEffect ==
    ASSUME Types, RemoveRouteEntries
    PROVE  Types' /\ KeepStep /\ NoNewUser
<1>1. route_entries' \in [Providers -> RouteEntry \cup {None}]
  BY DEF Types, RemoveRouteEntries
<1>2. Types'
  BY <1>1, CoordinatorType DEF Types, RemoveRouteEntries, stored, CallTypes
<1> QED
  BY <1>2, KeptSelf DEF RemoveRouteEntries, KeepStep, NoNewUser, Spared

LEMMA StopCoordinatorEffect ==
    ASSUME Types, StopCoordinator
    PROVE  Types' /\ KeepStep /\ NoNewUser
<1>1. ASSUME NEW p \in Providers
      PROVE  /\ entries'[p] \in Entry \cup {None}
             /\ Kept(entries[p], entries'[p])
             /\ Used(entries'[p]) => Used(entries[p])
  <2>1. CASE entries[p] = None
    BY <2>1 DEF StopCoordinator, Kept, Used
  <2>2. CASE entries[p] # None
    <3>1. entries[p] \in Entry /\ "none" \in Leases
      BY <2>2 DEF Types, Leases
    <3>2. entries'[p] = [entries[p] EXCEPT !.gateway = "none"]
      BY <2>2 DEF StopCoordinator
    <3>3. entries'[p] \in Entry
      BY <3>1, <3>2 DEF Entry
    <3>4. Kept(entries[p], entries'[p])
      BY <3>1, <3>2, <3>3 DEF Entry, Kept
    <3> QED
      BY <2>2, <3>1, <3>2, <3>3, <3>4 DEF Entry, Used
  <2> QED
    BY <2>1, <2>2
<1>2. entries' \in [Providers -> Entry \cup {None}]
  BY <1>1 DEF StopCoordinator
<1>3. route_entries' \in [Providers -> RouteEntry \cup {None}]
  BY DEF StopCoordinator
<1>4. Types'
  BY <1>2, <1>3, CoordinatorType DEF Types, StopCoordinator, stored, CallTypes
<1> QED
  BY <1>1, <1>4 DEF StopCoordinator, KeepStep, NoNewUser, Spared

LEMMA SchedulerTurnEffect ==
    ASSUME Types, schedulers > 0, SchedulerTurn
    PROVE  Types' /\ KeepStep
<1>1. ASSUME NEW p \in Providers
      PROVE  entries'[p] \in Entry \cup {None} /\ Kept(entries[p], entries'[p])
  <2>1. entries[p] \in Entry \cup {None} /\ entries'[p] = Expired(entries[p])
    BY DEF Types, SchedulerTurn
  <2> QED
    BY <2>1, ExpiredKeeps DEF Kept
<1>2. entries' \in [Providers -> Entry \cup {None}]
  BY <1>1 DEF SchedulerTurn
<1>3. \/ scheduler_running' = FALSE /\ schedulers' = schedulers - 1
      \/ scheduler_running' = scheduler_running /\ schedulers' = schedulers
  BY Zenon DEF SchedulerTurn
<1>4. schedulers' \in Nat
  BY <1>3 DEF Types
<1>5. scheduler_running' \in BOOLEAN
  BY <1>3, Zenon DEF Types
<1>6. Types'
  BY <1>2, <1>4, <1>5 DEF Types, SchedulerTurn, stored, CallTypes
<1> QED
  BY <1>1, <1>6 DEF SchedulerTurn, KeepStep, Spared

\* The three ways to ask for a target.
LEMMA TargetedByLease ==
    ASSUME NEW e \in Entry, NEW token \in Tokens
    PROVE  /\ Targeted(e, [Synced(e, token) EXCEPT !.desktop = "live"], token)
           /\ Targeted(e, [Synced(e, token) EXCEPT !.gateway = "live"], token)
           /\ Targeted(e, RequestForceEpoch([Synced(e, token) EXCEPT !.desktop = "live"]), token)
<1> DEFINE s == Synced(e, token)
           d == [s EXCEPT !.desktop = "live"]
           g == [s EXCEPT !.gateway = "live"]
           r == RequestForceEpoch(d)
<1>1. /\ s \in Entry /\ s.token = token
      /\ s.in_flight = e.in_flight /\ s.in_flight_force = e.in_flight_force
      /\ e.token = token => s.generation = e.generation /\ s.snapshot = e.snapshot
      /\ e.token # token => s.generation = e.generation + 1 /\ s.snapshot = None
                            /\ s.pending_force = 0
      /\ e.token = token => s.pending_force = e.pending_force
      /\ s.next_force = e.next_force /\ s.completed_force = e.completed_force
  BY SyncedEffect
<1> HIDE DEF s
<1>2. "live" \in Leases
  BY DEF Leases
<1>3. /\ d \in Entry /\ d.token = s.token /\ d.generation = s.generation
      /\ d.snapshot = s.snapshot /\ d.desktop = "live"
      /\ d.in_flight = s.in_flight /\ d.in_flight_force = s.in_flight_force
      /\ d.next_force = s.next_force /\ d.completed_force = s.completed_force
      /\ d.pending_force = s.pending_force
  BY <1>1, <1>2 DEF Entry
<1>4. /\ g \in Entry /\ g.token = s.token /\ g.generation = s.generation
      /\ g.snapshot = s.snapshot /\ g.gateway = "live"
      /\ g.in_flight = s.in_flight /\ g.in_flight_force = s.in_flight_force
      /\ g.next_force = s.next_force /\ g.completed_force = s.completed_force
      /\ g.pending_force = s.pending_force
  BY <1>1, <1>2 DEF Entry
<1> HIDE DEF d, g
<1>5. /\ r \in Entry /\ r.token = d.token /\ r.generation = d.generation
      /\ r.snapshot = d.snapshot /\ r.desktop = "live"
      /\ r.in_flight = d.in_flight /\ r.in_flight_force = d.in_flight_force
      /\ r.completed_force = d.completed_force
      /\ d.pending_force > 0 => r.pending_force = d.pending_force /\ r.next_force = d.next_force
      /\ ~(d.pending_force > 0) => /\ r.next_force = d.next_force + 1
                                   /\ r.pending_force = d.next_force + 1
  BY <1>3, RequestForceEpochEffect
<1> HIDE DEF r
<1>6. Grows(e, d) /\ Grows(e, g)
  BY <1>1, <1>3, <1>4 DEF Grows
<1>7. Grows(e, r)
  <2>1. d.pending_force \in Nat
    BY <1>3 DEF Entry
  <2>2. CASE e.token = token
    BY <2>1, <2>2, <1>1, <1>3, <1>5 DEF Grows
  <2>3. CASE e.token # token
    BY <2>1, <2>3, <1>1, <1>3, <1>5 DEF Grows
  <2> QED
    BY <2>2, <2>3
<1>8. Targeted(e, d, token) /\ Targeted(e, g, token) /\ Targeted(e, r, token)
  BY <1>1, <1>3, <1>4, <1>5, <1>6, <1>7 DEF Targeted
<1> QED
  BY <1>8 DEF s, d, g, r

\* One target that a call asks for: its entry, its route entry and the rest.
LEMMA OneTarget ==
    ASSUME Types, NEW p \in Providers, NEW token \in Tokens, NEW k,
           Targeted(EntryOf(p), k, token),
           entries' = [entries EXCEPT ![p] = k],
           route_entries' = RouteSynced(route_entries, p, token, k.generation)
    PROVE  /\ entries' \in [Providers -> Entry \cup {None}]
           /\ route_entries' \in [Providers -> RouteEntry \cup {None}]
           /\ \A q \in Providers \ {p} :
                Kept(entries[q], entries'[q]) /\ route_entries'[q] = route_entries[q]
                /\ (Used(entries'[q]) => Used(entries[q]))
           /\ Targeted(EntryOf(p), entries'[p], token)
           /\ \/ route_entries'[p] = None
              \/ route_entries'[p] = NewRouteEntry(token, entries'[p].generation)
              \/ /\ route_entries'[p] = route_entries[p]
                 /\ route_entries[p].generation = entries'[p].generation
<1>1. k \in Entry /\ k.generation \in Nat
  BY DEF Targeted, Entry
<1>2. entries' \in [Providers -> Entry \cup {None}]
  BY <1>1 DEF Types
<1>3. entries'[p] = k /\ \A q \in Providers \ {p} : entries'[q] = entries[q]
  BY DEF Types
<1>4. /\ route_entries' \in [Providers -> RouteEntry \cup {None}]
      /\ \A q \in Providers \ {p} : route_entries'[q] = route_entries[q]
      /\ \/ route_entries'[p] = None
         \/ route_entries'[p] = NewRouteEntry(token, k.generation)
         \/ route_entries'[p] = route_entries[p] /\ route_entries[p].generation = k.generation
  BY <1>1, RouteSyncedType
<1> QED
  BY <1>2, <1>3, <1>4, KeptSelf

LEMMA StartSchedulerType ==
    ASSUME Types, StartSchedulerIfNeeded
    PROVE  scheduler_running' \in BOOLEAN /\ schedulers' \in Nat
<1>1. \/ scheduler_running' = TRUE /\ schedulers' = schedulers + 1
      \/ scheduler_running' = scheduler_running /\ schedulers' = schedulers
  BY Zenon DEF StartSchedulerIfNeeded
<1>2. schedulers' \in Nat
  BY <1>1 DEF Types
<1>3. scheduler_running' \in BOOLEAN
  BY <1>1, Zenon DEF Types
<1> QED
  BY <1>2, <1>3

LEMMA LoadedCall ==
    ASSUME Types, NEW c \in Calls, calls[c].place = "loaded"
    PROVE  calls[c] \in Call /\ calls[c].provider \in Providers
BY DEF Types, CallTypes

LEMMA AcquireDesktopLeaseEffect ==
    ASSUME Types, NEW c \in Calls, AcquireDesktopLease(c)
    PROVE  Types' /\ TargetStep
<1> DEFINE p == calls[c].provider
           token == calls[c].token
           k == [Synced(EntryOf(p), token) EXCEPT !.desktop = "live"]
<1>1. p \in Providers /\ token \in Tokens
  BY LoadedCall DEF AcquireDesktopLease, Call
<1>2. Targeted(EntryOf(p), k, token)
  BY <1>1, EntryOfType, TargetedByLease
<1>3. entries' = [entries EXCEPT ![p] = k]
  BY DEF AcquireDesktopLease
<1>4. route_entries' = RouteSynced(route_entries, p, token, k.generation)
  BY DEF AcquireDesktopLease
<1>5. calls' = [WakeWaiters(Republished(p, token)) EXCEPT ![c] = Returned(None)]
  BY DEF AcquireDesktopLease
<1>6. CallTypes(WakeWaiters(Republished(p, token)))
  BY WakeWaitersType DEF Types
<1>7. CallTypes(calls')
  BY <1>5, <1>6, PutCall, ReturnedType
<1> HIDE DEF p, token, k
<1>8. StartSchedulerIfNeeded /\ UNCHANGED <<stored, fetches, coordinator, life, crossed>>
  BY DEF AcquireDesktopLease
<1>9. scheduler_running' \in BOOLEAN /\ schedulers' \in Nat
  BY <1>8, StartSchedulerType
<1>10. Types'
  BY <1>1, <1>2, <1>3, <1>4, <1>7, <1>8, <1>9, OneTarget DEF Types, stored
<1> QED
  BY <1>1, <1>2, <1>3, <1>4, <1>8, <1>10, OneTarget DEF TargetStep, stored, Spared

Asking(q, g, n, l) ==
    [q EXCEPT !.place = "waiting", !.generation = g, !.wanted = n, !.life = l, !.woken = TRUE]

LEMMA AskingType ==
    ASSUME NEW q \in Call, NEW g \in Nat, NEW n \in Nat, NEW l \in Nat
    PROVE  Asking(q, g, n, l) \in Call /\ Asking(q, g, n, l).provider = q.provider
BY DEF Call, Asking

LEMMA RefreshEffect ==
    ASSUME Types, NEW c \in Calls, Refresh(c)
    PROVE  Types' /\ TargetStep
<1> DEFINE p == calls[c].provider
           token == calls[c].token
           k == RequestForceEpoch([Synced(EntryOf(p), token) EXCEPT !.desktop = "live"])
           cs == WakeWaiters(Republished(p, token))
           x == [cs[c] EXCEPT !.place = "waiting", !.generation = k.generation,
                              !.wanted = k.next_force, !.life = life, !.woken = TRUE]
<1>1. p \in Providers /\ token \in Tokens
  BY LoadedCall DEF Refresh, Call
<1>2. Targeted(EntryOf(p), k, token)
  BY <1>1, EntryOfType, TargetedByLease
<1>3. entries' = [entries EXCEPT ![p] = k]
  BY DEF Refresh
<1>4. route_entries' = RouteSynced(route_entries, p, token, k.generation)
  BY DEF Refresh
<1>5. calls' = [cs EXCEPT ![c] = x]
  BY DEF Refresh
<1>6. CallTypes(cs) /\ cs[c].provider = calls[c].provider
  <2>1. CallTypes(cs)
    BY WakeWaitersType DEF Types
  <2>2. cs[c] = calls[c] \/ cs[c] = [calls[c] EXCEPT !.woken = TRUE]
    BY DEF WakeWaiters, Wake
  <2>3. cs[c].provider = calls[c].provider
    BY <2>2, LoadedCall DEF Refresh, Call
  <2> QED
    BY <2>1, <2>3
<1> HIDE DEF cs
<1>7. k.generation \in Nat /\ k.next_force \in Nat
  BY <1>2 DEF Targeted, Entry
<1> HIDE DEF k
<1>8. x \in Call /\ x.provider = calls[c].provider
  <2>1. cs[c] \in Call /\ life \in Nat
    BY <1>6 DEF CallTypes, Types
  <2>2. /\ x \in Call
        /\ x.provider = cs[c].provider
    <3>1. x = Asking(cs[c], k.generation, k.next_force, life)
      BY DEF Asking
    <3> HIDE DEF x
    <3> QED
      BY <1>7, <2>1, <3>1, AskingType
  <2> QED
    BY <1>6, <2>2
<1> HIDE DEF x
<1>9. CallTypes(calls')
  BY <1>1, <1>5, <1>6, <1>8, PutCall
<1> HIDE DEF p, token
<1>10. StartSchedulerIfNeeded /\ UNCHANGED <<stored, fetches, coordinator, life, crossed>>
  BY DEF Refresh
<1>11. scheduler_running' \in BOOLEAN /\ schedulers' \in Nat
  BY <1>10, StartSchedulerType
<1>12. Types'
  BY <1>1, <1>2, <1>3, <1>4, <1>9, <1>10, <1>11, OneTarget DEF Types, stored
<1> QED
  BY <1>1, <1>2, <1>3, <1>4, <1>10, <1>12, OneTarget DEF TargetStep, stored, Spared

LEMMA ReplaceGatewayTargetsEffect ==
    ASSUME Types, ReplaceGatewayTargets
    PROVE  Types' /\ TargetStep
<1> DEFINE token == coordinator.targets
           targets == {p \in Providers : token[p] # None}
           removed == {p \in Providers \ targets :
                        entries[p] # None /\ entries[p].gateway # "none"}
           synced(p) == [Synced(EntryOf(p), token[p]) EXCEPT !.gateway = "live"]
<1>1. \A p \in targets : token[p] \in Tokens
  BY AccountUsageAssumption DEF AccountUsageAssumption, Types, Coordinator
<1>2. ASSUME NEW p \in targets
      PROVE  /\ entries'[p] = synced(p)
             /\ entries'[p] \in Entry
             /\ Targeted(EntryOf(p), entries'[p], token[p])
             /\ route_entries'[p] \in RouteEntry \cup {None}
             /\ \/ route_entries'[p] = None
                \/ route_entries'[p] = NewRouteEntry(token[p], entries'[p].generation)
                \/ /\ route_entries'[p] = route_entries[p]
                   /\ route_entries[p].generation = entries'[p].generation
  <2>1. /\ entries'[p] = synced(p)
        /\ route_entries'[p] = RouteSynced(route_entries, p, token[p], synced(p).generation)[p]
    BY DEF ReplaceGatewayTargets
  <2>2. Targeted(EntryOf(p), synced(p), token[p])
    BY <1>1, EntryOfType, TargetedByLease
  <2> HIDE DEF synced
  <2>3. synced(p) \in Entry /\ synced(p).generation \in Nat
    BY <2>2 DEF Targeted, Entry
  <2> QED
    BY <1>1, <2>1, <2>2, <2>3, RouteSyncedType
<1>3. ASSUME NEW p \in Providers \ targets
      PROVE  /\ entries'[p] \in Entry \cup {None}
             /\ Kept(entries[p], entries'[p])
             /\ route_entries'[p] = route_entries[p]
             /\ Used(entries'[p]) => Used(entries[p])
  <2>1. route_entries'[p] = route_entries[p]
    BY DEF ReplaceGatewayTargets
  <2>2. CASE p \notin removed
    <3>1. entries'[p] = entries[p]
      BY <2>2 DEF ReplaceGatewayTargets
    <3> QED
      BY <2>1, <3>1, KeptSelf DEF Types
  <2>3. CASE p \in removed
    <3>1. entries'[p] = [entries[p] EXCEPT !.gateway = "none"]
      BY <2>3 DEF ReplaceGatewayTargets
    <3>2. entries[p] \in Entry /\ "none" \in Leases
      BY <2>3 DEF Types, Leases
    <3>3. entries'[p] \in Entry
      BY <3>1, <3>2 DEF Entry
    <3>4. Kept(entries[p], entries'[p])
      BY <3>1, <3>2, <3>3 DEF Kept, Entry
    <3>5. Used(entries'[p]) => Used(entries[p])
      BY <2>3, <3>1, <3>2 DEF Used, Entry
    <3> QED
      BY <2>1, <3>3, <3>4, <3>5
  <2> QED
    BY <2>2, <2>3
<1>4. entries' \in [Providers -> Entry \cup {None}]
  <2>1. \A p \in Providers : entries'[p] \in Entry \cup {None}
    BY <1>2, <1>3
  <2> QED
    BY <2>1 DEF ReplaceGatewayTargets
<1>5. route_entries' \in [Providers -> RouteEntry \cup {None}]
  <2>1. \A p \in Providers : route_entries'[p] \in RouteEntry \cup {None}
    BY <1>2, <1>3 DEF Types
  <2> QED
    BY <2>1 DEF ReplaceGatewayTargets
<1>6. CallTypes(calls')
  BY WakeWaitersType DEF ReplaceGatewayTargets, Types
<1>7. coordinator' \in Coordinator
  <2>1. removed \in SUBSET Providers
    OBVIOUS
  <2>2. \/ coordinator' = Idle
        \/ coordinator' = [Idle EXCEPT !.place = "removing", !.removed = removed]
    BY DEF ReplaceGatewayTargets
  <2> HIDE DEF removed
  <2> QED
    BY <2>1, <2>2, CoordinatorType
<1>8. StartSchedulerIfNeeded /\ UNCHANGED <<stored, fetches, life, crossed>>
  BY DEF ReplaceGatewayTargets
<1>9. scheduler_running' \in BOOLEAN /\ schedulers' \in Nat
  BY <1>8, StartSchedulerType
<1>10. Types'
  BY <1>4, <1>5, <1>6, <1>7, <1>8, <1>9 DEF Types, stored
<1>11. \A p \in Providers :
        \/ Kept(entries[p], entries'[p]) /\ route_entries'[p] = route_entries[p]
           /\ (Used(entries'[p]) => Used(entries[p]))
        \/ \E t \in Tokens :
            /\ Targeted(EntryOf(p), entries'[p], t)
            /\ \/ route_entries'[p] = None
               \/ route_entries'[p] = NewRouteEntry(t, entries'[p].generation)
               \/ /\ route_entries'[p] = route_entries[p]
                  /\ route_entries[p].generation = entries'[p].generation
  BY <1>1, <1>2, <1>3
<1> QED
  BY <1>8, <1>10, <1>11 DEF TargetStep, stored, Spared

\* One target is dropped, in both tables.
InvalidateStep ==
    /\ \E p \in Providers :
        /\ \/ entries[p] = None /\ entries'[p] = None
           \/ entries[p] \in Entry /\ entries'[p] = Invalidated(entries[p])
        /\ route_entries'[p] = None
        /\ \A q \in Providers \ {p} :
            entries'[q] = entries[q] /\ route_entries'[q] = route_entries[q]
        /\ saving \ {p} \subseteq saving'
    /\ UNCHANGED <<Spared, db, scheduler_running, schedulers, importing, changes>>

LEMMA InvalidateEffect ==
    ASSUME Types, NEW p \in Providers, Invalidate(p)
    PROVE  /\ entries' \in [Providers -> Entry \cup {None}]
           /\ route_entries' \in [Providers -> RouteEntry \cup {None}]
           /\ \/ entries[p] = None /\ entries'[p] = None
              \/ entries[p] \in Entry /\ entries'[p] = Invalidated(entries[p])
           /\ route_entries'[p] = None
           /\ \A q \in Providers \ {p} :
                entries'[q] = entries[q] /\ route_entries'[q] = route_entries[q]
           /\ UNCHANGED <<scheduler_running, schedulers>>
<1>1. /\ entries \in [Providers -> Entry \cup {None}]
      /\ route_entries \in [Providers -> RouteEntry \cup {None}]
  BY DEF Types
<1>2. entries' = [entries EXCEPT ![p] = IF entries[p] = None THEN None ELSE Invalidated(entries[p])]
  BY DEF Invalidate
<1>3. entries[p] # None => entries[p] \in Entry /\ Invalidated(entries[p]) \in Entry
  BY <1>1, InvalidatedEffect
<1>4. entries' \in [Providers -> Entry \cup {None}]
  BY <1>1, <1>2, <1>3
<1>5. /\ entries'[p] = IF entries[p] = None THEN None ELSE Invalidated(entries[p])
      /\ \A q \in Providers \ {p} : entries'[q] = entries[q]
  BY <1>1, <1>2
<1>6. /\ route_entries' \in [Providers -> RouteEntry \cup {None}]
      /\ route_entries'[p] = None
      /\ \A q \in Providers \ {p} : route_entries'[q] = route_entries[q]
  BY <1>1 DEF Invalidate
<1>7. UNCHANGED <<scheduler_running, schedulers>>
  BY DEF Invalidate
<1> QED
  BY <1>3, <1>4, <1>5, <1>6, <1>7

LEMMA InvalidateSavedEffect ==
    ASSUME Types, NEW p \in Providers, InvalidateSaved(p)
    PROVE  Types' /\ InvalidateStep
<1>1. Invalidate(p)
  BY DEF InvalidateSaved
<1>2. CallTypes(calls')
  BY WakeWaitersType DEF InvalidateSaved, Types
<1>3. saving' = saving \ {p} /\ UNCHANGED <<changes, db, importing, fetches, coordinator, life, crossed>>
  BY DEF InvalidateSaved
<1>4. Types'
  BY <1>1, <1>2, <1>3, InvalidateEffect DEF Types
<1> QED
  BY <1>1, <1>3, <1>4, InvalidateEffect DEF InvalidateStep, Spared

LEMMA InvalidateUnconfiguredEffect ==
    ASSUME Types, NEW c \in Calls, InvalidateUnconfigured(c)
    PROVE  Types' /\ InvalidateStep
<1> DEFINE p == calls[c].provider
           cs == IF entries[p] = None THEN calls ELSE WakeWaiters({p})
<1>1. p \in Providers /\ Invalidate(p)
  BY LoadedCall DEF InvalidateUnconfigured
<1>2. CallTypes(cs)
  BY WakeWaitersType DEF Types
<1>3. calls' = [cs EXCEPT ![c] = Returned(None)]
  BY DEF InvalidateUnconfigured
<1> HIDE DEF cs, p
<1>4. CallTypes(calls')
  BY <1>2, <1>3, PutCall, ReturnedType
<1>5. UNCHANGED <<stored, fetches, coordinator, life, crossed>>
  BY DEF InvalidateUnconfigured
<1>6. Types'
  BY <1>1, <1>4, <1>5, InvalidateEffect DEF Types, stored
<1> QED
  BY <1>1, <1>5, <1>6, InvalidateEffect DEF InvalidateStep, stored, Spared

LEMMA ResetAllEffect ==
    ASSUME Types, ResetAll
    PROVE  Types'
<1>1. CallTypes(calls')
  BY WakeWaitersType DEF ResetAll, Types
<1>2. life' \in Nat
  BY DEF ResetAll, Types
<1>3. /\ entries' \in [Providers -> Entry \cup {None}]
      /\ route_entries' \in [Providers -> RouteEntry \cup {None}]
  BY DEF ResetAll
<1>4. importing' \in BOOLEAN /\ scheduler_running' \in BOOLEAN
  BY Zenon DEF ResetAll
<1> QED
  BY <1>1, <1>2, <1>3, <1>4 DEF ResetAll, Types

LEMMA ReadProviderEffect ==
    ASSUME Types, NEW f \in fetches, ReadProvider(f)
    PROVE  /\ Types'
           /\ [f EXCEPT !.version = db[f.provider].version] \in Fetch
           /\ f \in Fetch /\ f.provider \in Providers
<1>1. f \in Fetch /\ f.provider \in Providers
  BY DEF Types, Fetch
<1>2. db[f.provider].version \in Nat
  BY <1>1 DEF Types, StoredProvider
<1>3. [f EXCEPT !.version = db[f.provider].version] \in Fetch
  BY <1>1, <1>2 DEF Fetch
<1>4. Types'
  BY <1>3 DEF Types, ReadProvider, stored, runtime, CallTypes
<1> QED
  BY <1>1, <1>3, <1>4

\* A fetch starts: the entry remembers which.
DispatchStep(p, f) ==
    /\ f \in Fetch
    /\ f.provider = p /\ f.life = life /\ f.version = None
    /\ fetches' = fetches \cup {f}
    /\ entries[p] \in Entry /\ entries'[p] \in Entry
    /\ entries[p].token # None /\ entries[p].in_flight = 0
    /\ entries'[p].token = entries[p].token
    /\ entries'[p].generation = entries[p].generation
    /\ entries'[p].snapshot = entries[p].snapshot
    /\ f.generation = entries[p].generation
    /\ entries'[p].in_flight = f.generation
    /\ entries'[p].in_flight_force = f.epoch
    /\ f.epoch = entries[p].pending_force /\ entries'[p].pending_force = 0
    /\ entries'[p].next_force = entries[p].next_force
    /\ entries'[p].completed_force = entries[p].completed_force
    /\ f.calls = {c \in Calls : calls[c].place = "waiting" /\ calls[c].provider = p}
    /\ UNCHANGED <<calls, life, crossed>>
    /\ \A q \in Providers \ {p} : Kept(entries[q], entries'[q])
    /\ \A q \in Providers : Used(entries'[q]) => Used(entries[q])

LEMMA DispatchEffect ==
    ASSUME Types, NEW p \in Providers, Dispatch(p)
    PROVE  Types' /\ \E f : DispatchStep(p, f)
<1> DEFINE e == Expired(entries[p])
           k == [e EXCEPT !.in_flight = e.generation, !.in_flight_force = e.pending_force,
                          !.pending_force = 0]
           f == [provider |-> p, generation |-> e.generation, epoch |-> e.pending_force,
                 life |-> life, version |-> None,
                 calls |-> {c \in Calls : calls[c].place = "waiting" /\ calls[c].provider = p}]
<1>1. \A q \in Providers : entries[q] \in Entry \cup {None}
  BY DEF Types
<1>2. e # None /\ e.token # None /\ HasActiveConsumer(e) /\ e.in_flight = 0
  BY DEF Dispatch, HasActiveConsumer
<1>3. entries[p] # None
  BY <1>2 DEF Expired
<1>4. e \in Entry /\ Kept(entries[p], e) /\ entries[p] \in Entry
  BY <1>1, <1>3, ExpiredKeeps
<1>5. /\ entries[p].token = e.token /\ entries[p].generation = e.generation
      /\ entries[p].snapshot = e.snapshot /\ entries[p].in_flight = 0
      /\ entries[p].pending_force = e.pending_force
      /\ entries[p].in_flight_force = e.in_flight_force
      /\ entries[p].next_force = e.next_force /\ entries[p].completed_force = e.completed_force
  BY <1>2, <1>3, <1>4 DEF Kept
<1>6. Used(entries[p])
  <2>1. CASE e.pending_force > 0 \/ e.in_flight_force > 0
    BY <2>1, <1>2, <1>3, <1>5 DEF Used
  <2>2. CASE "live" \in {e.desktop, e.gateway}
    <3>1. entries[p].desktop = "live" \/ entries[p].gateway = "live"
      BY <2>2, <1>1, <1>3, ExpiredKeeps
    <3> QED
      BY <3>1, <1>2, <1>3, <1>5 DEF Used
  <2> QED
    BY <2>1, <2>2, <1>2 DEF HasActiveConsumer
<1>7. /\ entries'[p] = k
      /\ \A q \in Providers \ {p} : entries'[q] = Expired(entries[q])
      /\ fetches' = fetches \cup {f}
  BY DEF Dispatch
<1>8. f \in Fetch
  BY <1>4 DEF Fetch, Entry, Types
<1>9. k \in Entry /\ k.token = e.token /\ k.generation = e.generation /\ k.snapshot = e.snapshot
      /\ k.in_flight = e.generation /\ k.in_flight_force = e.pending_force
      /\ k.pending_force = 0 /\ k.next_force = e.next_force
      /\ k.completed_force = e.completed_force
  BY <1>4 DEF Entry
<1>10. ASSUME NEW q \in Providers \ {p}
       PROVE  /\ entries'[q] \in Entry \cup {None} /\ Kept(entries[q], entries'[q])
              /\ Used(entries'[q]) => Used(entries[q])
  <2>1. Kept(entries[q], entries'[q])
    BY <1>1, <1>7, ExpiredKeeps
  <2>2. ASSUME Used(entries'[q]) PROVE Used(entries[q])
    <3>1. entries'[q] # None /\ entries[q] # None
      BY <2>1, <2>2, NoneIsNothing DEF Used, Kept
    <3>2. /\ entries'[q].desktop # "none" => entries[q].desktop = "live"
          /\ entries'[q].gateway # "none" => entries[q].gateway = "live"
      BY <1>1, <1>7, <3>1, ExpiredKeeps
    <3> QED
      BY <2>1, <2>2, <3>1, <3>2 DEF Used, Kept
  <2> QED
    BY <2>1, <2>2 DEF Kept
<1>11. entries' \in [Providers -> Entry \cup {None}]
  <2>1. \A q \in Providers : entries'[q] \in Entry \cup {None}
    BY <1>7, <1>9, <1>10
  <2> QED
    BY <2>1 DEF Dispatch
<1>12. f.provider = p /\ f.life = life /\ f.version = None /\ f.generation = e.generation
       /\ f.epoch = e.pending_force
       /\ f.calls = {c \in Calls : calls[c].place = "waiting" /\ calls[c].provider = p}
  OBVIOUS
<1> HIDE DEF e, k, f
<1>13. Types'
  BY <1>7, <1>8, <1>11 DEF Types, Dispatch, stored, CallTypes
<1>14. \A q \in Providers : Used(entries'[q]) => Used(entries[q])
  BY <1>6, <1>10
<1>15. DispatchStep(p, f)
  <2>1. UNCHANGED <<calls, life, crossed>>
    BY DEF Dispatch
  <2> QED
    BY <2>1, <1>2, <1>4, <1>5, <1>7, <1>8, <1>9, <1>10, <1>12, <1>14 DEF DispatchStep
<1> QED
  BY <1>13, <1>15

\* A fetch lands: the entry that waits for it waits no longer, and takes the result
\* when its target is still the same.
LandStep(f, x) ==
    /\ f \in fetches
    /\ fetches' = fetches \ {f}
    /\ \A q \in Providers \ {f.provider} :
        entries'[q] = entries[q] /\ route_entries'[q] = route_entries[q]
    /\ \/ /\ ~Matches(entries[f.provider], f)
          /\ entries'[f.provider] = entries[f.provider]
          /\ route_entries'[f.provider] = route_entries[f.provider]
          /\ crossed' = crossed
       \/ /\ Matches(entries[f.provider], f)
          /\ entries[f.provider] \in Entry /\ entries'[f.provider] \in Entry
          /\ entries'[f.provider].token = entries[f.provider].token
          /\ entries'[f.provider].generation = entries[f.provider].generation
          /\ entries'[f.provider].in_flight = 0
          /\ entries'[f.provider].in_flight_force = 0
          /\ entries'[f.provider].pending_force = entries[f.provider].pending_force
          /\ entries'[f.provider].next_force = entries[f.provider].next_force
          /\ \/ /\ ~Accepts(entries[f.provider], f)
                /\ entries'[f.provider].completed_force = entries[f.provider].completed_force
                /\ entries'[f.provider].snapshot = entries[f.provider].snapshot
                /\ route_entries'[f.provider] = route_entries[f.provider]
             \/ /\ entries[f.provider].generation = f.generation
                /\ entries'[f.provider].completed_force =
                        IF f.epoch > entries[f.provider].completed_force
                        THEN f.epoch ELSE entries[f.provider].completed_force
                /\ entries'[f.provider].snapshot = x
                /\ x \in Snapshot /\ (x.version = None \/ x.version = f.version)
                /\ x.calls = f.calls
                /\ \/ /\ route_entries[f.provider] \in RouteEntry
                      /\ route_entries[f.provider].generation = f.generation
                      /\ route_entries'[f.provider] = [route_entries[f.provider] EXCEPT !.snapshot = x]
                   \/ /\ ~(/\ route_entries[f.provider] # None
                           /\ route_entries[f.provider].generation = f.generation)
                      /\ route_entries'[f.provider] = route_entries[f.provider]
          /\ crossed' = IF f.life # life THEN crossed \cup {f.provider} ELSE crossed
    /\ calls' = IF Matches(entries[f.provider], f) THEN WakeWaiters({f.provider}) ELSE calls
    /\ UNCHANGED <<stored, scheduler_running, schedulers, life>>

LEMMA CompleteFetchEffect ==
    ASSUME Types, NEW f \in fetches, NEW ok \in BOOLEAN, CompleteFetch(f, ok)
    PROVE  /\ Types'
           /\ \E x : LandStep(f, x)
           /\ \A q \in Providers : Used(entries'[q]) => Used(entries[q])
<1> DEFINE p == f.provider
           e == entries[p]
           r == route_entries[p]
           landed == [e EXCEPT !.in_flight = 0, !.in_flight_force = 0]
           x == [version |-> IF ok THEN f.version ELSE None, calls |-> f.calls]
           accepted == Matches(e, f) /\ Accepts(e, f)
           k == IF accepted THEN Stores(landed, f, x) ELSE IF Matches(e, f) THEN landed ELSE e
           s == IF accepted /\ r # None /\ r.generation = f.generation
                THEN [r EXCEPT !.snapshot = x] ELSE r
<1>1. f \in Fetch /\ p \in Providers
  BY DEF Types, Fetch
<1>2. /\ entries \in [Providers -> Entry \cup {None}]
      /\ route_entries \in [Providers -> RouteEntry \cup {None}]
  BY DEF Types
<1>3. x \in Snapshot /\ (x.version = None \/ x.version = f.version) /\ x.calls = f.calls
  BY <1>1 DEF Snapshot, Fetch
<1>4. /\ fetches' = fetches \ {f}
      /\ entries' = [entries EXCEPT ![p] = k]
      /\ route_entries' = [route_entries EXCEPT ![p] = s]
      /\ crossed' = IF Matches(e, f) /\ f.life # life THEN crossed \cup {p} ELSE crossed
      /\ calls' = IF Matches(e, f) THEN WakeWaiters({p}) ELSE calls
      /\ UNCHANGED <<stored, scheduler_running, schedulers, coordinator, life>>
  BY DEF CompleteFetch
<1>5. Matches(e, f) =>
        /\ e \in Entry /\ landed \in Entry
        /\ landed.token = e.token /\ landed.generation = e.generation
        /\ landed.snapshot = e.snapshot
        /\ landed.in_flight = 0 /\ landed.in_flight_force = 0
        /\ landed.pending_force = e.pending_force
        /\ landed.desktop = e.desktop /\ landed.gateway = e.gateway
        /\ landed.next_force = e.next_force /\ landed.completed_force = e.completed_force
  <2>1. ASSUME e \in Entry
        PROVE  /\ landed \in Entry
               /\ landed.token = e.token /\ landed.generation = e.generation
               /\ landed.snapshot = e.snapshot
               /\ landed.in_flight = 0 /\ landed.in_flight_force = 0
               /\ landed.pending_force = e.pending_force
               /\ landed.desktop = e.desktop /\ landed.gateway = e.gateway
               /\ landed.next_force = e.next_force /\ landed.completed_force = e.completed_force
    BY <2>1 DEF Entry
  <2>2. Matches(e, f) => e \in Entry
    BY <1>1, <1>2 DEF Matches
  <2> QED
    BY <2>1, <2>2
<1> HIDE DEF landed, x
<1>6. accepted =>
        /\ k \in Entry
        /\ k.token = landed.token /\ k.generation = landed.generation /\ k.snapshot = x
        /\ k.in_flight = landed.in_flight /\ k.in_flight_force = landed.in_flight_force
        /\ k.pending_force = landed.pending_force
        /\ k.desktop = landed.desktop /\ k.gateway = landed.gateway
        /\ k.next_force = landed.next_force
        /\ k.completed_force = IF f.epoch > landed.completed_force
                               THEN f.epoch ELSE landed.completed_force
  <2>1. SUFFICES ASSUME accepted
                 PROVE  /\ k \in Entry
                        /\ k.token = landed.token /\ k.generation = landed.generation
                        /\ k.snapshot = x
                        /\ k.in_flight = landed.in_flight
                        /\ k.in_flight_force = landed.in_flight_force
                        /\ k.pending_force = landed.pending_force
                        /\ k.desktop = landed.desktop /\ k.gateway = landed.gateway
                        /\ k.next_force = landed.next_force
                        /\ k.completed_force = IF f.epoch > landed.completed_force
                                               THEN f.epoch ELSE landed.completed_force
    OBVIOUS
  <2>2. landed.completed_force \in Nat /\ f.epoch \in Nat /\ landed \in Entry
    BY <1>1, <1>5, <2>1 DEF Entry, Fetch
  <2>3. PICK n \in Nat :
            /\ k = [landed EXCEPT !.snapshot = x, !.completed_force = n]
            /\ n = IF f.epoch > landed.completed_force THEN f.epoch ELSE landed.completed_force
    BY <2>1, <2>2 DEF Stores
  <2> HIDE DEF k
  <2> QED
    BY <2>2, <2>3, <1>3 DEF Entry
<1>7. k \in Entry \cup {None}
  BY <1>1, <1>2, <1>5, <1>6
<1>8. /\ s \in RouteEntry \cup {None}
      /\ r # None => r \in RouteEntry
  <2>1. r \in RouteEntry \cup {None}
    BY <1>1, <1>2
  <2>2. r # None => [r EXCEPT !.snapshot = x] \in RouteEntry
    BY <1>3, <2>1 DEF RouteEntry
  <2> QED
    BY <2>1, <2>2
<1>9. /\ entries'[p] = k /\ route_entries'[p] = s
      /\ \A q \in Providers \ {p} : entries'[q] = entries[q] /\ route_entries'[q] = route_entries[q]
      /\ entries' \in [Providers -> Entry \cup {None}]
      /\ route_entries' \in [Providers -> RouteEntry \cup {None}]
  BY <1>1, <1>2, <1>4, <1>7, <1>8
<1>10. CallTypes(calls')
  BY WakeWaitersType DEF Types, CompleteFetch
<1>11. Types'
  BY <1>1, <1>4, <1>9, <1>10 DEF Types, stored
<1>12. LandStep(f, x)
  <2>1. CASE ~Matches(e, f)
    BY <2>1, <1>4, <1>9 DEF LandStep
  <2>2. CASE Matches(e, f) /\ ~Accepts(e, f)
    <3>1. k = landed /\ s = r
      BY <2>2
    <3> HIDE DEF k, s
    <3> QED
      BY <2>2, <3>1, <1>4, <1>5, <1>9 DEF LandStep
  <2>3. CASE Matches(e, f) /\ Accepts(e, f)
    <3>1. e.generation = f.generation
      BY <2>3 DEF Accepts
    <3>2. \/ r \in RouteEntry /\ r.generation = f.generation /\ s = [r EXCEPT !.snapshot = x]
          \/ ~(r # None /\ r.generation = f.generation) /\ s = r
      BY <2>3, <1>8
    <3>3. accepted
      BY <2>3
    <3> HIDE DEF k, s, accepted
    <3> QED
      BY <2>3, <3>1, <3>2, <3>3, <1>3, <1>4, <1>5, <1>6, <1>9 DEF LandStep
  <2> QED
    BY <2>1, <2>2, <2>3
<1>13. ASSUME NEW q \in Providers, Used(entries'[q])
       PROVE  Used(entries[q])
  <2>1. CASE q # p
    BY <2>1, <1>9, <1>13
  <2>2. CASE q = p /\ k = e
    BY <2>2, <1>9, <1>13
  <2>3. CASE q = p /\ Matches(e, f)
    <3>1. /\ k.token = e.token /\ k.pending_force = e.pending_force /\ k.in_flight_force = 0
          /\ k.desktop = e.desktop /\ k.gateway = e.gateway
      <4>1. CASE accepted
        <5> HIDE DEF k, accepted
        <5> QED
          BY <2>3, <4>1, <1>5, <1>6
      <4>2. CASE ~accepted
        <5>1. k = landed
          BY <2>3, <4>2
        <5> HIDE DEF k
        <5> QED
          BY <2>3, <5>1, <1>5
      <4> QED
        BY <4>1, <4>2
    <3> HIDE DEF k
    <3> QED
      BY <2>3, <3>1, <1>5, <1>9, <1>13, NoneIsNothing DEF Used
  <2> QED
    BY <2>1, <2>2, <2>3
<1> QED
  BY <1>11, <1>12, <1>13

-----------------------------------------------------------------------------
(* The invariant of entries, route entries and fetches.                     *)

\* A provider that changes is being saved, is gone or is new.
DbStep ==
    /\ saving \subseteq saving'
    /\ \A p \in Providers :
        /\ db'[p].state = "unborn" => db[p].state = "unborn"
        /\ \/ p \in saving'
           \/ db'[p].state # "live"
           \/ db[p].state = "unborn"
           \/ db'[p].version = db[p].version /\ db[p].state = "live"

LEMMA DbUnchanged ==
    ASSUME UNCHANGED <<db, saving>>
    PROVE  DbStep
BY DEF DbStep

LEMMA DbChanges ==
    ASSUME Types,
           \/ \E p \in Providers :
                DeleteProvider(p) \/ \E token \in Tokens \cup {None} : SaveProvider(p, token)
           \/ ImportConfig
    PROVE  DbStep
<1>1. \A p \in Providers : db[p] \in StoredProvider
  BY DEF Types
<1>2. CASE ImportConfig
  <2>1. \A p \in Providers :
            db'[p].state = IF db[p].state = "unborn" THEN "live" ELSE "deleted"
    BY <1>1, <1>2 DEF ImportConfig, StoredProvider
  <2> QED
    BY <1>2, <2>1 DEF ImportConfig, DbStep
<1>3. ASSUME NEW p \in Providers, DeleteProvider(p) PROVE DbStep
  <2>1. /\ db'[p].state = "deleted"
        /\ \A q \in Providers \ {p} : db'[q] = db[q]
    BY <1>1, <1>3 DEF DeleteProvider, Types, StoredProvider
  <2> QED
    BY <1>3, <2>1 DEF DeleteProvider, DbStep
<1>4. ASSUME NEW p \in Providers, NEW token \in Tokens \cup {None}, SaveProvider(p, token)
      PROVE  DbStep
  <2>1. /\ db'[p].state = db[p].state
        /\ \A q \in Providers \ {p} : db'[q] = db[q]
    BY <1>1, <1>4 DEF SaveProvider, Types, StoredProvider
  <2>2. saving' = saving \cup {p}
    BY <1>4 DEF SaveProvider
  <2> QED
    BY <1>4, <2>1, <2>2 DEF DbStep
<1> QED
  BY <1>2, <1>3, <1>4

\* A step of the window, the coordinator or the scheduler that moves no target.
LEMMA KeepPreserves ==
    ASSUME Types, Types', DataInv, KeepStep, DbStep
    PROVE  DataInv'
<1>1. \A p \in Providers : Kept(entries[p], entries'[p])
  BY DEF KeepStep
<1>2. fetches' = fetches /\ life' = life /\ crossed' = crossed
  BY DEF KeepStep, Spared
<1>3. \A f \in fetches : f \in Fetch /\ f.provider \in Providers
  BY DEF Types, Fetch
<1>4. RouteShowsSnapshot'
  <2> SUFFICES ASSUME NEW p \in Providers, route_entries'[p] # None, route_entries'[p].snapshot # None
               PROVE  /\ entries'[p] # None
                      /\ entries'[p].generation = route_entries'[p].generation
                      /\ entries'[p].snapshot = route_entries'[p].snapshot
    BY DEF RouteShowsSnapshot
  <2>1. route_entries'[p] = route_entries[p]
    BY DEF KeepStep
  <2>2. /\ entries[p] # None
        /\ entries[p].generation = route_entries[p].generation
        /\ entries[p].snapshot = route_entries[p].snapshot
    BY <2>1 DEF DataInv, RouteShowsSnapshot
  <2> QED
    BY <1>1, <2>1, <2>2, NoneIsNothing DEF Kept
<1>5. Generations'
  <2>1. \A p \in Providers : entries'[p] # None =>
            /\ entries[p] # None /\ entries'[p].token = entries[p].token
            /\ entries'[p].generation = entries[p].generation
            /\ entries'[p].snapshot = entries[p].snapshot
    BY <1>1, NoneIsNothing DEF Kept
  <2> QED
    BY <1>2, <1>3, <2>1 DEF Generations, DataInv, DbStep
<1>6. InFlight'
  <2>1. ASSUME NEW f \in fetches, f.life = life, f.provider \notin crossed
        PROVE  /\ Matches(entries'[f.provider], f)
               /\ f.generation <= entries'[f.provider].generation
    <3>1. /\ Matches(entries[f.provider], f)
          /\ f.generation <= entries[f.provider].generation
      BY <2>1 DEF DataInv, InFlight
    <3> QED
      BY <1>1, <1>3, <3>1, NoneIsNothing DEF Matches, Kept
  <2> QED
    BY <1>2, <2>1 DEF DataInv, InFlight
<1>7. FetchIsCurrent'
  <2> SUFFICES ASSUME NEW f \in fetches, f.life = life, f.provider \notin saving' \cup crossed,
                      db'[f.provider].state = "live", f.version # None,
                      entries'[f.provider].generation = f.generation
               PROVE  f.version = db'[f.provider].version
    BY <1>2 DEF FetchIsCurrent
  <2>1. Matches(entries[f.provider], f) /\ db[f.provider].state # "unborn"
    BY DEF DataInv, InFlight, Generations
  <2>2. entries[f.provider].generation = f.generation
    BY <1>1, <1>3, <2>1 DEF Matches, Kept
  <2>3. db'[f.provider].version = db[f.provider].version /\ db[f.provider].state = "live"
    BY <1>3, <2>1 DEF DbStep
  <2> QED
    BY <2>2, <2>3 DEF DataInv, FetchIsCurrent, DbStep
<1>8. SnapshotIsCurrent'
  <2> SUFFICES ASSUME NEW p \in Providers, p \notin saving' \cup crossed,
                      db'[p].state = "live", entries'[p] # None, entries'[p].snapshot # None,
                      entries'[p].snapshot.version # None
               PROVE  entries'[p].snapshot.version = db'[p].version
    BY <1>2 DEF SnapshotIsCurrent
  <2>1. entries[p] # None /\ entries'[p].snapshot = entries[p].snapshot
    BY <1>1, NoneIsNothing DEF Kept
  <2>2. db[p].state # "unborn"
    BY <2>1 DEF DataInv, Generations
  <2>3. db'[p].version = db[p].version /\ db[p].state = "live"
    BY <2>2 DEF DbStep
  <2> QED
    BY <2>1, <2>3 DEF DataInv, SnapshotIsCurrent, DbStep
<1> QED
  BY <1>4, <1>5, <1>6, <1>7, <1>8 DEF DataInv

\* An entry that was there keeps waiting for its fetch; its snapshot goes with its
\* generation, which never falls.
Moved(e, k) ==
    /\ e # None => /\ k # None
                   /\ k.in_flight = e.in_flight /\ k.in_flight_force = e.in_flight_force
                   /\ k.generation = e.generation \/ k.generation = e.generation + 1
                   /\ k.snapshot # None => k.generation = e.generation /\ k.snapshot = e.snapshot
    /\ e = None /\ k # None => k.snapshot = None
    /\ k # None /\ k.token # None => k.generation >= 1

LEMMA TargetMoves ==
    ASSUME Types, Generations, TargetStep, NEW p \in Providers
    PROVE  Moved(entries[p], entries'[p])
<1>1. entries[p] \in Entry \cup {None}
  BY DEF Types
<1>2. CASE Kept(entries[p], entries'[p])
  BY <1>1, <1>2, NoneIsNothing DEF Kept, Moved, Generations, Entry
<1>3. ASSUME NEW token \in Tokens, Targeted(EntryOf(p), entries'[p], token)
      PROVE  Moved(entries[p], entries'[p])
  <2>1. CASE entries[p] = None
    <3>1. EntryOf(p).token = None /\ EntryOf(p).generation = 0
      BY <2>1, EntryOfType DEF DefaultEntry
    <3>2. entries'[p] # None /\ entries'[p].generation = 1 /\ entries'[p].snapshot = None
      BY <1>3, <3>1, NoneIsNothing DEF Targeted
    <3> QED
      BY <2>1, <3>2 DEF Moved
  <2>2. CASE entries[p] # None
    <3>1. EntryOf(p) = entries[p] /\ entries[p] \in Entry /\ entries[p].generation \in Nat
      BY <2>2, EntryOfType DEF Entry
    <3>2. CASE entries[p].token = token
      BY <2>2, <3>1, <3>2, <1>3, NoneIsNothing DEF Targeted, Moved, Generations
    <3>3. CASE entries[p].token # token
      BY <2>2, <3>1, <3>3, <1>3, NoneIsNothing DEF Targeted, Moved
    <3> QED
      BY <3>2, <3>3
  <2> QED
    BY <2>1, <2>2
<1> QED
  BY <1>2, <1>3 DEF TargetStep

LEMMA InvalidateMoves ==
    ASSUME Types, Generations, InvalidateStep, NEW p \in Providers
    PROVE  Moved(entries[p], entries'[p])
<1>1. entries[p] \in Entry \cup {None}
  BY DEF Types
<1>2. CASE entries'[p] = entries[p]
  BY <1>1, <1>2 DEF Moved, Generations, Entry
<1>3. CASE entries[p] \in Entry /\ entries'[p] = Invalidated(entries[p])
  BY <1>3, InvalidatedEffect, NoneIsNothing DEF Moved
<1> QED
  BY <1>2, <1>3 DEF InvalidateStep

\* Steps that move entries and leave the fetches and the database.
LEMMA MovePreserves ==
    ASSUME Types, Types', DataInv, UNCHANGED <<Spared, db>>,
           \A p \in Providers : Moved(entries[p], entries'[p]),
           \A p \in saving \ saving' :
              entries[p] # None => /\ entries'[p].generation = entries[p].generation + 1
                                  /\ entries'[p].snapshot = None
    PROVE  Generations' /\ InFlight' /\ FetchIsCurrent' /\ SnapshotIsCurrent'
<1>1. fetches' = fetches /\ life' = life /\ crossed' = crossed /\ db' = db
  BY DEF Spared
<1>2. \A f \in fetches : f \in Fetch /\ f.provider \in Providers /\ f.generation \in Nat
  BY DEF Types, Fetch
<1>3. \A p \in Providers : entries[p] # None => entries[p].generation \in Nat
  BY DEF Types, Entry
<1>4. Generations'
  <2>1. \A p \in Providers : entries'[p] # None /\ entries'[p].snapshot # None =>
            entries[p] # None /\ entries'[p].snapshot = entries[p].snapshot
    BY DEF Moved
  <2> QED
    BY <1>1, <1>2, <2>1 DEF Generations, DataInv, Moved
<1>5. ASSUME NEW f \in fetches, f.life = life, f.provider \notin crossed
      PROVE  /\ Matches(entries[f.provider], f) /\ Matches(entries'[f.provider], f)
             /\ f.generation <= entries[f.provider].generation
             /\ f.generation <= entries'[f.provider].generation
  <2>1. /\ Matches(entries[f.provider], f)
        /\ f.generation <= entries[f.provider].generation
    BY <1>5 DEF DataInv, InFlight
  <2> QED
    BY <1>2, <1>3, <2>1 DEF Matches, Moved
<1>6. InFlight'
  BY <1>1, <1>5 DEF InFlight, DataInv
<1>7. FetchIsCurrent'
  <2> SUFFICES ASSUME NEW f \in fetches, f.life = life, f.provider \notin saving' \cup crossed,
                      db[f.provider].state = "live", f.version # None,
                      entries'[f.provider].generation = f.generation
               PROVE  f.version = db[f.provider].version
    BY <1>1 DEF FetchIsCurrent
  <2>1. /\ entries[f.provider] # None /\ f.generation <= entries[f.provider].generation
        /\ entries[f.provider].generation \in Nat
    BY <1>2, <1>3, <1>5 DEF Matches
  <2>2. entries[f.provider].generation = f.generation
    BY <1>2, <2>1 DEF Moved
  <2>3. f.provider \notin saving
    BY <1>2, <2>1, <2>2
  <2> QED
    BY <2>2, <2>3 DEF FetchIsCurrent, DataInv
<1>8. SnapshotIsCurrent'
  <2> SUFFICES ASSUME NEW p \in Providers, p \notin saving' \cup crossed,
                      db[p].state = "live", entries'[p] # None, entries'[p].snapshot # None,
                      entries'[p].snapshot.version # None
               PROVE  entries'[p].snapshot.version = db[p].version
    BY <1>1 DEF SnapshotIsCurrent
  <2>1. entries[p] # None /\ entries'[p].snapshot = entries[p].snapshot
    BY DEF Moved
  <2>2. p \notin saving
    BY <2>1
  <2> QED
    BY <2>1, <2>2 DEF SnapshotIsCurrent, DataInv
<1> QED
  BY <1>4, <1>6, <1>7, <1>8

LEMMA TargetPreserves ==
    ASSUME Types, Types', DataInv, TargetStep
    PROVE  DataInv'
<1>1. \A p \in Providers : Moved(entries[p], entries'[p])
  BY TargetMoves DEF DataInv
<1>2. UNCHANGED <<Spared, db>> /\ saving' = saving
  BY DEF TargetStep
<1>3. Generations' /\ InFlight' /\ FetchIsCurrent' /\ SnapshotIsCurrent'
  BY <1>1, <1>2, MovePreserves
<1>4. RouteShowsSnapshot'
  <2> SUFFICES ASSUME NEW p \in Providers, route_entries'[p] # None, route_entries'[p].snapshot # None
               PROVE  /\ entries'[p] # None
                      /\ entries'[p].generation = route_entries'[p].generation
                      /\ entries'[p].snapshot = route_entries'[p].snapshot
    BY DEF RouteShowsSnapshot
  <2>1. route_entries'[p] = route_entries[p]
    <3>1. \A token, g : NewRouteEntry(token, g).snapshot = None
      BY DEF NewRouteEntry
    <3>2. CASE Kept(entries[p], entries'[p]) /\ route_entries'[p] = route_entries[p]
      BY <3>2
    <3>3. ASSUME NEW token \in Tokens,
                 \/ route_entries'[p] = None
                 \/ route_entries'[p] = NewRouteEntry(token, entries'[p].generation)
                 \/ /\ route_entries'[p] = route_entries[p]
                    /\ route_entries[p].generation = entries'[p].generation
          PROVE  route_entries'[p] = route_entries[p]
      BY <3>1, <3>3
    <3> QED
      BY <3>2, <3>3 DEF TargetStep
  <2>2. /\ entries[p] # None
        /\ entries[p].generation = route_entries[p].generation
        /\ entries[p].snapshot = route_entries[p].snapshot
        /\ entries[p] \in Entry /\ entries[p].generation \in Nat
    BY <2>1 DEF DataInv, RouteShowsSnapshot, Types, Entry
  <2>3. CASE Kept(entries[p], entries'[p])
    BY <2>1, <2>2, <2>3, NoneIsNothing DEF Kept
  <2>4. ASSUME NEW token \in Tokens, Targeted(EntryOf(p), entries'[p], token),
               route_entries[p].generation = entries'[p].generation
        PROVE  entries'[p] # None /\ entries'[p].snapshot = entries[p].snapshot
    <3>1. EntryOf(p) = entries[p]
      BY <2>2, EntryOfType
    <3> QED
      BY <2>2, <2>4, <3>1, NoneIsNothing DEF Targeted
  <2>5. CASE ~Kept(entries[p], entries'[p])
    <3>1. PICK token \in Tokens :
            /\ Targeted(EntryOf(p), entries'[p], token)
            /\ \/ route_entries'[p] = None
               \/ route_entries'[p] = NewRouteEntry(token, entries'[p].generation)
               \/ /\ route_entries'[p] = route_entries[p]
                  /\ route_entries[p].generation = entries'[p].generation
      BY <2>5 DEF TargetStep
    <3>2. NewRouteEntry(token, entries'[p].generation).snapshot = None
      BY DEF NewRouteEntry
    <3>3. route_entries[p].generation = entries'[p].generation
      BY <3>1, <3>2
    <3> QED
      BY <2>1, <2>2, <2>4, <3>1, <3>3
  <2> QED
    BY <2>3, <2>5
<1> QED
  BY <1>3, <1>4 DEF DataInv

LEMMA InvalidatePreserves ==
    ASSUME Types, Types', DataInv, InvalidateStep
    PROVE  DataInv'
<1>1. \A p \in Providers : Moved(entries[p], entries'[p])
  BY InvalidateMoves DEF DataInv
<1>2. PICK p \in Providers :
        /\ \/ entries[p] = None /\ entries'[p] = None
           \/ entries[p] \in Entry /\ entries'[p] = Invalidated(entries[p])
        /\ route_entries'[p] = None
        /\ \A q \in Providers \ {p} :
            entries'[q] = entries[q] /\ route_entries'[q] = route_entries[q]
        /\ saving \ {p} \subseteq saving'
  BY DEF InvalidateStep
<1>3. UNCHANGED <<Spared, db>>
  BY DEF InvalidateStep
<1>4. \A q \in saving \ saving' :
        entries[q] # None => /\ entries'[q].generation = entries[q].generation + 1
                            /\ entries'[q].snapshot = None
  BY <1>2, InvalidatedEffect
<1>5. Generations' /\ InFlight' /\ FetchIsCurrent' /\ SnapshotIsCurrent'
  BY <1>1, <1>3, <1>4, MovePreserves
<1>6. RouteShowsSnapshot'
  BY <1>2 DEF DataInv, RouteShowsSnapshot
<1> QED
  BY <1>5, <1>6 DEF DataInv

LEMMA ResetPreserves ==
    ASSUME Types, Types', DataInv, ResetAll
    PROVE  DataInv'
<1>1. /\ fetches' = fetches /\ life' = life + 1 /\ crossed' = crossed /\ db' = db
      /\ \A p \in Providers : entries'[p] = None /\ route_entries'[p] = None
  BY DEF ResetAll
<1>2. \A f \in fetches : f.life \in Nat /\ f.life <= life /\ life \in Nat
  BY DEF Types, Fetch, DataInv, Generations
<1>3. \A f \in fetches : f.life # life'
  BY <1>1, <1>2
<1>4. Generations'
  BY <1>1, <1>2 DEF DataInv, Generations
<1>5. InFlight' /\ FetchIsCurrent'
  BY <1>1, <1>3 DEF InFlight, FetchIsCurrent
<1>6. RouteShowsSnapshot' /\ SnapshotIsCurrent'
  BY <1>1 DEF RouteShowsSnapshot, SnapshotIsCurrent
<1> QED
  BY <1>4, <1>5, <1>6 DEF DataInv

LEMMA DispatchPreserves ==
    ASSUME Types, Types', DataInv, NEW p \in Providers, Dispatch(p)
    PROVE  DataInv'
<1>1. PICK f : DispatchStep(p, f)
  BY DispatchEffect
<1>2. /\ life' = life /\ crossed' = crossed /\ db' = db /\ saving' = saving
      /\ route_entries' = route_entries
  BY DEF Dispatch, stored
<1>3. /\ f \in Fetch /\ f.provider = p /\ f.life = life /\ f.version = None
      /\ fetches' = fetches \cup {f}
      /\ entries[p] # None /\ entries'[p] # None
      /\ entries[p].token # None /\ entries[p].in_flight = 0
      /\ entries'[p].token = entries[p].token
      /\ entries'[p].generation = entries[p].generation
      /\ entries'[p].snapshot = entries[p].snapshot
      /\ f.generation = entries[p].generation /\ f.generation \in Nat
      /\ Matches(entries'[p], f)
  BY <1>1, NoneIsNothing DEF DispatchStep, Matches, Entry
<1>4. \A q \in Providers : /\ entries'[q] # None <=> entries[q] # None
                           /\ entries[q] # None => /\ entries'[q].token = entries[q].token
                                 /\ entries'[q].generation = entries[q].generation
                                 /\ entries'[q].snapshot = entries[q].snapshot
  BY <1>1, <1>3, NoneIsNothing DEF DispatchStep, Kept
<1>5. f.generation >= 1
  BY <1>3 DEF DataInv, Generations
<1>6. \A g \in fetches : g \in Fetch /\ g.provider \in Providers /\ g.life \in Nat
  BY DEF Types, Fetch
<1>7. \A g \in fetches : g.life = life /\ g.provider \notin crossed => g.provider # p
  <2> SUFFICES ASSUME NEW g \in fetches, g.life = life, g.provider \notin crossed, g.provider = p
               PROVE  FALSE
    OBVIOUS
  <2>1. entries[p].in_flight = g.generation /\ g.generation >= 1
    BY DEF DataInv, InFlight, Generations, Matches
  <2> QED
    BY <1>3, <2>1
<1>8. Generations'
  <2>1. \A q \in Providers :
          /\ entries'[q] # None /\ entries'[q].token # None => entries'[q].generation >= 1
          /\ entries'[q] # None /\ entries'[q].snapshot # None /\ entries'[q].snapshot.version # None
             => db[q].state # "unborn"
    BY <1>4 DEF DataInv, Generations
  <2>2. ASSUME NEW g \in fetches'
        PROVE  g.generation >= 1 /\ g.life <= life /\ (g.version # None => db[g.provider].state # "unborn")
    <3>1. CASE g \in fetches
      BY <3>1 DEF DataInv, Generations
    <3>2. CASE g = f
      BY <3>2, <1>3, <1>5 DEF Types
    <3> QED
      BY <1>3, <3>1, <3>2
  <2> QED
    BY <1>2, <2>1, <2>2 DEF Generations
<1>9. InFlight'
  <2>1. ASSUME NEW g \in fetches', g.life = life, g.provider \notin crossed
        PROVE  /\ Matches(entries'[g.provider], g)
               /\ g.generation <= entries'[g.provider].generation
    <3>1. CASE g \in fetches
      <4>1. /\ Matches(entries[g.provider], g)
            /\ g.generation <= entries[g.provider].generation
        BY <2>1, <3>1 DEF DataInv, InFlight
      <4>2. Kept(entries[g.provider], entries'[g.provider])
        BY <1>1, <1>6, <1>7, <2>1, <3>1 DEF DispatchStep
      <4> QED
        BY <4>1, <4>2, NoneIsNothing DEF Matches, Kept
    <3>2. CASE g = f
      BY <3>2, <1>3
    <3> QED
      BY <1>3, <3>1, <3>2
  <2>2. ASSUME NEW g \in fetches', NEW h \in fetches', g.life = life, h.life = life,
               g.provider = h.provider, g.provider \notin crossed
        PROVE  g = h
    <3>1. CASE g \in fetches /\ h \in fetches
      BY <2>2, <3>1 DEF DataInv, InFlight
    <3>2. CASE g = f \/ h = f
      BY <2>2, <3>2, <1>3, <1>7
    <3> QED
      BY <1>3, <3>1, <3>2
  <2> QED
    BY <1>2, <2>1, <2>2 DEF InFlight
<1>10. FetchIsCurrent'
  <2> SUFFICES ASSUME NEW g \in fetches', g.life = life, g.provider \notin saving \cup crossed,
                      db[g.provider].state = "live", g.version # None,
                      entries'[g.provider].generation = g.generation
               PROVE  g.version = db[g.provider].version
    BY <1>2 DEF FetchIsCurrent
  <2>1. g \in fetches
    BY <1>3
  <2>2. entries[g.provider].generation = g.generation
    BY <1>4, <1>6, <2>1 DEF DataInv, InFlight, Matches
  <2> QED
    BY <2>1, <2>2 DEF DataInv, FetchIsCurrent
<1>11. SnapshotIsCurrent'
  BY <1>2, <1>4 DEF DataInv, SnapshotIsCurrent
<1>12. RouteShowsSnapshot'
  BY <1>2, <1>4 DEF DataInv, RouteShowsSnapshot
<1> QED
  BY <1>8, <1>9, <1>10, <1>11, <1>12 DEF DataInv

LEMMA ReadPreserves ==
    ASSUME Types, DataInv, NEW f \in fetches, ReadProvider(f)
    PROVE  DataInv'
<1> DEFINE g == [f EXCEPT !.version = db[f.provider].version]
<1>1. f \in Fetch /\ f.provider \in Providers /\ db[f.provider].state = "live"
  BY ReadProviderEffect DEF ReadProvider
<1>2. /\ g.provider = f.provider /\ g.generation = f.generation /\ g.life = f.life
      /\ g.epoch = f.epoch /\ g.version = db[f.provider].version
  BY <1>1 DEF Fetch
<1>3. /\ fetches' = (fetches \ {f}) \cup {g}
      /\ UNCHANGED <<db, saving, entries, route_entries, life, crossed>>
  BY DEF ReadProvider, stored, runtime
<1> HIDE DEF g
<1>4. Generations'
  BY <1>1, <1>2, <1>3 DEF DataInv, Generations
<1>5. InFlight'
  <2>1. \A h \in fetches' : h.life = life /\ h.provider \notin crossed =>
            /\ Matches(entries[h.provider], h)
            /\ h.generation <= entries[h.provider].generation
    BY <1>2, <1>3 DEF DataInv, InFlight, Matches
  <2>2. ASSUME NEW h \in fetches', NEW k \in fetches', h.life = life, k.life = life,
               h.provider = k.provider, h.provider \notin crossed
        PROVE  h = k
    <3> DEFINE old(x) == IF x = g THEN f ELSE x
    <3>1. old(h) \in fetches /\ old(k) \in fetches
      BY <1>3
    <3>2. /\ old(h).life = life /\ old(k).life = life
          /\ old(h).provider = old(k).provider /\ old(h).provider \notin crossed
      BY <1>2, <2>2
    <3>3. old(h) = old(k)
      BY <3>1, <3>2 DEF DataInv, InFlight
    <3>4. CASE h # g /\ k # g
      BY <3>3, <3>4
    <3>5. CASE h = g /\ k # g
      BY <3>3, <3>5, <1>3
    <3>6. CASE h # g /\ k = g
      BY <3>3, <3>6, <1>3
    <3> QED
      BY <3>4, <3>5, <3>6
  <2> QED
    BY <1>3, <2>1, <2>2 DEF InFlight
<1>6. FetchIsCurrent'
  BY <1>2, <1>3 DEF DataInv, FetchIsCurrent
<1>7. RouteShowsSnapshot' /\ SnapshotIsCurrent'
  BY <1>3 DEF DataInv, RouteShowsSnapshot, SnapshotIsCurrent
<1> QED
  BY <1>4, <1>5, <1>6, <1>7 DEF DataInv

\* What a landing fetch does to the entry and to the route entry of its provider.
LEMMA LandCases ==
    ASSUME Types, NEW f, NEW x, LandStep(f, x)
    PROVE  LET p == f.provider IN
           /\ p \in Providers
           /\ UNCHANGED <<db, saving, life>>
           /\ fetches' = fetches \ {f}
           /\ crossed \subseteq crossed'
           /\ \/ entries'[p] = entries[p]
              \/ /\ entries[p] # None /\ entries'[p] # None
                 /\ entries'[p].token = entries[p].token
                 /\ entries'[p].generation = entries[p].generation
                 /\ f.life # life => p \in crossed'
           /\ \/ /\ route_entries'[p] = route_entries[p]
                 /\ \/ entries'[p] = entries[p]
                    \/ entries'[p].snapshot = entries[p].snapshot
              \/ /\ Matches(entries[p], f) /\ entries[p].generation = f.generation
                 /\ entries'[p] # None /\ entries'[p].snapshot = x
                 /\ x \in Snapshot /\ (x.version = None \/ x.version = f.version)
                 /\ route_entries'[p] # None /\ route_entries'[p].snapshot # None =>
                       /\ route_entries'[p].generation = f.generation
                       /\ route_entries'[p].snapshot = x
                       \/ /\ route_entries'[p] = route_entries[p]
                          /\ route_entries[p].generation # f.generation
<1> DEFINE p == f.provider
<1>1. p \in Providers
  BY DEF LandStep, Types, Fetch
<1>2. UNCHANGED <<db, saving, life>> /\ fetches' = fetches \ {f} /\ crossed \subseteq crossed'
  BY DEF LandStep, stored
<1>3. CASE ~Matches(entries[p], f)
  BY <1>1, <1>2, <1>3 DEF LandStep
<1>4. CASE Matches(entries[p], f)
  <2>1. /\ entries[p] # None /\ entries'[p] # None
        /\ entries'[p].token = entries[p].token
        /\ entries'[p].generation = entries[p].generation
        /\ f.life # life => p \in crossed'
    BY <1>4, NoneIsNothing DEF LandStep
  <2>2. CASE /\ entries'[p].snapshot = entries[p].snapshot
             /\ route_entries'[p] = route_entries[p]
    BY <1>1, <1>2, <2>1, <2>2
  <2>3. CASE /\ entries[p].generation = f.generation
             /\ entries'[p].snapshot = x
             /\ x \in Snapshot /\ (x.version = None \/ x.version = f.version)
             /\ \/ /\ route_entries[p] \in RouteEntry
                   /\ route_entries[p].generation = f.generation
                   /\ route_entries'[p] = [route_entries[p] EXCEPT !.snapshot = x]
                \/ /\ ~(route_entries[p] # None /\ route_entries[p].generation = f.generation)
                   /\ route_entries'[p] = route_entries[p]
    <3>1. /\ route_entries[p] \in RouteEntry
          /\ route_entries[p].generation = f.generation
          /\ route_entries'[p] = [route_entries[p] EXCEPT !.snapshot = x]
          => route_entries'[p].generation = f.generation /\ route_entries'[p].snapshot = x
      BY DEF RouteEntry
    <3> QED
      BY <1>1, <1>2, <1>4, <2>1, <2>3, <3>1
  <2> QED
    BY <1>4, <2>2, <2>3 DEF LandStep
<1> QED
  BY <1>3, <1>4

LEMMA LandPreserves ==
    ASSUME Types, Types', DataInv, NEW f, NEW x, LandStep(f, x)
    PROVE  DataInv'
<1> DEFINE p == f.provider
<1>1. /\ p \in Providers /\ f \in fetches
      /\ db' = db /\ saving' = saving /\ life' = life
      /\ fetches' = fetches \ {f}
      /\ crossed \subseteq crossed'
      /\ \A q \in Providers \ {p} :
            entries'[q] = entries[q] /\ route_entries'[q] = route_entries[q]
  BY LandCases DEF LandStep
<1>2. \/ entries'[p] = entries[p]
      \/ /\ entries[p] # None /\ entries'[p] # None
         /\ entries'[p].token = entries[p].token
         /\ entries'[p].generation = entries[p].generation
         /\ f.life # life => p \in crossed'
  BY LandCases
<1>3. \/ /\ route_entries'[p] = route_entries[p]
         /\ entries'[p] = entries[p] \/ entries'[p].snapshot = entries[p].snapshot
      \/ /\ Matches(entries[p], f) /\ entries[p].generation = f.generation
         /\ entries'[p] # None /\ entries'[p].snapshot = x
         /\ x \in Snapshot /\ (x.version = None \/ x.version = f.version)
         /\ route_entries'[p] # None /\ route_entries'[p].snapshot # None =>
               /\ route_entries'[p].generation = f.generation
               /\ route_entries'[p].snapshot = x
               \/ /\ route_entries'[p] = route_entries[p]
                  /\ route_entries[p].generation # f.generation
  BY LandCases
<1>4. \A g \in fetches : g \in Fetch /\ g.provider \in Providers
  BY DEF Types, Fetch
<1>5. ASSUME NEW g \in fetches', g.life = life, g.provider \notin crossed'
      PROVE  entries'[g.provider] = entries[g.provider]
  <2>1. CASE g.provider # p
    BY <1>1, <1>4, <2>1
  <2>2. CASE g.provider = p /\ entries'[p] = entries[p]
    BY <2>2
  <2>3. CASE g.provider = p /\ f.life = life
    BY <1>1, <1>5, <2>3 DEF DataInv, InFlight
  <2> QED
    BY <1>2, <1>5, <2>1, <2>2, <2>3
<1>6. Generations'
  <2>1. ASSUME NEW q \in Providers, entries'[q] # None, entries'[q].token # None
        PROVE  entries'[q].generation >= 1
    BY <1>1, <1>2, <2>1 DEF DataInv, Generations
  <2>2. ASSUME NEW q \in Providers, entries'[q] # None, entries'[q].snapshot # None,
               entries'[q].snapshot.version # None
        PROVE  db[q].state # "unborn"
    <3>1. CASE q # p \/ entries'[q] = entries[q]
      BY <1>1, <2>2, <3>1 DEF DataInv, Generations
    <3>2. CASE q = p /\ entries[p] # None /\ entries'[p].snapshot = entries[p].snapshot
      BY <1>1, <2>2, <3>2 DEF DataInv, Generations
    <3>3. CASE q = p /\ entries'[p].snapshot = x /\ (x.version = None \/ x.version = f.version)
      BY <1>1, <2>2, <3>3 DEF DataInv, Generations
    <3> QED
      BY <1>2, <1>3, <3>1, <3>2, <3>3
  <2> QED
    BY <1>1, <2>1, <2>2 DEF DataInv, Generations
<1>7. InFlight'
  BY <1>1, <1>5 DEF DataInv, InFlight
<1>8. FetchIsCurrent'
  BY <1>1, <1>5 DEF DataInv, FetchIsCurrent
<1>9. SnapshotIsCurrent'
  <2> SUFFICES ASSUME NEW q \in Providers, q \notin saving \cup crossed', db[q].state = "live",
                      entries'[q] # None, entries'[q].snapshot # None,
                      entries'[q].snapshot.version # None
               PROVE  entries'[q].snapshot.version = db[q].version
    BY <1>1 DEF SnapshotIsCurrent
  <2>1. CASE q # p \/ entries'[q] = entries[q]
    BY <1>1, <2>1 DEF DataInv, SnapshotIsCurrent
  <2>2. CASE q = p /\ entries[p] # None /\ entries'[p].snapshot = entries[p].snapshot
    BY <1>1, <2>2 DEF DataInv, SnapshotIsCurrent
  <2>3. CASE /\ q = p /\ entries'[q] # entries[q]
             /\ entries[p].generation = f.generation
             /\ entries'[p].snapshot = x /\ (x.version = None \/ x.version = f.version)
    <3>1. f.life = life
      BY <1>2, <2>3
    <3> QED
      BY <1>1, <2>3, <3>1 DEF DataInv, FetchIsCurrent
  <2> QED
    BY <1>2, <1>3, <2>1, <2>2, <2>3
<1>10. RouteShowsSnapshot'
  <2> SUFFICES ASSUME NEW q \in Providers, route_entries'[q] # None, route_entries'[q].snapshot # None
               PROVE  /\ entries'[q] # None
                      /\ entries'[q].generation = route_entries'[q].generation
                      /\ entries'[q].snapshot = route_entries'[q].snapshot
    BY DEF RouteShowsSnapshot
  <2>1. CASE q # p
    BY <1>1, <2>1 DEF DataInv, RouteShowsSnapshot
  <2>2. CASE /\ q = p /\ route_entries'[p] = route_entries[p]
             /\ entries'[p] = entries[p] \/ entries'[p].snapshot = entries[p].snapshot
    BY <1>1, <1>2, <2>2 DEF DataInv, RouteShowsSnapshot
  <2>3. CASE /\ q = p /\ entries[p].generation = f.generation
             /\ entries'[p] # None /\ entries'[p].snapshot = x
             /\ route_entries'[p].generation = f.generation
             /\ route_entries'[p].snapshot = x
    BY <1>2, <2>3
  <2>4. CASE /\ q = p /\ entries[p].generation = f.generation
             /\ route_entries'[p] = route_entries[p]
             /\ route_entries[p].generation # f.generation
    BY <1>1, <2>4 DEF DataInv, RouteShowsSnapshot
  <2> QED
    BY <1>3, <2>1, <2>2, <2>3, <2>4
<1> QED
  BY <1>6, <1>7, <1>8, <1>9, <1>10 DEF DataInv

-----------------------------------------------------------------------------
(* The scheduler.                                                           *)

LEMMA ConsumerUses ==
    ASSUME Types, NEW p \in Providers, HasActiveConsumer(entries[p])
    PROVE  Used(entries[p])
BY DEF HasActiveConsumer, Used

LEMMA NoNewUserPreserves ==
    ASSUME SchedulerInv, NoNewUser
    PROVE  SchedulerInv'
BY DEF SchedulerInv, NoNewUser

LEMMA TargetSchedules ==
    ASSUME Types, SchedulerInv, TargetStep
    PROVE  SchedulerInv'
<1> DEFINE Asked == \E p \in Providers : HasActiveConsumer(entries'[p])
<1>1. CASE ~scheduler_running /\ Asked
  <2>1. scheduler_running' = TRUE /\ schedulers' = schedulers + 1
    BY <1>1, Zenon DEF TargetStep, StartSchedulerIfNeeded
  <2> QED
    BY <2>1 DEF SchedulerInv, Types
<1>2. CASE ~(~scheduler_running /\ Asked)
  <2>1. scheduler_running' = scheduler_running /\ schedulers' = schedulers
    BY <1>2, Zenon DEF TargetStep, StartSchedulerIfNeeded
  <2>2. ASSUME NEW p \in Providers, Used(entries'[p])
        PROVE  scheduler_running
    <3>1. CASE Used(entries[p])
      BY <3>1, Zenon DEF SchedulerInv
    <3>2. ASSUME NEW token \in Tokens, Targeted(EntryOf(p), entries'[p], token)
          PROVE  Asked
      BY <3>2, NoneIsNothing DEF Targeted, HasActiveConsumer
    <3> QED
      BY <1>2, <2>2, <3>1, <3>2, Zenon DEF TargetStep
  <2> QED
    BY <2>1, <2>2 DEF SchedulerInv
<1> QED
  BY <1>1, <1>2

LEMMA SchedulerTurnServes ==
    ASSUME Types, SchedulerInv, SchedulerTurn
    PROVE  SchedulerInv'
<1>1. ASSUME NEW p \in Providers, Used(entries'[p])
      PROVE  HasActiveConsumer(entries[p])
  <2>1. entries[p] \in Entry \cup {None} /\ entries'[p] = Expired(entries[p])
    BY DEF Types, SchedulerTurn
  <2>2. entries[p] # None
    BY <1>1, <2>1 DEF Used, Expired
  <2>3. /\ entries'[p].token = entries[p].token
        /\ entries'[p].pending_force = entries[p].pending_force
        /\ entries'[p].in_flight_force = entries[p].in_flight_force
        /\ entries'[p].desktop # "none" => entries[p].desktop = "live"
        /\ entries'[p].gateway # "none" => entries[p].gateway = "live"
    BY <2>1, <2>2, ExpiredKeeps DEF Kept
  <2> QED
    BY <1>1, <2>2, <2>3 DEF Used, HasActiveConsumer
<1>2. CASE \E p \in Providers : HasActiveConsumer(entries[p])
  <2>1. scheduler_running' = scheduler_running /\ schedulers' = schedulers
    BY <1>2, Zenon DEF SchedulerTurn
  <2>2. scheduler_running
    BY <1>2, ConsumerUses, Zenon DEF SchedulerInv
  <2> QED
    BY <2>1, <2>2 DEF SchedulerInv
<1>3. CASE ~\E p \in Providers : HasActiveConsumer(entries[p])
  <2>1. scheduler_running' = FALSE
    BY <1>3, Zenon DEF SchedulerTurn
  <2>2. ~\E p \in Providers : Used(entries'[p])
    BY <1>1, <1>3
  <2> QED
    BY <2>1, <2>2 DEF SchedulerInv
<1> QED
  BY <1>2, <1>3

LEMMA InvalidateServes ==
    ASSUME Types, SchedulerInv, InvalidateStep
    PROVE  SchedulerInv'
<1>1. \A p \in Providers : Used(entries'[p]) => Used(entries[p])
  BY InvalidatedEffect DEF InvalidateStep, Used
<1>2. NoNewUser
  BY <1>1 DEF NoNewUser, InvalidateStep
<1> QED
  BY <1>2, NoNewUserPreserves

-----------------------------------------------------------------------------
(* The bounds.                                                              *)

BoundsKept == UNCHANGED <<changes, db, importing, life, schedulers, scheduler_running, fetches>>

LEMMA BoundsUnchanged ==
    ASSUME Bounds, BoundsKept
    PROVE  Bounds'
BY DEF Bounds, BoundsKept

LEMMA ChangeBounds ==
    ASSUME Types, Bounds,
           \/ \E p \in Providers :
                DeleteProvider(p) \/ \E token \in Tokens \cup {None} : SaveProvider(p, token)
           \/ ImportConfig
    PROVE  Bounds'
<1>1. /\ changes' = changes + 1 /\ changes < MaxChanges
      /\ UNCHANGED <<life, schedulers, scheduler_running, fetches>>
  BY DEF DeleteProvider, SaveProvider, ImportConfig, runtime
<1>2. changes \in Nat /\ MaxChanges \in Nat /\ life \in Nat
  BY AccountUsageAssumption DEF AccountUsageAssumption, Types
<1>3. importing' = importing \/ (~importing /\ importing' = TRUE)
  BY Zenon DEF DeleteProvider, SaveProvider, ImportConfig
<1>4. \A p \in Providers : db[p] \in StoredProvider /\ db[p].version \in Nat /\ db[p].version <= changes
  BY DEF Types, StoredProvider, Bounds
<1>5. \A p \in Providers : db'[p].version = db[p].version \/ db'[p].version = db[p].version + 1
  <2>1. CASE ImportConfig
    BY <2>1, <1>4 DEF ImportConfig, StoredProvider
  <2>2. ASSUME NEW p \in Providers, DeleteProvider(p)
        PROVE  \A q \in Providers : db'[q].version = db[q].version
    BY <2>2, <1>4 DEF DeleteProvider, Types, StoredProvider
  <2>3. ASSUME NEW p \in Providers, NEW token \in Tokens \cup {None}, SaveProvider(p, token)
        PROVE  \A q \in Providers : \/ db'[q].version = db[q].version
                                    \/ db'[q].version = db[q].version + 1
    <3>1. db' = [db EXCEPT ![p].token = token, ![p].version = @ + 1]
      BY <2>3 DEF SaveProvider
    <3> QED
      BY <3>1, <1>4 DEF Types, StoredProvider
  <2> QED
    BY <2>1, <2>2, <2>3
<1>6. \A p \in Providers : db'[p].version <= changes'
  BY <1>1, <1>2, <1>4, <1>5
<1>7. life' + (IF importing' THEN 1 ELSE 0) <= changes'
  BY <1>1, <1>2, <1>3 DEF Bounds
<1> QED
  BY <1>1, <1>2, <1>6, <1>7 DEF Bounds

LEMMA TargetBounds ==
    ASSUME Types, Bounds, TargetStep
    PROVE  Bounds'
<1>1. /\ changes' = changes /\ db' = db /\ importing' = importing /\ life' = life
      /\ fetches' = fetches
  BY DEF TargetStep, Spared
<1>2. \/ ~scheduler_running /\ scheduler_running' = TRUE /\ schedulers' = schedulers + 1
      \/ scheduler_running' = scheduler_running /\ schedulers' = schedulers
  BY Zenon DEF TargetStep, StartSchedulerIfNeeded
<1>3. schedulers' <= life' + (IF scheduler_running' THEN 1 ELSE 0)
  BY <1>1, <1>2 DEF Bounds, Types
<1> QED
  BY <1>1, <1>3 DEF Bounds

LEMMA SchedulerTurnBounds ==
    ASSUME Types, Bounds, SchedulerTurn
    PROVE  Bounds'
<1>1. /\ changes' = changes /\ db' = db /\ importing' = importing /\ life' = life
      /\ fetches' = fetches
  BY DEF SchedulerTurn, stored
<1>2. \/ scheduler_running' = FALSE /\ schedulers' = schedulers - 1
      \/ scheduler_running' = scheduler_running /\ schedulers' = schedulers
  BY Zenon DEF SchedulerTurn
<1>3. schedulers' <= life' + (IF scheduler_running' THEN 1 ELSE 0)
  BY <1>1, <1>2 DEF Bounds, Types
<1> QED
  BY <1>1, <1>3 DEF Bounds

LEMMA ResetBounds ==
    ASSUME Types, Bounds, ResetAll
    PROVE  Bounds'
<1>1. /\ changes' = changes /\ db' = db /\ importing /\ importing' = FALSE /\ life' = life + 1
      /\ fetches' = fetches /\ schedulers' = schedulers /\ scheduler_running' = FALSE
  BY Zenon DEF ResetAll
<1>2. /\ life + 1 <= changes /\ schedulers <= life + 1
  BY <1>1 DEF Bounds, Types
<1> QED
  BY <1>1, <1>2 DEF Bounds, Types

LEMMA FetchBounds ==
    ASSUME Types, Bounds,
           \/ \E p \in Providers : Dispatch(p)
           \/ \E f \in fetches : ReadProvider(f) \/ \E ok \in BOOLEAN : CompleteFetch(f, ok)
    PROVE  Bounds'
<1>1. UNCHANGED <<changes, db, importing, life, schedulers, scheduler_running>>
  BY DEF Dispatch, ReadProvider, CompleteFetch, stored, runtime
<1>2. /\ IsFiniteSet(fetches) /\ Cardinality(fetches) \in Nat
      /\ MAX_CONCURRENT_PROVIDER_FETCHES \in Nat
      /\ Cardinality(fetches) <= MAX_CONCURRENT_PROVIDER_FETCHES
  BY FS_CardinalityType, AccountUsageAssumption DEF Bounds, AccountUsageAssumption
<1>3. IsFiniteSet(fetches') /\ Cardinality(fetches') <= MAX_CONCURRENT_PROVIDER_FETCHES
  <2>1. ASSUME NEW p \in Providers, Dispatch(p)
        PROVE  IsFiniteSet(fetches') /\ Cardinality(fetches') <= MAX_CONCURRENT_PROVIDER_FETCHES
    <3>1. Cardinality(fetches) < MAX_CONCURRENT_PROVIDER_FETCHES
      BY <2>1 DEF Dispatch
    <3>2. PICK f : DispatchStep(p, f)
      BY <2>1, DispatchEffect
    <3>3. fetches' = fetches \cup {f}
      BY <3>2 DEF DispatchStep
    <3>4. /\ IsFiniteSet(fetches \cup {f})
          /\ Cardinality(fetches \cup {f}) =
                IF f \in fetches THEN Cardinality(fetches) ELSE Cardinality(fetches) + 1
      BY <1>2, FS_AddElement
    <3> QED
      BY <1>2, <3>1, <3>3, <3>4
  <2>2. ASSUME NEW f \in fetches, ReadProvider(f)
        PROVE  IsFiniteSet(fetches') /\ Cardinality(fetches') <= MAX_CONCURRENT_PROVIDER_FETCHES
    <3> DEFINE g == [f EXCEPT !.version = db[f.provider].version]
    <3>1. fetches' = (fetches \ {f}) \cup {g}
      BY <2>2 DEF ReadProvider
    <3> HIDE DEF g
    <3>2. IsFiniteSet(fetches \ {f}) /\ Cardinality(fetches \ {f}) = Cardinality(fetches) - 1
      BY <1>2, FS_RemoveElement
    <3>3. /\ IsFiniteSet((fetches \ {f}) \cup {g})
          /\ Cardinality((fetches \ {f}) \cup {g}) =
                IF g \in fetches \ {f} THEN Cardinality(fetches \ {f})
                ELSE Cardinality(fetches \ {f}) + 1
      BY <3>2, FS_AddElement
    <3> QED
      BY <1>2, <3>1, <3>2, <3>3
  <2>3. ASSUME NEW f \in fetches, NEW ok \in BOOLEAN, CompleteFetch(f, ok)
        PROVE  IsFiniteSet(fetches') /\ Cardinality(fetches') <= MAX_CONCURRENT_PROVIDER_FETCHES
    <3>1. fetches' = fetches \ {f}
      BY <2>3 DEF CompleteFetch
    <3> QED
      BY <1>2, <3>1, FS_RemoveElement
  <2> QED
    BY <2>1, <2>2, <2>3
<1> QED
  BY <1>1, <1>3 DEF Bounds

-----------------------------------------------------------------------------
(* What a manual refresh waits for.                                          *)

\* The epochs of an entry are numbered in the order of asking, of dispatch and of
\* completion; the pending one is the last.
InOrder(e) ==
    /\ e.in_flight_force <= e.next_force
    /\ e.completed_force <= e.next_force
    /\ e.pending_force > 0 =>
        /\ e.pending_force = e.next_force
        /\ e.in_flight_force < e.pending_force
        /\ e.completed_force < e.pending_force

EpochsInOrder == \A p \in Providers : entries[p] # None => InOrder(entries[p])

\* The epoch that the call q waits for is pending, or a fetch carries it.
Coming(q, e, fs) ==
    \/ e.pending_force = q.wanted
    \/ /\ e.in_flight_force = q.wanted
       /\ \E f \in fs : f.provider = q.provider /\ Matches(e, f)

\* A call that waits, and its entry, in one life of the runtime.
Numbered(q, e) ==
    /\ e # None
    /\ 1 <= q.wanted /\ q.wanted <= e.next_force
    /\ q.generation <= e.generation
    /\ q.generation = e.generation => e.token = q.token
    /\ e.pending_force = q.wanted => e.generation = q.generation
    /\ e.in_flight_force = q.wanted => e.in_flight = q.generation

\* What was dispatched before the call asked does not complete its epoch.
FetchAnswers(c, q, e, f, l) ==
    f.life = l =>
        \/ c \in f.calls
        \/ q.life = l /\ f.epoch < q.wanted /\ e.completed_force < q.wanted

SnapshotAnswers(c, q, e, l) ==
    e # None /\ e.snapshot # None =>
        \/ c \in e.snapshot.calls
        \/ q.life = l /\ e.completed_force < q.wanted

\* The call c waits as q for the entry e, while fs are under way in the life l.
Waits(c, q, e, fs, l, X) ==
    /\ q.life <= l
    /\ q.token # None
    /\ q.life = l =>
        /\ Numbered(q, e)
        /\ q.generation = e.generation /\ e.completed_force < q.wanted => Coming(q, e, fs)
    /\ ~q.woken => /\ q.life = l
                   /\ q.generation = e.generation
                   /\ e.completed_force < q.wanted
    /\ q.provider \notin X =>
        /\ SnapshotAnswers(c, q, e, l)
        /\ \A f \in fs : f.provider = q.provider => FetchAnswers(c, q, e, f, l)

CallInv(c) ==
    /\ calls[c].place = "waiting" =>
        Waits(c, calls[c], entries[calls[c].provider], fetches, life, crossed)
    /\ calls[c].place # "returned" => calls[c].answer = None
    /\ calls[c].answer # None /\ calls[c].provider \notin crossed => c \in calls[c].answer

RefreshInv == EpochsInOrder /\ \A c \in Calls : CallInv(c)

\* The same call, perhaps woken.
Roused(q, r) ==
    /\ r.place = q.place /\ r.provider = q.provider /\ r.token = q.token
    /\ r.generation = q.generation /\ r.wanted = q.wanted /\ r.life = q.life
    /\ r.answer = q.answer
    /\ r.woken = q.woken \/ r.woken = TRUE

\* The same fetches of p, but for what they have read.
SameFetch(f, g) ==
    /\ f.provider = g.provider /\ f.generation = g.generation /\ f.epoch = g.epoch
    /\ f.life = g.life /\ f.calls = g.calls

SameFetches(p, fs, gs) ==
    /\ \A g \in gs : g.provider = p => \E f \in fs : SameFetch(f, g)
    /\ \A f \in fs : f.provider = p => \E g \in gs : SameFetch(f, g)

-----------------------------------------------------------------------------
(* A call that waits while its entry grows, is dispatched or lands.          *)

LEMMA GrowthInOrder ==
    ASSUME NEW e \in Entry, NEW k \in Entry, InOrder(e), Grows(e, k)
    PROVE  InOrder(k)
BY DEF InOrder, Grows, Entry

LEMMA DefaultInOrder == DefaultEntry \in Entry /\ InOrder(DefaultEntry)
BY DEF DefaultEntry, Entry, Leases, InOrder

LEMMA GrowthWaits ==
    ASSUME NEW c \in Calls, NEW q \in Call, NEW r \in Call, NEW e \in Entry, NEW k \in Entry,
           NEW fs \in SUBSET Fetch, NEW gs \in SUBSET Fetch, NEW l \in Nat, NEW X, NEW Y,
           InOrder(e), Grows(e, k), Roused(q, r), SameFetches(q.provider, fs, gs),
           X \subseteq Y, k.generation # e.generation => r.woken,
           Waits(c, q, e, fs, l, X)
    PROVE  Waits(c, r, k, gs, l, Y)
<1>1. /\ e.generation \in Nat /\ k.generation \in Nat /\ e.next_force \in Nat
      /\ k.next_force \in Nat /\ e.pending_force \in Nat /\ k.pending_force \in Nat
      /\ e.completed_force \in Nat /\ q.wanted \in Nat /\ q.generation \in Nat
      /\ e.in_flight_force \in Nat /\ q.life \in Nat
  BY DEF Entry, Call
<1>2. e # None /\ k # None
  BY NoneIsNothing
<1>3. /\ r.provider = q.provider /\ r.token = q.token /\ r.life = q.life
      /\ r.generation = q.generation /\ r.wanted = q.wanted
      /\ ~r.woken => ~q.woken
  BY DEF Roused
<1>4. /\ k.in_flight = e.in_flight /\ k.in_flight_force = e.in_flight_force
      /\ k.completed_force = e.completed_force
      /\ k.snapshot = e.snapshot \/ k.snapshot = None
      /\ e.generation <= k.generation /\ e.next_force <= k.next_force
      /\ k.generation = e.generation => k.token = e.token
  BY <1>1 DEF Grows
<1>5. \A f \in fs : f.provider = q.provider /\ Matches(e, f)
                    => \E g \in gs : g.provider = r.provider /\ Matches(k, g)
  BY <1>2, <1>3, <1>4 DEF SameFetches, SameFetch, Matches
<1>6. ASSUME q.life = l, Numbered(q, e)
      PROVE  Numbered(r, k)
  BY <1>1, <1>2, <1>3, <1>4, <1>6 DEF Numbered, Grows, InOrder
<1>7. ASSUME q.life = l, Numbered(q, e), r.generation = k.generation,
             k.completed_force < r.wanted,
             q.generation = e.generation /\ e.completed_force < q.wanted => Coming(q, e, fs)
      PROVE  Coming(r, k, gs)
  <2>1. q.generation = e.generation /\ k.generation = e.generation
    BY <1>1, <1>3, <1>4, <1>7 DEF Numbered, Grows
  <2>2. Coming(q, e, fs)
    BY <2>1, <1>3, <1>4, <1>7
  <2>3. CASE e.pending_force = q.wanted
    BY <2>1, <2>3, <1>1, <1>3, <1>7 DEF Numbered, Grows, Coming
  <2> QED
    BY <2>2, <2>3, <1>3, <1>4, <1>5 DEF Coming
<1>8. SnapshotAnswers(c, q, e, l) => SnapshotAnswers(c, r, k, l)
  BY <1>2, <1>3, <1>4 DEF SnapshotAnswers
<1>9. ASSUME \A f \in fs : f.provider = q.provider => FetchAnswers(c, q, e, f, l)
      PROVE  \A g \in gs : g.provider = r.provider => FetchAnswers(c, r, k, g, l)
  BY <1>3, <1>4, <1>9 DEF SameFetches, SameFetch, FetchAnswers
<1>10. ASSUME ~r.woken
       PROVE  r.life = l /\ r.generation = k.generation /\ k.completed_force < r.wanted
  BY <1>3, <1>4, <1>10 DEF Waits
<1>11. q.life = l =>
        /\ Numbered(r, k)
        /\ r.generation = k.generation /\ k.completed_force < r.wanted => Coming(r, k, gs)
  BY <1>6, <1>7 DEF Waits
<1>12. r.provider \notin Y =>
        /\ SnapshotAnswers(c, r, k, l)
        /\ \A g \in gs : g.provider = r.provider => FetchAnswers(c, r, k, g, l)
  BY <1>3, <1>8, <1>9 DEF Waits
<1> QED
  BY <1>3, <1>10, <1>11, <1>12 DEF Waits

\* An old call, whose entry a reset has dropped.
LEMMA OrphanWaits ==
    ASSUME NEW c \in Calls, NEW q \in Call, NEW r \in Call, NEW k, NEW fs, NEW gs,
           NEW l \in Nat, NEW X, NEW Y,
           k # None => k.snapshot = None,
           Roused(q, r), SameFetches(q.provider, fs, gs), X \subseteq Y,
           Waits(c, q, None, fs, l, X)
    PROVE  Waits(c, r, k, gs, l, Y)
<1>1. /\ r.provider = q.provider /\ r.token = q.token /\ r.life = q.life
      /\ r.generation = q.generation /\ r.wanted = q.wanted
      /\ ~r.woken => ~q.woken
  BY DEF Roused
<1>2. q.life # l /\ q.woken
  BY DEF Waits, Numbered
<1>3. ASSUME q.provider \notin X
      PROVE  \A g \in gs : g.provider = r.provider => FetchAnswers(c, r, k, g, l)
  <2>1. \A f \in fs : f.provider = q.provider /\ f.life = l => c \in f.calls
    BY <1>2, <1>3 DEF Waits, FetchAnswers
  <2> QED
    BY <2>1, <1>1 DEF SameFetches, SameFetch, FetchAnswers
<1>4. SnapshotAnswers(c, r, k, l)
  BY DEF SnapshotAnswers
<1> QED
  BY <1>1, <1>2, <1>3, <1>4 DEF Waits

LEMMA DispatchWaits ==
    ASSUME NEW c \in Calls, NEW q \in Call, NEW e \in Entry, NEW k \in Entry, NEW f \in Fetch,
           NEW fs \in SUBSET Fetch, NEW l \in Nat, NEW X,
           \A g \in fs : g.generation >= 1,
           e.in_flight = 0, k.token = e.token, k.generation = e.generation,
           k.snapshot = e.snapshot, k.next_force = e.next_force,
           k.completed_force = e.completed_force, k.pending_force = 0,
           k.in_flight = f.generation, k.in_flight_force = f.epoch,
           f.provider = q.provider, f.generation = e.generation, f.epoch = e.pending_force,
           c \in f.calls, Waits(c, q, e, fs, l, X)
    PROVE  Waits(c, q, k, fs \cup {f}, l, X)
<1>1. e # None /\ k # None /\ e.pending_force \in Nat /\ q.wanted \in Nat
  BY NoneIsNothing DEF Entry, Call
<1>2. Matches(k, f)
  BY <1>1 DEF Matches
<1>3. \A g \in fs : ~Matches(e, g)
  BY DEF Matches
<1>4. ASSUME q.life = l
      PROVE  Numbered(q, k)
  BY <1>1, <1>4 DEF Waits, Numbered
<1>5. ASSUME q.life = l, q.generation = k.generation, k.completed_force < q.wanted
      PROVE  Coming(q, k, fs \cup {f})
  <2>1. e.pending_force = q.wanted
    BY <1>3, <1>5 DEF Waits, Coming
  <2> QED
    BY <2>1, <1>2 DEF Coming
<1>6. q.provider \notin X =>
        /\ SnapshotAnswers(c, q, k, l)
        /\ \A g \in fs \cup {f} : g.provider = q.provider => FetchAnswers(c, q, k, g, l)
  BY <1>1 DEF Waits, SnapshotAnswers, FetchAnswers
<1> QED
  BY <1>4, <1>5, <1>6 DEF Waits

\* The fetch f lands and wakes who waits for its provider.
LEMMA LandWaits ==
    ASSUME NEW c \in Calls, NEW q \in Call, NEW r \in Call, NEW e \in Entry, NEW k \in Entry,
           NEW f \in Fetch, NEW fs \in SUBSET Fetch, NEW l \in Nat, NEW X, NEW Y,
           f.provider = q.provider, Matches(e, f), Roused(q, r), r.woken,
           X \subseteq Y, q.provider \notin Y => f.life = l,
           q.provider \notin X =>
                \A g \in fs : g.provider = q.provider /\ g.life = l /\ f.life = l => g = f,
           FetchAnswers(c, q, e, f, l) \/ q.provider \in X,
           k.token = e.token, k.generation = e.generation,
           k.in_flight = 0, k.in_flight_force = 0,
           k.pending_force = e.pending_force, k.next_force = e.next_force,
           \/ /\ ~Accepts(e, f)
              /\ k.completed_force = e.completed_force /\ k.snapshot = e.snapshot
           \/ /\ k.completed_force = IF f.epoch > e.completed_force
                                     THEN f.epoch ELSE e.completed_force
              /\ k.snapshot # None /\ k.snapshot.calls = f.calls,
           Waits(c, q, e, fs, l, X)
    PROVE  Waits(c, r, k, fs \ {f}, l, Y)
<1>1. /\ e # None /\ k # None /\ e.completed_force \in Nat /\ f.epoch \in Nat
      /\ q.wanted \in Nat /\ e.completed_force <= k.completed_force
  BY NoneIsNothing DEF Entry, Fetch, Call
<1>2. /\ r.provider = q.provider /\ r.token = q.token /\ r.life = q.life
      /\ r.generation = q.generation /\ r.wanted = q.wanted
  BY DEF Roused
<1>3. e.in_flight = f.generation /\ e.in_flight_force = f.epoch
  BY DEF Matches
<1>4. ASSUME q.life = l
      PROVE  Numbered(r, k)
  BY <1>1, <1>2, <1>4 DEF Waits, Numbered
<1>5. ASSUME q.life = l, r.generation = k.generation, k.completed_force < r.wanted
      PROVE  Coming(r, k, fs \ {f})
  <2>1. q.generation = e.generation /\ e.completed_force < q.wanted
    BY <1>1, <1>2, <1>5 DEF Entry
  <2>2. Coming(q, e, fs) /\ Numbered(q, e)
    BY <2>1, <1>5 DEF Waits
  <2>3. ASSUME e.in_flight_force = q.wanted PROVE FALSE
    <3>1. e.generation = f.generation /\ e.token # None
      BY <2>1, <2>2, <2>3, <1>3 DEF Numbered, Waits
    <3>2. Accepts(e, f)
      BY <3>1 DEF Accepts
    <3> QED
      BY <3>2, <2>3, <1>1, <1>2, <1>3, <1>5
  <2> QED
    BY <2>2, <2>3, <1>2 DEF Coming
<1>6. ASSUME q.provider \notin Y
      PROVE  /\ SnapshotAnswers(c, r, k, l)
             /\ \A g \in fs \ {f} : g.provider = r.provider => FetchAnswers(c, r, k, g, l)
  <2>1. q.provider \notin X /\ f.life = l
    BY <1>6
  <2>2. \A g \in fs \ {f} : g.provider = r.provider => FetchAnswers(c, r, k, g, l)
    BY <2>1, <1>2 DEF FetchAnswers
  <2>3. SnapshotAnswers(c, q, e, l) /\ FetchAnswers(c, q, e, f, l)
    BY <2>1 DEF Waits
  <2>4. SnapshotAnswers(c, r, k, l)
    BY <2>1, <2>3, <1>1, <1>2 DEF SnapshotAnswers, FetchAnswers
  <2> QED
    BY <2>2, <2>4
<1> QED
  BY <1>2, <1>4, <1>5, <1>6 DEF Waits

\* A fetch that nobody waits for ends.
LEMMA LossWaits ==
    ASSUME NEW c, NEW q, NEW e, NEW f, NEW fs, NEW l, NEW X,
           ~Matches(e, f), Waits(c, q, e, fs, l, X)
    PROVE  Waits(c, q, e, fs \ {f}, l, X)
BY DEF Waits, Coming

\* After a reset.
LEMMA ResetWaits ==
    ASSUME NEW c \in Calls, NEW q \in Call, NEW r \in Call, NEW e, NEW fs \in SUBSET Fetch,
           NEW l \in Nat, NEW X,
           \A f \in fs : f.life <= l, Roused(q, r), r.woken, Waits(c, q, e, fs, l, X)
    PROVE  Waits(c, r, None, fs, l + 1, X)
<1>1. r.token = q.token /\ r.life = q.life /\ q.life \in Nat /\ q.life <= l
  BY DEF Roused, Call, Waits
<1>2. \A f \in fs : f.life # l + 1
  BY DEF Fetch
<1> QED
  BY <1>1, <1>2 DEF Waits, SnapshotAnswers, FetchAnswers

\* A call that has just asked: its epoch is the last one.
LEMMA AskedWaits ==
    ASSUME NEW c \in Calls, NEW q \in Call, NEW k \in Entry, NEW fs \in SUBSET Fetch,
           NEW l \in Nat, NEW X,
           q.token # None, q.token = k.token, q.generation = k.generation, q.woken, q.life = l,
           q.wanted = k.next_force, k.pending_force = k.next_force, k.pending_force > 0,
           InOrder(k),
           \A f \in fs : f.provider = q.provider /\ f.life = l /\ q.provider \notin X
                         => f.epoch = k.in_flight_force
    PROVE  Waits(c, q, k, fs, l, X)
<1>1. k # None /\ k.next_force \in Nat /\ k.generation \in Nat
  BY NoneIsNothing DEF Entry
<1>2. k.in_flight_force < q.wanted /\ k.completed_force < q.wanted
  BY DEF InOrder
<1>3. Numbered(q, k) /\ Coming(q, k, fs)
  BY <1>1, <1>2 DEF Numbered, Coming, Entry
<1>4. q.provider \notin X =>
        /\ SnapshotAnswers(c, q, k, l)
        /\ \A f \in fs : f.provider = q.provider => FetchAnswers(c, q, k, f, l)
  BY <1>2 DEF SnapshotAnswers, FetchAnswers
<1> QED
  BY <1>3, <1>4 DEF Waits
-----------------------------------------------------------------------------
(* What each action does to the calls that wait.                             *)

Grown(p) ==
    \/ entries[p] = None /\ entries'[p] = None
    \/ entries'[p] \in Entry /\ Grows(EntryOf(p), entries'[p])

\* The call c goes on, and is woken when the generation it waits in ends.
Stays(c) ==
    /\ Roused(calls[c], calls'[c])
    /\ calls[c].place = "waiting" =>
        LET p == calls[c].provider IN
        /\ Grown(p)
        /\ entries'[p] # None /\ entries'[p].generation # EntryOf(p).generation
           => calls'[c].woken
        /\ SameFetches(p, fetches, fetches')
    /\ life' = life /\ crossed \subseteq crossed'

\* The rest of CallInv for a call that has just returned without an answer, or has
\* not yet asked.
Unasked(q) == q.place # "waiting" /\ q.answer = None

LEMMA WaitingCall ==
    ASSUME Types, NEW c \in Calls
    PROVE  /\ calls[c] \in Call
           /\ calls[c].place = "waiting" => calls[c].provider \in Providers
           /\ calls[c].provider \in Providers => entries[calls[c].provider] \in Entry \cup {None}
           /\ fetches \in SUBSET Fetch
BY DEF Types, CallTypes

LEMMA StaysPreserves ==
    ASSUME Types, Types', RefreshInv, NEW c \in Calls, Stays(c)
    PROVE  CallInv(c)'
<1> DEFINE q == calls[c]
           r == calls'[c]
           p == q.provider
<1>1. q \in Call /\ r \in Call /\ life \in Nat
  BY WaitingCall DEF Types, CallTypes
<1>2. /\ r.place = q.place /\ r.provider = q.provider /\ r.answer = q.answer
      /\ life' = life /\ crossed \subseteq crossed'
  BY DEF Stays, Roused
<1>3. ASSUME q.place = "waiting"
      PROVE  Waits(c, r, entries'[p], fetches', life, crossed')
  <2>1. /\ Waits(c, q, entries[p], fetches, life, crossed)
        /\ Roused(q, r) /\ Grown(p) /\ SameFetches(p, fetches, fetches')
        /\ p \in Providers
        /\ fetches \in SUBSET Fetch /\ fetches' \in SUBSET Fetch
    BY <1>3, WaitingCall DEF RefreshInv, CallInv, Stays, Types
  <2>2. CASE entries[p] = None
    <3>1. entries'[p] # None => entries'[p].snapshot = None
      BY <2>1, <2>2, EntryOfType DEF Grown, Grows, DefaultEntry
    <3> HIDE DEF p
    <3>2. p = q.provider
      BY DEF p
    <3> HIDE DEF q, r
    <3> QED
      BY <1>1, <1>2, <2>1, <2>2, <3>1, <3>2, OrphanWaits
  <2>3. CASE entries[p] # None
    <3>1. EntryOf(p) = entries[p] /\ entries[p] \in Entry
      BY <2>1, <2>3, EntryOfType
    <3>2. entries'[p] \in Entry /\ Grows(entries[p], entries'[p])
      BY <2>1, <2>3, <3>1 DEF Grown
    <3>3. InOrder(entries[p])
      BY <2>1, <2>3 DEF RefreshInv, EpochsInOrder
    <3>4. entries'[p].generation # entries[p].generation => r.woken
      BY <1>3, <3>1, <3>2, NoneIsNothing DEF Stays
    <3> HIDE DEF p
    <3>5. p = q.provider
      BY DEF p
    <3> HIDE DEF q, r
    <3> QED
      BY <1>1, <1>2, <2>1, <3>1, <3>2, <3>3, <3>4, <3>5, GrowthWaits
  <2> QED
    BY <2>2, <2>3
<1>4. q.place # "returned" => q.answer = None
  BY DEF RefreshInv, CallInv
<1>5. q.answer # None /\ q.provider \notin crossed => c \in q.answer
  BY DEF RefreshInv, CallInv
<1> QED
  BY <1>2, <1>3, <1>4, <1>5 DEF CallInv

LEMMA UnaskedPreserves ==
    ASSUME NEW c \in Calls, Unasked(calls'[c])
    PROVE  CallInv(c)'
BY DEF Unasked, CallInv

LEMMA GrownInOrder ==
    ASSUME Types, RefreshInv, \A p \in Providers : Grown(p)
    PROVE  EpochsInOrder'
<1>1. ASSUME NEW p \in Providers, entries'[p] # None
      PROVE  InOrder(entries'[p])
  <2>1. entries'[p] \in Entry /\ Grows(EntryOf(p), entries'[p]) /\ EntryOf(p) \in Entry
    BY <1>1, EntryOfType DEF Grown
  <2>2. InOrder(EntryOf(p))
    BY DefaultInOrder, EntryOfType DEF RefreshInv, EpochsInOrder
  <2> QED
    BY <2>1, <2>2, GrowthInOrder
<1> QED
  BY <1>1 DEF EpochsInOrder

LEMMA KeptGrows ==
    ASSUME Types, NEW p \in Providers, Kept(entries[p], entries'[p])
    PROVE  Grown(p) /\ (entries'[p] # None => entries'[p].generation = EntryOf(p).generation)
<1>1. CASE entries[p] = None
  BY <1>1, NoneIsNothing DEF Kept, Grown
<1>2. CASE entries[p] # None
  BY <1>2, EntryOfType DEF Kept, Grown, Grows
<1> QED
  BY <1>1, <1>2

LEMMA FetchesAlike ==
    ASSUME NEW p, UNCHANGED fetches
    PROVE  SameFetches(p, fetches, fetches')
BY DEF SameFetches, SameFetch

LEMMA WakeRouses ==
    ASSUME Types, NEW P, NEW c \in Calls
    PROVE  /\ Roused(calls[c], WakeWaiters(P)[c])
           /\ calls[c].place = "waiting" /\ calls[c].provider \in P => WakeWaiters(P)[c].woken
<1>1. calls[c] \in Call
  BY WaitingCall
<1>2. WakeWaiters(P)[c] = IF calls[c].provider \in P /\ calls[c].place = "waiting"
                          THEN [calls[c] EXCEPT !.woken = TRUE] ELSE calls[c]
  BY DEF WakeWaiters, Wake
<1>3. /\ Roused(calls[c], [calls[c] EXCEPT !.woken = TRUE])
      /\ [calls[c] EXCEPT !.woken = TRUE].woken
  BY <1>1 DEF Roused, Call
<1> QED
  BY <1>2, <1>3 DEF Roused

\* Steps that leave targets and calls alone.
LEMMA KeepRefreshes ==
    ASSUME Types, Types', RefreshInv, KeepStep,
           \A c \in Calls : calls'[c] = calls[c] \/ Unasked(calls'[c])
    PROVE  RefreshInv'
<1>1. \A p \in Providers : Kept(entries[p], entries'[p])
  BY DEF KeepStep
<1>2. EpochsInOrder'
  BY <1>1, KeptGrows, GrownInOrder
<1>3. ASSUME NEW c \in Calls, calls'[c] = calls[c]
      PROVE  Stays(c)
  <2>1. UNCHANGED <<fetches, life, crossed>>
    BY DEF KeepStep, Spared
  <2>2. Roused(calls[c], calls'[c])
    BY <1>3 DEF Roused
  <2>3. ASSUME calls[c].place = "waiting"
        PROVE  LET p == calls[c].provider IN
               /\ Grown(p)
               /\ entries'[p] # None => entries'[p].generation = EntryOf(p).generation
    BY <2>3, <1>1, WaitingCall, KeptGrows
  <2> QED
    BY <2>1, <2>2, <2>3, FetchesAlike DEF Stays
<1>4. \A c \in Calls : CallInv(c)'
  BY <1>3, StaysPreserves, UnaskedPreserves
<1> QED
  BY <1>2, <1>4 DEF RefreshInv

\* Steps that wake whoever waits in a generation that ends.
LEMMA WakeStays ==
    ASSUME Types, NEW P, NEW c \in Calls, calls'[c] = WakeWaiters(P)[c],
           UNCHANGED Spared,
           \A p \in Providers : Grown(p),
           \A p \in Providers \ P :
                entries'[p] # None => entries'[p].generation = EntryOf(p).generation
    PROVE  Stays(c)
<1>1. /\ Roused(calls[c], calls'[c])
      /\ calls[c].place = "waiting" /\ calls[c].provider \in P => calls'[c].woken
  BY WakeRouses
<1>2. UNCHANGED <<fetches, life, crossed>>
  BY DEF Spared
<1> QED
  BY <1>1, <1>2, WaitingCall, FetchesAlike DEF Stays

LEMMA WakeRefreshes ==
    ASSUME Types, Types', RefreshInv, NEW P,
           \A c \in Calls : calls'[c] = WakeWaiters(P)[c] \/ Unasked(calls'[c]),
           UNCHANGED Spared,
           \A p \in Providers : Grown(p),
           \A p \in Providers \ P :
                entries'[p] # None => entries'[p].generation = EntryOf(p).generation
    PROVE  RefreshInv'
<1>1. \A c \in Calls : CallInv(c)'
  BY WakeStays, StaysPreserves, UnaskedPreserves
<1> QED
  BY <1>1, GrownInOrder DEF RefreshInv

\* A target that is asked for grows; its waiters are woken when it is replaced.
LEMMA TargetGrows ==
    ASSUME Types, NEW p \in Providers, NEW token, Targeted(EntryOf(p), entries'[p], token)
    PROVE  /\ Grown(p)
           /\ p \notin Republished(p, token) => entries'[p].generation = EntryOf(p).generation
BY DEF Targeted, Grown, Republished

LEMMA InvalidateGrows ==
    ASSUME Types, NEW p \in Providers, Invalidate(p)
    PROVE  /\ \A q \in Providers : Grown(q)
           /\ \A q \in Providers \ {p} :
                entries'[q] # None => entries'[q].generation = EntryOf(q).generation
           /\ entries[p] = None => entries'[p] = None
<1>1. ASSUME NEW q \in Providers \ {p}
      PROVE  Kept(entries[q], entries'[q])
  BY <1>1, InvalidateEffect, KeptSelf
<1>2. Grown(p) /\ (entries[p] = None => entries'[p] = None)
  <2>1. CASE entries[p] = None
    BY <2>1, InvalidateEffect, NoneIsNothing DEF Grown
  <2>2. CASE entries[p] # None
    <3>1. entries[p] \in Entry /\ entries'[p] = Invalidated(entries[p])
      BY <2>2, InvalidateEffect
    <3> QED
      BY <2>2, <3>1, InvalidatedEffect, EntryOfType DEF Grown
  <2> QED
    BY <2>1, <2>2
<1> QED
  BY <1>1, <1>2, KeptGrows

LEMMA UnaskedReturn == Unasked(Returned(None))
BY DEF Unasked, Returned, NewCall

\* A call put in its place among the others.
LEMMA PutOther ==
    ASSUME NEW cs, CallTypes(cs), NEW c \in Calls, NEW x
    PROVE  /\ [cs EXCEPT ![c] = x][c] = x
           /\ \A d \in Calls \ {c} : [cs EXCEPT ![c] = x][d] = cs[d]
BY DEF CallTypes

LEMMA LoadTargetRefreshes ==
    ASSUME Types, RefreshInv, NEW c \in Calls, NEW p \in Providers, LoadTarget(c, p)
    PROVE  RefreshInv'
<1> DEFINE x == [calls[c] EXCEPT !.place = "loaded", !.provider = p, !.token = db[p].token]
<1>1. Types' /\ KeepStep
  BY LoadTargetEffect
<1>2. Unasked(x)
  BY WaitingCall DEF LoadTarget, RefreshInv, CallInv, Unasked, Call
<1>3. calls' = [calls EXCEPT ![c] = x]
  BY DEF LoadTarget
<1> HIDE DEF x
<1>4. \A d \in Calls : calls'[d] = calls[d] \/ Unasked(calls'[d])
  BY <1>2, <1>3, PutOther DEF Types
<1> QED
  BY <1>1, <1>4, KeepRefreshes

LEMMA InvalidateSavedRefreshes ==
    ASSUME Types, RefreshInv, NEW p \in Providers, InvalidateSaved(p)
    PROVE  RefreshInv'
<1>1. Types' /\ Invalidate(p)
  BY InvalidateSavedEffect DEF InvalidateSaved
<1>2. UNCHANGED Spared
  BY DEF InvalidateSaved, Spared
<1>3. CASE entries[p] = None
  <2>1. \A q \in Providers : entries'[q] # None => entries'[q].generation = EntryOf(q).generation
    BY <1>1, <1>3, InvalidateGrows
  <2>2. \A c \in Calls : calls'[c] = WakeWaiters({})[c]
    BY <1>3 DEF InvalidateSaved, WakeWaiters
  <2> QED
    BY <1>1, <1>2, <2>1, <2>2, InvalidateGrows, WakeRefreshes
<1>4. CASE entries[p] # None
  <2>1. \A c \in Calls : calls'[c] = WakeWaiters({p})[c]
    BY <1>4 DEF InvalidateSaved
  <2> QED
    BY <1>1, <1>2, <2>1, InvalidateGrows, WakeRefreshes
<1> QED
  BY <1>3, <1>4

LEMMA InvalidateUnconfiguredRefreshes ==
    ASSUME Types, RefreshInv, NEW c \in Calls, InvalidateUnconfigured(c)
    PROVE  RefreshInv'
<1> DEFINE p == calls[c].provider
           P == IF entries[p] = None THEN {} ELSE {p}
<1>1. p \in Providers /\ Types' /\ Invalidate(p)
  BY InvalidateUnconfiguredEffect, LoadedCall DEF InvalidateUnconfigured
<1>2. UNCHANGED Spared
  BY DEF InvalidateUnconfigured, Spared
<1>3. \A q \in Providers \ P :
        entries'[q] # None => entries'[q].generation = EntryOf(q).generation
  BY <1>1, InvalidateGrows
<1>4. CallTypes(calls) /\ CallTypes(WakeWaiters(P))
  BY WakeWaitersType DEF Types
<1>5. \A d \in Calls : WakeWaiters({})[d] = calls[d]
  BY DEF WakeWaiters
<1>6. calls' = [(IF entries[p] = None THEN calls ELSE WakeWaiters({p}))
                    EXCEPT ![c] = Returned(None)]
  BY DEF InvalidateUnconfigured
<1>7. \A d \in Calls : calls'[d] = WakeWaiters(P)[d] \/ Unasked(calls'[d])
  <2>1. CASE entries[p] = None
    <3>1. P = {} /\ calls' = [calls EXCEPT ![c] = Returned(None)]
      BY <2>1, <1>6
    <3> QED
      BY <3>1, <1>4, <1>5, PutOther, UnaskedReturn
  <2>2. CASE entries[p] # None
    <3>1. P = {p} /\ calls' = [WakeWaiters(P) EXCEPT ![c] = Returned(None)]
      BY <2>2, <1>6
    <3> HIDE DEF P
    <3> QED
      BY <3>1, <1>4, PutOther, UnaskedReturn
  <2> QED
    BY <2>1, <2>2
<1> HIDE DEF P
<1> QED
  BY <1>1, <1>2, <1>3, <1>7, InvalidateGrows, WakeRefreshes

\* The target of one call.
LEMMA OneTargetGrows ==
    ASSUME Types, NEW p \in Providers, NEW token, NEW k,
           Targeted(EntryOf(p), k, token), entries' = [entries EXCEPT ![p] = k]
    PROVE  /\ entries'[p] = k
           /\ \A q \in Providers : Grown(q)
           /\ \A q \in Providers \ Republished(p, token) :
                entries'[q] # None => entries'[q].generation = EntryOf(q).generation
<1>1. entries'[p] = k /\ \A q \in Providers \ {p} : entries'[q] = entries[q]
  BY DEF Types
<1>2. \A q \in Providers \ {p} : Kept(entries[q], entries'[q])
  BY <1>1, KeptSelf
<1>3. Targeted(EntryOf(p), entries'[p], token)
  BY <1>1
<1> QED
  BY <1>1, <1>2, <1>3, KeptGrows, TargetGrows DEF Republished

LEMMA AcquireDesktopLeaseRefreshes ==
    ASSUME Types, RefreshInv, NEW c \in Calls, AcquireDesktopLease(c)
    PROVE  RefreshInv'
<1> DEFINE p == calls[c].provider
           token == calls[c].token
           k == [Synced(EntryOf(p), token) EXCEPT !.desktop = "live"]
           P == Republished(p, token)
<1>1. Types' /\ p \in Providers /\ token \in Tokens
  BY AcquireDesktopLeaseEffect, LoadedCall DEF AcquireDesktopLease, Call
<1>2. Targeted(EntryOf(p), k, token)
  BY <1>1, EntryOfType, TargetedByLease
<1>3. /\ entries' = [entries EXCEPT ![p] = k]
      /\ calls' = [WakeWaiters(P) EXCEPT ![c] = Returned(None)]
      /\ UNCHANGED Spared
  BY DEF AcquireDesktopLease, Spared
<1>4. CallTypes(WakeWaiters(P))
  BY WakeWaitersType DEF Types
<1> HIDE DEF k
<1>5. /\ \A q \in Providers : Grown(q)
      /\ \A q \in Providers \ P :
            entries'[q] # None => entries'[q].generation = EntryOf(q).generation
  BY <1>1, <1>2, <1>3, OneTargetGrows
<1> HIDE DEF P
<1>6. \A d \in Calls : calls'[d] = WakeWaiters(P)[d] \/ Unasked(calls'[d])
  BY <1>3, <1>4, PutOther, UnaskedReturn
<1> QED
  BY <1>1, <1>3, <1>5, <1>6, WakeRefreshes

LEMMA ReplaceGatewayTargetsRefreshes ==
    ASSUME Types, RefreshInv, ReplaceGatewayTargets
    PROVE  RefreshInv'
<1> DEFINE token == coordinator.targets
           targets == {p \in Providers : token[p] # None}
           P == UNION {Republished(p, token[p]) : p \in targets}
<1>1. Types' /\ TargetStep
  BY ReplaceGatewayTargetsEffect
<1>2. ASSUME NEW p \in targets
      PROVE  Targeted(EntryOf(p), entries'[p], token[p])
  <2>1. token[p] \in Tokens
    BY AccountUsageAssumption DEF AccountUsageAssumption, Types, Coordinator
  <2>2. entries'[p] = [Synced(EntryOf(p), token[p]) EXCEPT !.gateway = "live"]
    BY DEF ReplaceGatewayTargets
  <2>3. Targeted(EntryOf(p), [Synced(EntryOf(p), token[p]) EXCEPT !.gateway = "live"], token[p])
    BY <2>1, EntryOfType, TargetedByLease
  <2> QED
    BY <2>2, <2>3
<1>3. ASSUME NEW p \in Providers \ targets
      PROVE  Kept(entries[p], entries'[p])
  <2>1. \/ entries'[p] = entries[p]
        \/ entries[p] # None /\ entries'[p] = [entries[p] EXCEPT !.gateway = "none"]
    BY DEF ReplaceGatewayTargets
  <2>2. "none" \in Leases /\ entries[p] \in Entry \cup {None}
    BY DEF Types, Leases
  <2> QED
    BY <2>1, <2>2, KeptSelf DEF Kept, Entry
<1>4. \A p \in Providers : Grown(p)
  BY <1>2, <1>3, KeptGrows, TargetGrows
<1>5. \A p \in Providers \ P :
        entries'[p] # None => entries'[p].generation = EntryOf(p).generation
  <2> SUFFICES ASSUME NEW p \in Providers \ P, entries'[p] # None
               PROVE  entries'[p].generation = EntryOf(p).generation
    OBVIOUS
  <2>1. CASE p \in targets
    <3>1. p \notin Republished(p, token[p])
      BY <2>1
    <3> QED
      BY <2>1, <3>1, <1>2, TargetGrows
  <2>2. CASE p \notin targets
    BY <2>2, <1>3, KeptGrows
  <2> QED
    BY <2>1, <2>2
<1>6. calls' = WakeWaiters(P)
  BY DEF ReplaceGatewayTargets
<1>7. UNCHANGED Spared
  BY <1>1 DEF TargetStep
<1> HIDE DEF P
<1> QED
  BY <1>1, <1>4, <1>5, <1>6, <1>7, WakeRefreshes

\* refresh: its epoch is new to whatever is under way.
LEMMA RefreshRefreshes ==
    ASSUME Types, InFlight, RefreshInv, NEW c \in Calls, Refresh(c)
    PROVE  RefreshInv'
<1> DEFINE p == calls[c].provider
           token == calls[c].token
           s == [Synced(EntryOf(p), token) EXCEPT !.desktop = "live"]
           k == RequestForceEpoch(s)
           P == Republished(p, token)
           x == [WakeWaiters(P)[c] EXCEPT !.place = "waiting", !.generation = k.generation,
                                          !.wanted = k.next_force, !.life = life, !.woken = TRUE]
<1>1. Types' /\ p \in Providers /\ token \in Tokens /\ calls[c] \in Call
  BY RefreshEffect, LoadedCall DEF Refresh, Call
<1>2. Targeted(EntryOf(p), k, token)
  BY <1>1, EntryOfType, TargetedByLease
<1>3. /\ entries' = [entries EXCEPT ![p] = k]
      /\ calls' = [WakeWaiters(P) EXCEPT ![c] = x]
      /\ UNCHANGED Spared
  BY DEF Refresh, Spared
<1>4. CallTypes(WakeWaiters(P))
  BY WakeWaitersType DEF Types
<1>5. s \in Entry
  BY <1>1, EntryOfType, SyncedEffect DEF Entry, Leases
<1>6. k \in Entry /\ k.pending_force > 0 /\ (s.pending_force > 0 => k = s)
      /\ (~(s.pending_force > 0) => k.pending_force = k.next_force)
  BY <1>5, RequestForceEpochEffect DEF Entry
<1> HIDE DEF k
<1>7. /\ entries'[p] = k
      /\ \A q \in Providers : Grown(q)
      /\ \A q \in Providers \ P :
            entries'[q] # None => entries'[q].generation = EntryOf(q).generation
  BY <1>1, <1>2, <1>3, OneTargetGrows
<1>8. EpochsInOrder'
  BY <1>7, GrownInOrder
<1>9. InOrder(k) /\ k.pending_force = k.next_force /\ k.token = token
  BY <1>1, <1>6, <1>7, <1>8, <1>2, NoneIsNothing DEF EpochsInOrder, InOrder, Targeted
<1>10. /\ x \in Call /\ x.place = "waiting" /\ x.provider = p /\ x.token = token
       /\ x.generation = k.generation /\ x.wanted = k.next_force /\ x.life = life /\ x.woken
       /\ x.answer = None
  <2>1. WakeWaiters(P)[c] \in Call /\ k.generation \in Nat /\ k.next_force \in Nat /\ life \in Nat
    BY <1>4, <1>6 DEF CallTypes, Entry, Types
  <2>2. Roused(calls[c], WakeWaiters(P)[c])
    BY WakeRouses
  <2>3. calls[c].answer = None
    BY DEF Refresh, RefreshInv, CallInv
  <2> HIDE DEF P
  <2> QED
    BY <2>1, <2>2, <2>3 DEF Roused, Call
<1> HIDE DEF x, P
<1>11. \A f \in fetches : f.provider = p /\ f.life = life /\ p \notin crossed
                          => f.epoch = k.in_flight_force
  <2> SUFFICES ASSUME NEW f \in fetches, f.provider = p, f.life = life, p \notin crossed
               PROVE  f.epoch = k.in_flight_force
    OBVIOUS
  <2>1. Matches(entries[p], f)
    BY DEF InFlight
  <2>2. entries[p] # None /\ entries[p].in_flight_force = f.epoch
    BY <2>1 DEF Matches
  <2> QED
    BY <2>2, <1>1, <1>2, EntryOfType DEF Targeted
<1>12. Waits(c, x, k, fetches, life, crossed)
  <2>1. token # None /\ life \in Nat /\ fetches \in SUBSET Fetch
    BY <1>1, NoneIsNothing DEF Types
  <2> HIDE DEF p, token
  <2> QED
    BY <2>1, <1>6, <1>9, <1>10, <1>11, AskedWaits
<1>13. calls'[c] = x /\ \A d \in Calls \ {c} : calls'[d] = WakeWaiters(P)[d]
  BY <1>3, <1>4, PutOther
<1>14. CallInv(c)'
  BY <1>3, <1>7, <1>10, <1>12, <1>13 DEF CallInv, Spared
<1>15. \A d \in Calls \ {c} : CallInv(d)'
  BY <1>1, <1>3, <1>7, <1>13, WakeStays, StaysPreserves
<1> QED
  BY <1>8, <1>14, <1>15 DEF RefreshInv

\* One turn of the loop: a sleeper has a fetch to wait for, and an answer holds it.
LEMMA CheckCompletionRefreshes ==
    ASSUME Types, RefreshInv, NEW c \in Calls, CheckCompletion(c)
    PROVE  RefreshInv'
<1> DEFINE q == calls[c]
           p == q.provider
           e == entries[p]
<1>1. /\ q \in Call /\ q.place = "waiting" /\ p \in Providers /\ e \in Entry \cup {None}
      /\ Waits(c, q, e, fetches, life, crossed) /\ q.answer = None
  BY WaitingCall DEF CheckCompletion, RefreshInv, CallInv
<1>2. Types' /\ KeepStep /\ UNCHANGED <<entries, fetches, life, crossed>>
  BY CheckCompletionEffect DEF CheckCompletion, runtime
<1>3. PICK x : calls' = [calls EXCEPT ![c] = x] /\
        \/ x = Returned(None)
        \/ /\ e # None /\ e.completed_force >= q.wanted /\ e.snapshot # None
           /\ x = [Returned(e.snapshot.calls) EXCEPT !.provider = p]
        \/ /\ e # None /\ e.generation = q.generation /\ ~(e.completed_force >= q.wanted)
           /\ q.life = life
           /\ x = [q EXCEPT !.woken = FALSE]
  BY Zenon DEF CheckCompletion
<1>4. calls'[c] = x /\ \A d \in Calls \ {c} : calls'[d] = calls[d]
  BY <1>3, PutOther DEF Types
<1>5. CallInv(c)'
  <2>1. CASE x = Returned(None)
    BY <2>1, <1>4, UnaskedReturn, UnaskedPreserves
  <2>2. CASE /\ e # None /\ e.completed_force >= q.wanted /\ e.snapshot # None
             /\ x = [Returned(e.snapshot.calls) EXCEPT !.provider = p]
    <3>1. /\ x.place = "returned" /\ x.provider = p /\ x.answer = e.snapshot.calls
      BY <2>2 DEF Returned, NewCall
    <3>2. p \notin crossed => c \in e.snapshot.calls
      <4>1. e.completed_force \in Nat /\ q.wanted \in Nat
        BY <1>1, <2>2 DEF Entry, Call
      <4> QED
        BY <4>1, <1>1, <2>2 DEF Waits, SnapshotAnswers
    <3> QED
      BY <3>1, <3>2, <1>2, <1>4 DEF CallInv
  <2>3. CASE /\ e # None /\ e.generation = q.generation /\ ~(e.completed_force >= q.wanted)
             /\ q.life = life
             /\ x = [q EXCEPT !.woken = FALSE]
    <3>1. /\ x.place = q.place /\ x.provider = q.provider /\ x.token = q.token
          /\ x.generation = q.generation /\ x.wanted = q.wanted /\ x.life = q.life
          /\ x.answer = q.answer
      BY <2>3, <1>1 DEF Call
    <3>2. e.completed_force < q.wanted
      BY <1>1, <2>3 DEF Entry, Call
    <3>3. Waits(c, x, e, fetches, life, crossed)
      BY <3>1, <3>2, <2>3, <1>1 DEF Waits, Numbered, Coming, SnapshotAnswers, FetchAnswers
    <3> QED
      BY <3>1, <3>3, <1>1, <1>2, <1>4 DEF CallInv
  <2> QED
    BY <2>1, <2>2, <2>3, <1>3
<1>6. \A d \in Calls \ {c} : CallInv(d)'
  BY <1>2, <1>4 DEF RefreshInv, CallInv
<1>7. EpochsInOrder'
  BY <1>2 DEF RefreshInv, EpochsInOrder
<1> QED
  BY <1>5, <1>6, <1>7 DEF RefreshInv

LEMMA ReadProviderRefreshes ==
    ASSUME Types, RefreshInv, NEW f \in fetches, ReadProvider(f)
    PROVE  RefreshInv'
<1> DEFINE g == [f EXCEPT !.version = db[f.provider].version]
<1>1. Types' /\ f \in Fetch
  BY ReadProviderEffect
<1>2. /\ UNCHANGED <<entries, calls, life, crossed>>
      /\ fetches' = (fetches \ {f}) \cup {g}
  BY DEF ReadProvider, runtime
<1>3. SameFetch(f, g) /\ \A h \in fetches : SameFetch(h, h)
  BY <1>1 DEF SameFetch, Fetch
<1>4. \A p : SameFetches(p, fetches, fetches')
  <2> HIDE DEF g
  <2>1. \A h \in fetches : \E i \in fetches' : SameFetch(h, i) /\ i.provider = h.provider
    BY <1>2, <1>3 DEF SameFetch
  <2>2. \A i \in fetches' : \E h \in fetches : SameFetch(h, i) /\ i.provider = h.provider
    BY <1>2, <1>3 DEF SameFetch
  <2> QED
    BY <2>1, <2>2 DEF SameFetches
<1>5. \A p \in Providers : Grown(p) /\ (entries'[p] # None =>
                                            entries'[p].generation = EntryOf(p).generation)
  BY <1>2, KeptSelf, KeptGrows
<1>6. ASSUME NEW c \in Calls
      PROVE  Stays(c)
  BY <1>2, <1>4, <1>5, WaitingCall DEF Stays, Roused
<1> QED
  BY <1>1, <1>5, <1>6, StaysPreserves, GrownInOrder DEF RefreshInv

LEMMA DispatchRefreshes ==
    ASSUME Types, Generations, RefreshInv, NEW p \in Providers, Dispatch(p)
    PROVE  RefreshInv'
<1>1. Types'
  BY DispatchEffect
<1>2. PICK f : DispatchStep(p, f)
  BY DispatchEffect
<1>3. /\ f \in Fetch /\ f.provider = p /\ fetches' = fetches \cup {f}
      /\ UNCHANGED <<calls, life, crossed>>
      /\ \A q \in Providers \ {p} : Kept(entries[q], entries'[q])
      /\ entries[p] \in Entry /\ entries'[p] \in Entry
  BY <1>2 DEF DispatchStep
<1>4. ASSUME NEW c \in Calls, ~(calls[c].place = "waiting" /\ calls[c].provider = p)
      PROVE  CallInv(c)'
  <2>1. \A q \in Providers \ {p} : SameFetches(q, fetches, fetches')
    BY <1>3 DEF SameFetches, SameFetch
  <2>2. Stays(c)
    BY <1>3, <1>4, <2>1, WaitingCall, KeptGrows DEF Stays, Roused
  <2> QED
    BY <1>1, <2>2, StaysPreserves
<1>5. ASSUME NEW c \in Calls, calls[c].place = "waiting", calls[c].provider = p
      PROVE  CallInv(c)'
  <2> DEFINE q == calls[c]
             e == entries[p]
             k == entries'[p]
  <2>1. /\ Waits(c, q, e, fetches, life, crossed) /\ q.answer = None
        /\ q \in Call /\ fetches \in SUBSET Fetch /\ life \in Nat
    BY <1>5, WaitingCall DEF RefreshInv, CallInv, Types
  <2>2. /\ e.in_flight = 0 /\ k.token = e.token /\ k.generation = e.generation
        /\ k.snapshot = e.snapshot /\ k.next_force = e.next_force
        /\ k.completed_force = e.completed_force /\ k.pending_force = 0
        /\ k.in_flight = f.generation /\ k.in_flight_force = f.epoch
        /\ f.provider = q.provider /\ f.generation = e.generation
        /\ f.epoch = e.pending_force /\ c \in f.calls
    BY <1>2, <1>5 DEF DispatchStep
  <2>3. \A g \in fetches : g.generation >= 1
    BY DEF Generations
  <2> HIDE DEF q, e, k
  <2>4. Waits(c, q, k, fetches \cup {f}, life, crossed)
    BY <1>3, <2>1, <2>2, <2>3, DispatchWaits DEF e, k
  <2> QED
    BY <2>1, <2>4, <1>3, <1>5 DEF CallInv, q, k
<1>6. EpochsInOrder'
  <2>1. InOrder(entries'[p])
    <3>1. InOrder(entries[p])
      BY <1>3, NoneIsNothing DEF RefreshInv, EpochsInOrder
    <3> QED
      BY <1>2, <1>3, <3>1 DEF InOrder, DispatchStep, Entry
  <2>2. ASSUME NEW q \in Providers \ {p}, entries'[q] # None
        PROVE  InOrder(entries'[q])
    <3>1. entries[q] # None /\ InOrder(entries[q])
      BY <1>3, <2>2, NoneIsNothing DEF RefreshInv, EpochsInOrder, Kept
    <3> QED
      BY <1>3, <2>2, <3>1 DEF InOrder, Kept
  <2> QED
    BY <2>1, <2>2 DEF EpochsInOrder
<1> QED
  BY <1>4, <1>5, <1>6 DEF RefreshInv

LEMMA CompleteFetchRefreshes ==
    ASSUME Types, InFlight, RefreshInv, NEW f \in fetches, NEW ok \in BOOLEAN, CompleteFetch(f, ok)
    PROVE  RefreshInv'
<1> DEFINE p == f.provider
           e == entries[p]
           k == entries'[p]
<1>1. Types' /\ f \in Fetch /\ p \in Providers /\ fetches \in SUBSET Fetch /\ life \in Nat
  BY CompleteFetchEffect DEF Types, Fetch
<1>2. PICK x : LandStep(f, x)
  BY CompleteFetchEffect
<1>3. /\ fetches' = fetches \ {f} /\ life' = life /\ crossed \subseteq crossed'
      /\ \A q \in Providers \ {p} : entries'[q] = entries[q]
  BY <1>2 DEF LandStep
<1>4. CASE ~Matches(e, f)
  <2>1. entries'[p] = entries[p] /\ UNCHANGED <<calls, crossed>>
    BY <1>2, <1>4 DEF LandStep
  <2>2. \A q \in Providers : entries'[q] = entries[q]
    BY <1>3, <2>1
  <2>3. ASSUME NEW c \in Calls
        PROVE  CallInv(c)'
    <3>1. ASSUME calls[c].place = "waiting"
          PROVE  Waits(c, calls[c], entries[calls[c].provider], fetches \ {f}, life, crossed)
      <4>1. Waits(c, calls[c], entries[calls[c].provider], fetches, life, crossed)
        BY <3>1 DEF RefreshInv, CallInv
      <4>2. CASE calls[c].provider = p
        BY <4>1, <4>2, <1>4, LossWaits
      <4>3. CASE calls[c].provider # p
        BY <4>1, <4>3 DEF Waits, Coming
      <4> QED
        BY <4>2, <4>3
    <3> QED
      BY <3>1, <1>3, <2>1, <2>2, WaitingCall DEF CallInv, RefreshInv
  <2> QED
    BY <2>2, <2>3 DEF RefreshInv, EpochsInOrder
<1>5. CASE Matches(e, f)
  <2>1. /\ e \in Entry /\ k \in Entry
        /\ k.token = e.token /\ k.generation = e.generation
        /\ k.in_flight = 0 /\ k.in_flight_force = 0
        /\ k.pending_force = e.pending_force /\ k.next_force = e.next_force
        /\ \/ /\ ~Accepts(e, f)
              /\ k.completed_force = e.completed_force /\ k.snapshot = e.snapshot
           \/ /\ k.completed_force = IF f.epoch > e.completed_force
                                     THEN f.epoch ELSE e.completed_force
              /\ k.snapshot # None /\ k.snapshot.calls = f.calls
        /\ crossed' = IF f.life # life THEN crossed \cup {p} ELSE crossed
        /\ calls' = WakeWaiters({p})
    BY <1>2, <1>5, NoneIsNothing DEF LandStep
  <2>2. ASSUME NEW c \in Calls
        PROVE  /\ Roused(calls[c], calls'[c])
               /\ calls[c].place = "waiting" /\ calls[c].provider = p => calls'[c].woken
    BY <2>1, WakeRouses
  <2>3. ASSUME NEW c \in Calls, calls[c].place = "waiting", calls[c].provider = p
        PROVE  CallInv(c)'
    <3> DEFINE q == calls[c]
               r == calls'[c]
    <3>1. /\ Waits(c, q, e, fetches, life, crossed) /\ q.answer = None
          /\ q \in Call /\ r \in Call
      BY <1>1, <2>3, WaitingCall DEF RefreshInv, CallInv, Types, CallTypes
    <3>2. /\ f.provider = q.provider /\ Roused(q, r) /\ r.woken
          /\ q.provider \notin crossed' => f.life = life
      BY <2>1, <2>2, <2>3
    <3>3. q.provider \notin crossed =>
            \A g \in fetches : g.provider = q.provider /\ g.life = life /\ f.life = life => g = f
      BY <2>3 DEF InFlight
    <3>4. FetchAnswers(c, q, e, f, life) \/ q.provider \in crossed
      BY <2>3, <3>1 DEF Waits
    <3> HIDE DEF p, q, r, e, k
    <3>5. Waits(c, r, k, fetches \ {f}, life, crossed')
      BY <1>1, <1>3, <1>5, <2>1, <3>1, <3>2, <3>3, <3>4, LandWaits
    <3> QED
      BY <3>1, <3>2, <3>5, <1>3 DEF CallInv, Roused, q, r, k, p
  <2>4. ASSUME NEW c \in Calls, ~(calls[c].place = "waiting" /\ calls[c].provider = p)
        PROVE  CallInv(c)'
    <3>1. \A q \in Providers \ {p} : SameFetches(q, fetches, fetches')
      BY <1>3 DEF SameFetches, SameFetch
    <3>2. \A q \in Providers \ {p} :
            Grown(q) /\ (entries'[q] # None => entries'[q].generation = EntryOf(q).generation)
      BY <1>3, KeptSelf, KeptGrows
    <3>3. Stays(c)
      BY <1>3, <2>2, <2>4, <3>1, <3>2, WaitingCall DEF Stays
    <3> QED
      BY <1>1, <3>3, StaysPreserves
  <2>5. InOrder(k)
    <3>1. InOrder(e) /\ e.in_flight_force = f.epoch
      BY <1>1, <1>5, <2>1, NoneIsNothing DEF RefreshInv, EpochsInOrder, Matches
    <3> QED
      BY <1>1, <2>1, <3>1 DEF InOrder, Entry, Fetch
  <2>6. EpochsInOrder'
    BY <1>3, <2>5 DEF RefreshInv, EpochsInOrder
  <2> QED
    BY <2>3, <2>4, <2>6 DEF RefreshInv
<1> QED
  BY <1>4, <1>5

LEMMA ResetAllRefreshes ==
    ASSUME Types, Generations, RefreshInv, ResetAll
    PROVE  RefreshInv'
<1>1. /\ entries' = [p \in Providers |-> None] /\ calls' = WakeWaiters(Providers)
      /\ life' = life + 1 /\ UNCHANGED <<fetches, crossed>>
  BY DEF ResetAll
<1>2. ASSUME NEW c \in Calls
      PROVE  CallInv(c)'
  <2> DEFINE q == calls[c]
             r == calls'[c]
  <2>1. /\ Roused(q, r) /\ (q.place = "waiting" => r.woken)
        /\ r \in Call /\ q \in Call
        /\ q.place = "waiting" => q.provider \in Providers
    BY <1>1, WakeRouses, WaitingCall, WakeWaitersType DEF CallTypes, Types
  <2>2. \A f \in fetches : f.life <= life
    BY DEF Generations
  <2>3. q.place = "waiting" => Waits(c, q, entries[q.provider], fetches, life, crossed)
    BY DEF RefreshInv, CallInv
  <2>4. q.place = "waiting" => Waits(c, r, None, fetches, life + 1, crossed)
    <3>1. fetches \in SUBSET Fetch /\ life \in Nat
      BY DEF Types
    <3> HIDE DEF q, r
    <3> QED
      BY <3>1, <2>1, <2>2, <2>3, ResetWaits
  <2>5. /\ q.place # "returned" => q.answer = None
        /\ q.answer # None /\ q.provider \notin crossed => c \in q.answer
    BY DEF RefreshInv, CallInv
  <2> QED
    BY <1>1, <2>1, <2>4, <2>5 DEF CallInv, Roused
<1> QED
  BY <1>1, <1>2 DEF RefreshInv, EpochsInOrder

LEMMA KeepStepRefreshes ==
    ASSUME Types, Types', RefreshInv, KeepStep, UNCHANGED calls
    PROVE  RefreshInv'
BY KeepRefreshes

-----------------------------------------------------------------------------
(* The theorems.                                                            *)

LEMMA InitSafe ==
    ASSUME Init
    PROVE  IInv
<1>1. NewCall \in Call /\ NewCall.place = "new"
  BY DEF NewCall, Call
<1>2. db \in [Providers -> [state : {"unborn", "live"}, token : Tokens, version : {0}]]
  BY DEF Init
<1>3. db \in [Providers -> StoredProvider]
  BY <1>2 DEF StoredProvider
<1>4. \A p \in Providers : db[p].version = 0
  BY <1>2
<1>5. CallTypes(calls)
  BY <1>1 DEF Init, CallTypes
<1>6. Types
  BY <1>3, <1>5, CoordinatorType DEF Init, Types
<1>7. Bounds
  BY <1>4, FS_EmptySet, AccountUsageAssumption DEF Init, Bounds, AccountUsageAssumption
<1>8. SchedulerInv
  BY DEF Init, SchedulerInv, Used
<1>9. DataInv
  BY DEF Init, DataInv, RouteShowsSnapshot, Generations, InFlight, FetchIsCurrent,
         SnapshotIsCurrent
<1> QED
  BY <1>6, <1>7, <1>8, <1>9 DEF IInv

\* Steps that keep the targets and the database.
LEMMA KeepSafe ==
    ASSUME IInv, Types', KeepStep, NoNewUser, UNCHANGED <<changes, db, saving, importing>>
    PROVE  IInv'
<1>1. DbStep
  BY DbUnchanged
<1>2. BoundsKept
  BY DEF KeepStep, NoNewUser, Spared, BoundsKept
<1> QED
  BY <1>1, <1>2, KeepPreserves, NoNewUserPreserves, BoundsUnchanged DEF IInv

LEMMA ChangeSafe ==
    ASSUME IInv, Types', KeepStep, NoNewUser,
           \/ \E p \in Providers :
                DeleteProvider(p) \/ \E token \in Tokens \cup {None} : SaveProvider(p, token)
           \/ ImportConfig
    PROVE  IInv'
BY DbChanges, KeepPreserves, NoNewUserPreserves, ChangeBounds DEF IInv

LEMMA TargetSafe ==
    ASSUME IInv, Types', TargetStep
    PROVE  IInv'
BY TargetPreserves, TargetSchedules, TargetBounds DEF IInv

LEMMA InvalidateSafe ==
    ASSUME IInv, Types', InvalidateStep
    PROVE  IInv'
<1>1. BoundsKept
  BY DEF InvalidateStep, Spared, BoundsKept
<1> QED
  BY <1>1, InvalidatePreserves, InvalidateServes, BoundsUnchanged DEF IInv

LEMMA StepSafe ==
    ASSUME IInv, [Next]_vars
    PROVE  IInv'
<1>1. Types /\ Bounds /\ SchedulerInv /\ DataInv
  BY DEF IInv
<1>2. ASSUME NEW p \in Providers, NEW token \in Tokens \cup {None}, SaveProvider(p, token)
      PROVE  IInv'
  BY <1>1, <1>2, SaveProviderEffect, ChangeSafe
<1>3. ASSUME NEW p \in Providers, DeleteProvider(p) PROVE IInv'
  BY <1>1, <1>3, DeleteProviderEffect, ChangeSafe
<1>4. ASSUME NEW p \in Providers, InvalidateSaved(p) PROVE IInv'
  BY <1>1, <1>4, InvalidateSavedEffect, InvalidateSafe
<1>5. ASSUME NEW p \in Providers, HeartbeatDesktopLease(p) PROVE IInv'
  BY <1>1, <1>5, HeartbeatDesktopLeaseEffect, KeepSafe DEF HeartbeatDesktopLease, stored
<1>6. ASSUME NEW p \in Providers, ReleaseDesktopLease(p) PROVE IInv'
  BY <1>1, <1>6, ReleaseDesktopLeaseEffect, KeepSafe DEF ReleaseDesktopLease, stored
<1>7. ASSUME NEW p \in Providers, LeaseLapses(p) PROVE IInv'
  BY <1>1, <1>7, LeaseLapsesEffect, KeepSafe DEF LeaseLapses, stored
<1>8. ASSUME NEW p \in Providers, Dispatch(p) PROVE IInv'
  <2>1. Types' /\ \E f : DispatchStep(p, f)
    BY <1>1, <1>8, DispatchEffect
  <2>2. NoNewUser
    BY <1>8, <2>1 DEF NoNewUser, DispatchStep, Dispatch
  <2> QED
    BY <1>1, <1>8, <2>1, <2>2, DispatchPreserves, NoNewUserPreserves, FetchBounds DEF IInv
<1>9. CASE ImportConfig
  BY <1>1, <1>9, ImportConfigEffect, ChangeSafe
<1>10. CASE ResetAll
  <2>1. Types' /\ DataInv' /\ Bounds'
    BY <1>1, <1>10, ResetAllEffect, ResetPreserves, ResetBounds
  <2>2. ~scheduler_running' /\ \A p \in Providers : ~Used(entries'[p])
    BY <1>10 DEF ResetAll, Used
  <2> QED
    BY <2>1, <2>2 DEF IInv, SchedulerInv
<1>11. ASSUME NEW c \in Calls, NEW p \in Providers, LoadTarget(c, p) PROVE IInv'
  BY <1>1, <1>11, LoadTargetEffect, KeepSafe DEF LoadTarget, stored
<1>12. ASSUME NEW c \in Calls, InvalidateUnconfigured(c) PROVE IInv'
  BY <1>1, <1>12, InvalidateUnconfiguredEffect, InvalidateSafe
<1>13. ASSUME NEW c \in Calls, AcquireDesktopLease(c) PROVE IInv'
  BY <1>1, <1>13, AcquireDesktopLeaseEffect, TargetSafe
<1>14. ASSUME NEW c \in Calls, Refresh(c) PROVE IInv'
  BY <1>1, <1>14, RefreshEffect, TargetSafe
<1>15. ASSUME NEW c \in Calls, CheckCompletion(c) PROVE IInv'
  BY <1>1, <1>15, CheckCompletionEffect, KeepSafe DEF CheckCompletion, stored
<1>16. CASE StartCoordinator
  BY <1>1, <1>16, StartCoordinatorEffect, KeepSafe DEF StartCoordinator, stored
<1>17. CASE LoadGatewayTargets
  BY <1>1, <1>17, LoadGatewayTargetsEffect, KeepSafe DEF LoadGatewayTargets, stored
<1>18. CASE ReplaceGatewayTargets
  BY <1>1, <1>18, ReplaceGatewayTargetsEffect, TargetSafe
<1>19. CASE RemoveRouteEntries
  BY <1>1, <1>19, RemoveRouteEntriesEffect, KeepSafe DEF RemoveRouteEntries, stored
<1>20. CASE StopCoordinator
  BY <1>1, <1>20, StopCoordinatorEffect, KeepSafe DEF StopCoordinator, stored
<1>21. CASE AbortCoordinator
  BY <1>1, <1>21, AbortCoordinatorEffect, KeepSafe DEF AbortCoordinator, stored
<1>22. CASE SchedulerTurn
  <2>1. schedulers > 0 /\ UNCHANGED <<db, saving>>
    BY <1>22 DEF SchedulerTurn, stored
  <2>2. Types' /\ KeepStep /\ DbStep
    BY <1>1, <1>22, <2>1, SchedulerTurnEffect, DbUnchanged
  <2> QED
    BY <1>1, <1>22, <2>2, KeepPreserves, SchedulerTurnServes, SchedulerTurnBounds DEF IInv
<1>23. ASSUME NEW f \in fetches, ReadProvider(f) PROVE IInv'
  <2>1. NoNewUser
    BY <1>23 DEF ReadProvider, runtime, NoNewUser
  <2> QED
    BY <1>1, <1>23, <2>1, ReadProviderEffect, ReadPreserves, NoNewUserPreserves, FetchBounds DEF IInv
<1>24. ASSUME NEW f \in fetches, NEW ok \in BOOLEAN, CompleteFetch(f, ok) PROVE IInv'
  <2>1. /\ Types' /\ \E x : LandStep(f, x)
        /\ \A q \in Providers : Used(entries'[q]) => Used(entries[q])
    BY <1>1, <1>24, CompleteFetchEffect
  <2>2. NoNewUser
    BY <1>24, <2>1 DEF CompleteFetch, NoNewUser
  <2> QED
    BY <1>1, <1>24, <2>1, <2>2, LandPreserves, NoNewUserPreserves, FetchBounds DEF IInv
<1>25. CASE UNCHANGED vars
  <2>1. UNCHANGED <<changes, db, saving, importing, entries, scheduler_running, schedulers,
                    route_entries, fetches, coordinator, calls, life, crossed>>
    BY <1>25 DEF vars, stored, runtime
  <2>2. Types' /\ KeepStep /\ NoNewUser
    BY <1>1, <2>1, KeptSelf DEF Types, CallTypes, KeepStep, NoNewUser, Spared
  <2> QED
    BY <2>1, <2>2, KeepSafe
<1> QED
  BY <1>2, <1>3, <1>4, <1>5, <1>6, <1>7, <1>8, <1>9, <1>10, <1>11, <1>12, <1>13, <1>14,
     <1>15, <1>16, <1>17, <1>18, <1>19, <1>20, <1>21, <1>22, <1>23, <1>24, <1>25 DEF Next

LEMMA InvariantHolds == Spec => []IInv
<1>1. Init => IInv
  BY InitSafe
<1>2. IInv /\ [Next]_vars => IInv'
  BY StepSafe
<1> QED
  BY <1>1, <1>2, PTL DEF Spec

LEMMA InitRefreshes ==
    ASSUME Init
    PROVE  RefreshInv
BY DEF Init, RefreshInv, EpochsInOrder, CallInv, NewCall

LEMMA StepRefreshes ==
    ASSUME IInv, RefreshInv, [Next]_vars
    PROVE  RefreshInv'
<1>1. Types /\ Generations /\ InFlight
  BY DEF IInv, DataInv
<1>2. ASSUME NEW p \in Providers, NEW token \in Tokens \cup {None}, SaveProvider(p, token)
      PROVE  RefreshInv'
  BY <1>1, <1>2, SaveProviderEffect, KeepStepRefreshes DEF SaveProvider
<1>3. ASSUME NEW p \in Providers, DeleteProvider(p) PROVE RefreshInv'
  BY <1>1, <1>3, DeleteProviderEffect, KeepStepRefreshes DEF DeleteProvider
<1>4. ASSUME NEW p \in Providers, InvalidateSaved(p) PROVE RefreshInv'
  BY <1>1, <1>4, InvalidateSavedRefreshes
<1>5. ASSUME NEW p \in Providers, HeartbeatDesktopLease(p) PROVE RefreshInv'
  BY <1>1, <1>5, HeartbeatDesktopLeaseEffect, KeepStepRefreshes DEF HeartbeatDesktopLease
<1>6. ASSUME NEW p \in Providers, ReleaseDesktopLease(p) PROVE RefreshInv'
  BY <1>1, <1>6, ReleaseDesktopLeaseEffect, KeepStepRefreshes DEF ReleaseDesktopLease
<1>7. ASSUME NEW p \in Providers, LeaseLapses(p) PROVE RefreshInv'
  BY <1>1, <1>7, LeaseLapsesEffect, KeepStepRefreshes DEF LeaseLapses
<1>8. ASSUME NEW p \in Providers, Dispatch(p) PROVE RefreshInv'
  BY <1>1, <1>8, DispatchRefreshes
<1>9. CASE ImportConfig
  BY <1>1, <1>9, ImportConfigEffect, KeepStepRefreshes DEF ImportConfig
<1>10. CASE ResetAll
  BY <1>1, <1>10, ResetAllRefreshes
<1>11. ASSUME NEW c \in Calls, NEW p \in Providers, LoadTarget(c, p) PROVE RefreshInv'
  BY <1>1, <1>11, LoadTargetRefreshes
<1>12. ASSUME NEW c \in Calls, InvalidateUnconfigured(c) PROVE RefreshInv'
  BY <1>1, <1>12, InvalidateUnconfiguredRefreshes
<1>13. ASSUME NEW c \in Calls, AcquireDesktopLease(c) PROVE RefreshInv'
  BY <1>1, <1>13, AcquireDesktopLeaseRefreshes
<1>14. ASSUME NEW c \in Calls, Refresh(c) PROVE RefreshInv'
  BY <1>1, <1>14, RefreshRefreshes
<1>15. ASSUME NEW c \in Calls, CheckCompletion(c) PROVE RefreshInv'
  BY <1>1, <1>15, CheckCompletionRefreshes
<1>16. CASE StartCoordinator
  BY <1>1, <1>16, StartCoordinatorEffect, KeepStepRefreshes DEF StartCoordinator
<1>17. CASE LoadGatewayTargets
  BY <1>1, <1>17, LoadGatewayTargetsEffect, KeepStepRefreshes DEF LoadGatewayTargets
<1>18. CASE ReplaceGatewayTargets
  BY <1>1, <1>18, ReplaceGatewayTargetsRefreshes
<1>19. CASE RemoveRouteEntries
  BY <1>1, <1>19, RemoveRouteEntriesEffect, KeepStepRefreshes DEF RemoveRouteEntries
<1>20. CASE StopCoordinator
  BY <1>1, <1>20, StopCoordinatorEffect, KeepStepRefreshes DEF StopCoordinator
<1>21. CASE AbortCoordinator
  BY <1>1, <1>21, AbortCoordinatorEffect, KeepStepRefreshes DEF AbortCoordinator
<1>22. CASE SchedulerTurn
  <2>1. schedulers > 0 /\ UNCHANGED calls
    BY <1>22 DEF SchedulerTurn
  <2> QED
    BY <1>1, <1>22, <2>1, SchedulerTurnEffect, KeepStepRefreshes
<1>23. ASSUME NEW f \in fetches, ReadProvider(f) PROVE RefreshInv'
  BY <1>1, <1>23, ReadProviderRefreshes
<1>24. ASSUME NEW f \in fetches, NEW ok \in BOOLEAN, CompleteFetch(f, ok) PROVE RefreshInv'
  BY <1>1, <1>24, CompleteFetchRefreshes
<1>25. CASE UNCHANGED vars
  BY <1>25 DEF vars, runtime, RefreshInv, EpochsInOrder, CallInv
<1> QED
  BY <1>2, <1>3, <1>4, <1>5, <1>6, <1>7, <1>8, <1>9, <1>10, <1>11, <1>12, <1>13, <1>14,
     <1>15, <1>16, <1>17, <1>18, <1>19, <1>20, <1>21, <1>22, <1>23, <1>24, <1>25 DEF Next

LEMMA RefreshInvariantHolds == Spec => []RefreshInv
<1>1. Init => RefreshInv
  BY InitRefreshes
<1>2. IInv /\ RefreshInv /\ [Next]_vars => RefreshInv'
  BY StepRefreshes
<1> QED
  BY <1>1, <1>2, InvariantHolds, PTL DEF Spec

\* Every state is well typed, holds at most the permitted fetches, and has at most one
\* scheduler more than there were resets (the types of app/provider_account_usage_runtime.rs).
THEOREM TypeCorrect == Spec => []TypeOK
<1>1. IInv => TypeOK
  <2> SUFFICES ASSUME IInv PROVE TypeOK
    OBVIOUS
  <2>1. Types /\ Bounds
    BY DEF IInv
  <2>2. changes \in 0 .. MaxChanges /\ life \in 0 .. MaxChanges
    BY <2>1, AccountUsageAssumption DEF Types, Bounds, AccountUsageAssumption
  <2>3. db \in [Providers -> [state : {"unborn", "live", "deleted"}, token : Tokens \cup {None},
                             version : 0 .. MaxChanges]]
    <3>1. ASSUME NEW p \in Providers
          PROVE  db[p] \in [state : {"unborn", "live", "deleted"}, token : Tokens \cup {None},
                            version : 0 .. MaxChanges]
      <4>1. db[p] \in StoredProvider /\ db[p].version <= changes
        BY <2>1 DEF Types, Bounds
      <4>2. db[p].version \in 0 .. MaxChanges
        BY <2>2, <4>1, AccountUsageAssumption DEF StoredProvider, AccountUsageAssumption
      <4> QED
        BY <4>1, <4>2 DEF StoredProvider
    <3> QED
      BY <2>1, <3>1 DEF Types
  <2>4. schedulers \in 0 .. life + 1
    BY <2>1 DEF Types, Bounds
  <2>5. /\ coordinator.place \in {"off", "idle", "loaded", "removing"}
        /\ coordinator.targets \in [Providers -> Gated \cup {None}]
        /\ coordinator.removed \subseteq Providers
    BY <2>1 DEF Types, Coordinator
  <2>6. \A c \in Calls :
        /\ calls[c].place \in {"new", "loaded", "waiting", "returned"}
        /\ calls[c].provider \in Providers \cup {None}
        /\ calls[c].token \in Tokens \cup {None}
        /\ calls[c].answer \in {None} \cup SUBSET Calls
    BY <2>1 DEF Types, CallTypes, Call
  <2> QED
    BY <2>1, <2>2, <2>3, <2>4, <2>5, <2>6 DEF TypeOK, Types, Bounds
<1> QED
  BY <1>1, InvariantHolds, PTL

\* A shown result is of the configuration last saved, once its save has invalidated it
\* (the acceptance check of perform_refresh).
THEOREM SnapshotsAreCurrent == Spec => []SnapshotIsCurrent
<1>1. IInv => SnapshotIsCurrent
  BY DEF IInv, DataInv
<1> QED
  BY <1>1, InvariantHolds, PTL

\* The failover gate judges by the snapshot of the runtime or by none (sync_route_target,
\* publish_route_snapshot and the removals, each under its own lock).
THEOREM RouteEntriesShowSnapshots == Spec => []RouteShowsSnapshot
<1>1. IInv => RouteShowsSnapshot
  BY DEF IInv, DataInv
<1> QED
  BY <1>1, InvariantHolds, PTL

\* While somebody uses the runtime a scheduler runs (start_scheduler_if_needed and the end
\* of run_scheduler, across reset_all).
THEOREM ConsumersAreServed == Spec => []SchedulerServesConsumers
<1>1. IInv => SchedulerServesConsumers
  <2> SUFFICES ASSUME IInv, NEW p \in Providers, HasActiveConsumer(entries[p])
               PROVE  scheduler_running /\ schedulers > 0
    BY DEF SchedulerServesConsumers
  <2>1. Used(entries[p])
    BY ConsumerUses DEF IInv
  <2> QED
    BY <2>1, Zenon DEF IInv, SchedulerInv
<1> QED
  BY <1>1, InvariantHolds, PTL

\* A provider that no old completion has touched has at most one fetch under way in each
\* life of the runtime (dispatch_due).
THEOREM FetchIsAlone == Spec => []OneFetchPerProvider
<1>1. IInv => OneFetchPerProvider
  <2> SUFFICES ASSUME IInv, NEW p \in Providers, p \notin crossed
               PROVE  Cardinality({f \in fetches : f.provider = p /\ f.life = life}) <= 1
    BY DEF OneFetchPerProvider
  <2> DEFINE F == {f \in fetches : f.provider = p /\ f.life = life}
  <2>1. \A f, g \in F : f = g
    BY DEF IInv, DataInv, InFlight
  <2>2. F = {} \/ \E f \in F : F = {f}
    BY <2>1
  <2> HIDE DEF F
  <2>3. Cardinality(F) <= 1
    BY <2>2, FS_EmptySet, FS_Singleton
  <2> QED
    BY <2>3 DEF F
<1> QED
  BY <1>1, InvariantHolds, PTL

\* What a manual refresh returns was dispatched while it waited, unless a completion of
\* an earlier life came in between (request_force_epoch, dispatch_due and the loop of refresh).
THEOREM RefreshesAreNew == Spec => []ManualRefreshIsNew
<1>1. RefreshInv => ManualRefreshIsNew
  BY DEF RefreshInv, CallInv, ManualRefreshIsNew
<1> QED
  BY <1>1, RefreshInvariantHolds, PTL

\* A refresh that sleeps on its channel has an epoch that is pending or carried by a fetch
\* the entry waits for (the sender of publish_completion and the check before the sleep).
THEOREM SleepersAreWoken == Spec => []NoLostWakeup
<1>1. Types /\ RefreshInv => NoLostWakeup
  <2> SUFFICES ASSUME Types, RefreshInv, NEW c \in Calls,
                      calls[c].place = "waiting", ~calls[c].woken
               PROVE  LET p == calls[c].provider
                          e == entries[p] IN
                      /\ e # None
                      /\ calls[c].life = life
                      /\ \/ e.pending_force = calls[c].wanted
                         \/ /\ e.in_flight_force = calls[c].wanted
                            /\ \E f \in fetches : f.provider = p /\ Matches(e, f)
    BY DEF NoLostWakeup
  <2>1. Waits(c, calls[c], entries[calls[c].provider], fetches, life, crossed)
    BY DEF RefreshInv, CallInv
  <2> QED
    BY <2>1 DEF Waits, Numbered, Coming
<1> QED
  BY <1>1, InvariantHolds, RefreshInvariantHolds, PTL DEF IInv
================================================================================
