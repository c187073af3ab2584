--------------------------- MODULE SessionBindings ---------------------------
(***************************************************************************)
(* The session manager of the gateway (session_manager.rs) and the way a   *)
(* request uses it from its start to its end: the handler takes a binding  *)
(* token, resolution reads or creates the session's binding and drops one  *)
(* whose provider is no longer eligible, the failback planner may reserve  *)
(* the trigger it acts on, the first transport send commits the            *)
(* reservation and may have to roll it back, and the finalizer binds the   *)
(* provider that answered.  Every operation is one hold of the mutex over  *)
(* the bindings; nothing is held between two of them.                      *)
(*                                                                         *)
(* A request is its token; it reserves at most once, so the token also     *)
(* stands for the owner number of its reservation.  Everything up to the   *)
(* reservation happens at the request's own created_at, the commit and the *)
(* binding at the time of the clock, which may be much later.  A route     *)
(* (sort mode and provider order) is a model value.  The recovery          *)
(* baselines of a binding are fixed when it is created and left out.       *)
(***************************************************************************)
EXTENDS Naturals, FiniteSets

CONSTANTS
    Sessions,               \* session keys
    CliOf,                  \* CliOf[s]: the CLI of the key
    Providers,
    Routes,                 \* what the configured route may be
    Fingerprints,           \* Codex compaction fingerprints of request bodies
    SESSION_TTL,
    TRIGGER_RESERVATION_TTL,
    MAX_BINDINGS,
    MaxRequests,            \* bound: requests of the run
    MaxConcurrent,          \* bound: requests under way at the same time
    MaxCompactions,         \* bound: compact requests among them
    MaxTime,                \* bound: the clock
    None

ASSUME SessionAssumption ==
    /\ SESSION_TTL \in Nat \ {0}
    /\ TRIGGER_RESERVATION_TTL \in Nat
    /\ MAX_BINDINGS \in Nat \ {0}
    /\ MaxRequests \in Nat
    /\ MaxConcurrent \in Nat
    /\ MaxCompactions \in Nat
    /\ MaxTime \in Nat
    /\ None \notin Nat \cup Providers \cup Routes \cup Fingerprints \cup Sessions

Requests == 1 .. MaxRequests

VARIABLES
    now,
    next_binding_request,
    compact_requests,       \* how many of them asked for a compaction
    bindings,               \* bindings[s]: the entry of s in the map, or None
    requests,               \* requests[r]: what request r holds, and its place
    successes               \* history: bind_success calls met by the binding of s

vars == <<now, next_binding_request, compact_requests, bindings, requests, successes>>

------------------------------------------------------------------------------
(* SessionProbeTrigger: 0 and None where the trigger has no such part.     *)

Trigger == [generation : Nat, fingerprint : Fingerprints \cup {None}, route : Routes \cup {None}]

CompactionTrigger(generation, fingerprint) ==
    [generation |-> generation, fingerprint |-> fingerprint, route |-> None]
RouteChangedTrigger(route) ==
    [generation |-> 0, fingerprint |-> None, route |-> route]

Reservation == [owner : Requests, trigger : Trigger, expires_at : Nat]

Binding ==
    [provider_id : Providers \cup {None},
     route : Routes,
     creation_request : Requests,
     last_binding_request : Requests \cup {None},
     expires_at : Nat,
     completed : Nat,           \* completed_compaction_generation
     consumed : Nat,            \* consumed_compaction_generation
     fingerprint : Fingerprints \cup {None},
     reservation : Reservation \cup {None}]

\* SessionTriggerCommit: what the commit replaced.
Commit ==
    [trigger : Trigger, consumed : Nat, fingerprint : Fingerprints \cup {None},
     route : Routes, born : Requests, undone : BOOLEAN]

Places ==
    {"new", "selecting", "binding", "resolving", "clearing", "snapshot", "deciding",
     "planned", "committed", "serving", "compacting", "dropping", "done"}

Request ==
    [place : Places, session : Sessions \cup {None}, created_at : Nat, compact : BOOLEAN,
     fingerprint : Fingerprints \cup {None}, route : Routes \cup {None},
     route_changed : BOOLEAN, stable : BOOLEAN, generation : Nat,
     codex_pending : BOOLEAN, commit : Commit \cup {None}]

NewRequest ==
    [place |-> "new", session |-> None, created_at |-> 0, compact |-> FALSE,
     fingerprint |-> None, route |-> None, route_changed |-> FALSE, stable |-> FALSE,
     generation |-> 0, codex_pending |-> FALSE, commit |-> None]

ASSUME NoneAssumption == None \notin Binding \cup Reservation \cup Commit

Live(s, t) == bindings[s] # None /\ bindings[s].expires_at > t

\* A read of the binding: refreshes it, or removes one that has expired.
Touched(s, t) ==
    [bindings EXCEPT ![s] = IF Live(s, t) THEN [@ EXCEPT !.expires_at = t + SESSION_TTL]
                                          ELSE None]

\* drop_expired
Unexpired(t) == [s \in Sessions |-> IF Live(s, t) THEN bindings[s] ELSE None]

Bound(b) == {s \in Sessions : b[s] # None}

\* Sets that evict_oldest_quarter may remove: a quarter, at least one, none of
\* them expiring later than one that stays.
OldestQuarters(b) ==
    LET quarter == Cardinality(Bound(b)) \div 4
        count == IF quarter = 0 THEN 1 ELSE quarter
    IN  {S \in SUBSET Bound(b) :
            /\ Cardinality(S) = count
            /\ \A s \in S, t \in Bound(b) \ S : b[s].expires_at <= b[t].expires_at}

\* What the map may be once the limit was enforced for an insertion at t.
MadeRoom(t) ==
    IF Cardinality(Bound(bindings)) < MAX_BINDINGS THEN {bindings}
    ELSE IF Cardinality(Bound(Unexpired(t))) < MAX_BINDINGS THEN {Unexpired(t)}
    ELSE {[s \in Sessions |-> IF s \in S THEN None ELSE Unexpired(t)[s]] :
            S \in OldestQuarters(Unexpired(t))}

\* Fault: nobody has answered yet, written as request 0.
NewBinding_AnsweredByZero(r, t) ==
    [provider_id |-> None, route |-> requests[r].route, creation_request |-> r,
     last_binding_request |-> 0, expires_at |-> t + SESSION_TTL,
     completed |-> 0, consumed |-> 0, fingerprint |-> None, reservation |-> None]

NewBinding(r, t) ==
    [provider_id |-> None, route |-> requests[r].route, creation_request |-> r,
     last_binding_request |-> None, expires_at |-> t + SESSION_TTL,
     completed |-> 0, consumed |-> 0, fingerprint |-> None, reservation |-> None]

UnderWay == {r \in Requests : requests[r].place \notin {"new", "done"}}

Moves(r, place) == requests' = [requests EXCEPT ![r].place = place]

\* Once planned, a request needs no more of what it planned from; once it has
\* ended, only what it committed matters.
Settles(r, place) ==
    requests' = [requests EXCEPT ![r] =
        [NewRequest EXCEPT !.place = place,
                           !.session = requests[r].session,
                           !.compact = place # "done" /\ requests[r].compact,
                           !.commit = requests[r].commit]]

\* The history of a session starts over with its binding.
Forget == successes' = [s \in Sessions |-> IF bindings'[s] = None THEN {} ELSE successes[s]]

------------------------------------------------------------------------------
(* The steps of a request.                                                 *)

Init ==
    /\ now = 0
    /\ next_binding_request = 1
    /\ compact_requests = 0
    /\ bindings = [s \in Sessions |-> None]
    /\ requests = [r \in Requests |-> NewRequest]
    /\ successes = [s \in Sessions |-> {}]

\* The handler's entry: the token is taken before the first await.  The planner
\* never looks at the fingerprint of a compact request.
BeginBindingRequest(s, compact, fingerprint) ==
    /\ compact => fingerprint = None /\ compact_requests < MaxCompactions
    /\ next_binding_request \in Requests
    /\ Cardinality(UnderWay) < MaxConcurrent
    /\ requests' = [requests EXCEPT ![next_binding_request] =
                        [NewRequest EXCEPT !.place = "selecting", !.session = s,
                                           !.created_at = now, !.compact = compact,
                                           !.fingerprint = fingerprint]]
    /\ next_binding_request' = next_binding_request + 1
    /\ compact_requests' = IF compact THEN compact_requests + 1 ELSE compact_requests
    /\ UNCHANGED <<now, bindings, successes>>

\* routing_snapshot, then the providers of the configured route are read.
SelectProviders(r, route) ==
    LET q == requests[r] IN
    /\ q.place = "selecting"
    /\ bindings' = Touched(q.session, q.created_at)
    /\ requests' = [requests EXCEPT ![r] =
            [@ EXCEPT !.place = IF Live(q.session, q.created_at) THEN "resolving" ELSE "binding",
                      !.route = route,
                      !.route_changed = /\ Live(q.session, q.created_at)
                                        /\ bindings[q.session].route # route]]
    /\ Forget
    /\ UNCHANGED <<now, next_binding_request, compact_requests>>

\* bind_sort_mode_with_recovery_epoch: another request may have created the
\* binding since the snapshot found none.
BindSortMode(r) ==
    LET q == requests[r]
        s == q.session
        t == q.created_at IN
    /\ q.place = "binding"
    /\ \E room \in MadeRoom(t) :
        bindings' = [room EXCEPT ![s] =
            IF @ = None \/ @.expires_at <= t THEN NewBinding(r, t)
            ELSE IF r < @.creation_request THEN @
            ELSE [@ EXCEPT !.expires_at = t + SESSION_TTL]]
    /\ Moves(r, "resolving")
    /\ successes' = [x \in Sessions |->
            IF bindings'[x] = None \/ (x = s /\ bindings'[s].creation_request = r)
            THEN {} ELSE successes[x]]
    /\ UNCHANGED <<now, next_binding_request, compact_requests>>

\* resolve_session_bound_provider_id: the bound provider is no longer eligible,
\* or it is (stable), or it is not to be used (its circuit denies, no reuse).
GetBoundProvider(r) ==
    LET q == requests[r] IN
    /\ q.place = "resolving"
    /\ bindings' = Touched(q.session, q.created_at)
    /\ \/ Moves(r, "snapshot")
       \/ /\ Live(q.session, q.created_at)
          /\ bindings[q.session].provider_id # None
          /\ \/ Moves(r, "clearing")
             \/ requests' = [requests EXCEPT ![r].place = "snapshot", ![r].stable = TRUE]
    /\ Forget
    /\ UNCHANGED <<now, next_binding_request, compact_requests>>

\* clear_bound_provider removes the whole entry, whatever it is by now.
ClearBoundProvider(r) ==
    /\ requests[r].place = "clearing"
    /\ bindings' = [bindings EXCEPT ![requests[r].session] = None]
    /\ Moves(r, "snapshot")
    /\ Forget
    /\ UNCHANGED <<now, next_binding_request, compact_requests>>

\* plan_request_failback reads the binding again and works out what is pending.
PlanRequestFailback(r) ==
    LET q == requests[r]
        b == bindings[q.session]
        live == Live(q.session, q.created_at) IN
    /\ q.place = "snapshot"
    /\ bindings' = Touched(q.session, q.created_at)
    /\ requests' = [requests EXCEPT ![r] =
            [@ EXCEPT !.place = "deciding",
                      !.generation = IF live /\ b.completed > b.consumed THEN b.completed ELSE 0,
                      !.codex_pending = /\ q.fingerprint # None
                                        /\ live => b.fingerprint # q.fingerprint]]
    /\ Forget
    /\ UNCHANGED <<now, next_binding_request, compact_requests>>

CompactionPending(r) == requests[r].codex_pending \/ requests[r].generation > 0

\* plan_probe: the planner stays (the request is not eligible, nothing is due),
\* or it dispatches with a trigger that reserves nothing (an unbound session, a
\* natural probe, an aggressive turn).
ServeWithoutReservation(r) ==
    /\ requests[r].place = "deciding"
    /\ Settles(r, "serving")
    /\ UNCHANGED <<now, next_binding_request, compact_requests, bindings, successes>>

\* plan_probe stays and confirms the changed route: confirm_route.
ConfirmRoute(r) ==
    LET q == requests[r] IN
    /\ q.place = "deciding"
    /\ q.route_changed
    /\ bindings' = [bindings EXCEPT ![q.session] =
            IF Live(q.session, q.created_at)
            THEN [@ EXCEPT !.route = q.route, !.expires_at = q.created_at + SESSION_TTL]
            ELSE None]
    /\ Settles(r, "serving")
    /\ Forget
    /\ UNCHANGED <<now, next_binding_request, compact_requests>>

\* What the planner would act on: reserve_planner_trigger.  A request with a
\* fingerprint asks for it even when only a generation is pending.
PlannedTrigger(r) ==
    IF requests[r].route_changed THEN RouteChangedTrigger(requests[r].route)
    ELSE CompactionTrigger(requests[r].generation, requests[r].fingerprint)

\* Fault: completed is enough, whoever consumed it meanwhile.
GenerationIsPending_WhenCompleted(generation, b) ==
    generation = b.completed

GenerationIsPending(generation, b) ==
    generation = b.completed /\ generation > b.consumed

ValidTrigger(trigger, b) ==
    IF trigger.route # None THEN b.route # trigger.route
    ELSE IF trigger.fingerprint # None
    THEN /\ b.fingerprint # trigger.fingerprint
         /\ trigger.generation > 0 => GenerationIsPending(trigger.generation, b)
    ELSE GenerationIsPending(trigger.generation, b)

HoldsReservation(b, t) == b.reservation # None /\ b.reservation.expires_at > t

\* try_reserve_probe_trigger: without a reservation there is no intent.
TryReserveProbeTrigger(r) ==
    LET q == requests[r]
        s == q.session
        t == q.created_at
        b == bindings[s]
        trigger == PlannedTrigger(r)
        granted == Live(s, t) /\ ~HoldsReservation(b, t) /\ ValidTrigger(trigger, b) IN
    /\ q.place = "deciding"
    /\ ~q.compact /\ q.stable
    /\ q.route_changed \/ CompactionPending(r)
    /\ bindings' = [bindings EXCEPT ![s] =
            IF ~Live(s, t) THEN None
            ELSE IF granted
            THEN [b EXCEPT !.reservation = [owner |-> r, trigger |-> trigger,
                                            expires_at |-> t + TRIGGER_RESERVATION_TTL],
                           !.expires_at = t + SESSION_TTL]
            ELSE [b EXCEPT !.reservation = IF HoldsReservation(b, t) THEN @ ELSE None]]
    /\ Settles(r, IF granted THEN "planned" ELSE "serving")
    /\ Forget
    /\ UNCHANGED <<now, next_binding_request, compact_requests>>

------------------------------------------------------------------------------
(* The transport boundary.                                                 *)

\* The reservation of s that r may still commit.
Commits(r, b) ==
    /\ b.reservation # None
    /\ b.reservation.owner = r
    /\ b.reservation.expires_at > now

Applied(b, trigger) ==
    [b EXCEPT !.consumed = IF trigger.generation > @ THEN trigger.generation ELSE @,
              !.fingerprint = IF trigger.fingerprint # None THEN trigger.fingerprint ELSE @,
              !.route = IF trigger.route # None THEN trigger.route ELSE @,
              !.reservation = None]

\* commit_trigger_reservation at the first poll of the transport send.
CommitTriggerReservation(r) ==
    LET s == requests[r].session
        b == bindings[s] IN
    /\ requests[r].place = "planned"
    /\ Live(s, now)
    /\ Commits(r, b)
    /\ bindings' = [bindings EXCEPT ![s] = Applied(b, b.reservation.trigger)]
    /\ requests' = [requests EXCEPT ![r].place = "committed",
                                    ![r].commit = [trigger |-> b.reservation.trigger,
                                                   consumed |-> b.consumed,
                                                   fingerprint |-> b.fingerprint,
                                                   route |-> b.route,
                                                   born |-> b.creation_request,
                                                   undone |-> FALSE]]
    /\ UNCHANGED <<now, next_binding_request, compact_requests, successes>>

\* The same without a reservation to commit: every planned target is rejected.
LoseTriggerReservation(r) ==
    LET s == requests[r].session IN
    /\ requests[r].place = "planned"
    /\ Live(s, now) => ~Commits(r, bindings[s])
    /\ bindings' = [bindings EXCEPT ![s] =
            IF ~Live(s, now) THEN None
            ELSE IF @.reservation # None /\ @.reservation.owner = r
            THEN [@ EXCEPT !.reservation = None] ELSE @]
    /\ Moves(r, "serving")
    /\ Forget
    /\ UNCHANGED <<now, next_binding_request, compact_requests>>

\* A direct target, or the probe was marked dispatched and stored.
Dispatch(r) ==
    /\ requests[r].place = "committed"
    /\ Moves(r, "serving")
    /\ UNCHANGED <<now, next_binding_request, compact_requests, bindings, successes>>

\* SessionTriggerCommit::rollback recognises its commit by the value it wrote.
RollbackApplies(c, b) ==
    IF c.trigger.route # None THEN b.route = c.trigger.route
    ELSE IF c.trigger.fingerprint # None THEN b.fingerprint = c.trigger.fingerprint
    ELSE b.consumed = c.trigger.generation

RolledBack(c, b) ==
    [b EXCEPT !.route = IF c.trigger.route # None THEN c.route ELSE @,
              !.fingerprint = IF c.trigger.fingerprint # None THEN c.fingerprint ELSE @,
              !.consumed = IF c.trigger.generation > 0 /\ @ = c.trigger.generation
                           THEN c.consumed ELSE @]

\* The probe lease is stale or could not be stored: the send is rejected.
Rollback(r) ==
    LET s == requests[r].session
        c == requests[r].commit
        applies == bindings[s] # None /\ RollbackApplies(c, bindings[s])
        gave_back == /\ applies
                     /\ c.trigger.generation > 0
                     /\ bindings[s].consumed = c.trigger.generation IN
    /\ requests[r].place = "committed"
    /\ bindings' = IF applies THEN [bindings EXCEPT ![s] = RolledBack(c, @)] ELSE bindings
    /\ requests' = [q \in Requests |->
            IF q = r THEN [requests[q] EXCEPT !.place = "serving", !.commit.undone = TRUE]
            ELSE IF /\ gave_back
                    /\ requests[q].session = s
                    /\ requests[q].commit # None
                    /\ requests[q].commit.trigger.generation = c.trigger.generation
            THEN [requests[q] EXCEPT !.commit.undone = TRUE]
            ELSE requests[q]]
    /\ UNCHANGED <<now, next_binding_request, compact_requests, successes>>

------------------------------------------------------------------------------
(* The end of a request.                                                   *)

\* Fault: only the creation of the binding is compared.
NewerSuccess_OfTheBinding(b, r, provider) ==
    r < b.creation_request

NewerSuccess(b, r, provider) ==
    \/ r < b.creation_request
    \/ /\ b.last_binding_request # None
       /\ \/ r < b.last_binding_request
          \/ r = b.last_binding_request /\ b.provider_id # provider

\* bind_success, by a planned target or by a fallback after them.
BindSuccess(r, provider) ==
    LET q == requests[r]
        s == q.session IN
    /\ q.place \in {"serving", "planned"}
    /\ bindings' = [bindings EXCEPT ![s] =
            IF ~Live(s, now) THEN None
            ELSE IF NewerSuccess(@, r, provider) THEN @
            ELSE [@ EXCEPT !.provider_id = provider, !.last_binding_request = r,
                           !.expires_at = now + SESSION_TTL]]
    /\ Settles(r, IF q.compact THEN "compacting"
                  ELSE IF q.place = "planned" THEN "dropping" ELSE "done")
    /\ successes' = [x \in Sessions |->
            IF bindings'[x] = None THEN {}
            ELSE IF x = s THEN successes[s] \cup {<<r, provider>>} ELSE successes[x]]
    /\ UNCHANGED <<now, next_binding_request, compact_requests>>

\* Nothing is bound: the request fails, or its answer is not to be bound (a managed
\* route, a probe that is stale by now), which may complete a compaction all the same.
EndUnbound(r) ==
    /\ requests[r].place = "serving"
    /\ \/ Settles(r, "done")
       \/ requests[r].compact /\ Settles(r, "compacting")
    /\ UNCHANGED <<now, next_binding_request, compact_requests, bindings, successes>>

\* mark_compaction_completed, after the binding, if any, of a compact request.
MarkCompactionCompleted(r) ==
    LET s == requests[r].session
        b == bindings[s] IN
    /\ requests[r].place = "compacting"
    /\ bindings' = [bindings EXCEPT ![s] =
            IF Live(s, now)
            THEN [b EXCEPT !.completed = b.completed + 1, !.expires_at = now + SESSION_TTL]
            ELSE None]
    /\ Settles(r, "done")
    /\ Forget
    /\ UNCHANGED <<now, next_binding_request, compact_requests>>

\* Fault: after a fallback bound the session the reservation is forgotten.
ReleaseTriggerReservation_UnlessBound(r) ==
    LET s == requests[r].session IN
    /\ requests[r].place \in {"planned", "dropping"}
    /\ bindings' = [bindings EXCEPT ![s] =
            IF /\ requests[r].place = "planned"
               /\ @ # None /\ @.reservation # None /\ @.reservation.owner = r
            THEN [@ EXCEPT !.reservation = None] ELSE @]
    /\ Settles(r, "done")
    /\ UNCHANGED <<now, next_binding_request, compact_requests, successes>>

\* The intent is dropped uncommitted: release_trigger_reservation.
ReleaseTriggerReservation(r) ==
    LET s == requests[r].session IN
    /\ requests[r].place \in {"planned", "dropping"}
    /\ bindings' = [bindings EXCEPT ![s] =
            IF @ # None /\ @.reservation # None /\ @.reservation.owner = r
            THEN [@ EXCEPT !.reservation = None] ELSE @]
    /\ Settles(r, "done")
    /\ UNCHANGED <<now, next_binding_request, compact_requests, successes>>

------------------------------------------------------------------------------
(* Other actors.                                                           *)

\* clear_cli_bindings
ClearCliBindings(cli) ==
    /\ \E s \in Bound(bindings) : CliOf[s] = cli
    /\ bindings' = [s \in Sessions |-> IF CliOf[s] = cli THEN None ELSE bindings[s]]
    /\ Forget
    /\ UNCHANGED <<now, next_binding_request, compact_requests, requests>>

\* clear_all_bindings
ClearAllBindings ==
    /\ Bound(bindings) # {}
    /\ bindings' = [s \in Sessions |-> None]
    /\ Forget
    /\ UNCHANGED <<now, next_binding_request, compact_requests, requests>>

\* list_active, polled by the window.
ListActive ==
    /\ bindings' = Unexpired(now)
    /\ Forget
    /\ UNCHANGED <<now, next_binding_request, compact_requests, requests>>

Tick ==
    /\ now < MaxTime
    /\ now' = now + 1
    /\ UNCHANGED <<next_binding_request, compact_requests, bindings, requests, successes>>

RequestStep(r) ==
    \/ \E route \in Routes : SelectProviders(r, route)
    \/ BindSortMode(r)
    \/ GetBoundProvider(r)
    \/ ClearBoundProvider(r)
    \/ PlanRequestFailback(r)
    \/ ServeWithoutReservation(r)
    \/ ConfirmRoute(r)
    \/ TryReserveProbeTrigger(r)
    \/ CommitTriggerReservation(r)
    \/ LoseTriggerReservation(r)
    \/ Dispatch(r)
    \/ Rollback(r)
    \/ \E provider \in Providers : BindSuccess(r, provider)
    \/ EndUnbound(r)
    \/ MarkCompactionCompleted(r)
    \/ ReleaseTriggerReservation(r)

Next ==
    \/ \E s \in Sessions, compact \in BOOLEAN, fingerprint \in Fingerprints \cup {None} :
            BeginBindingRequest(s, compact, fingerprint)
    \/ \E r \in Requests : RequestStep(r)
    \/ \E s \in Sessions : ClearCliBindings(CliOf[s])
    \/ ClearAllBindings
    \/ ListActive
    \/ Tick

Spec == Init /\ [][Next]_vars

------------------------------------------------------------------------------
(* Properties.                                                             *)

TypeOK ==
    /\ now \in 0 .. MaxTime
    /\ next_binding_request \in 1 .. MaxRequests + 1
    /\ compact_requests \in 0 .. MaxCompactions
    /\ bindings \in [Sessions -> Binding \cup {None}]
    /\ requests \in [Requests -> Request]
    /\ successes \in [Sessions -> SUBSET (Requests \X Providers)]

Counted(s) == {f \in successes[s] : f[1] >= bindings[s].creation_request}

\* However the requests of a session finish, the session is bound to the
\* provider that answered its newest finished request, among those not older
\* than the binding itself: neither a slow older answer nor an answer to a
\* binding that was cleared and made again moves it back (bind_success).
NewestAnswerIsBound ==
    \A s \in Bound(bindings) :
        LET b == bindings[s] IN
        IF Counted(s) = {}
        THEN b.provider_id = None /\ b.last_binding_request = None
        ELSE /\ <<b.last_binding_request, b.provider_id>> \in Counted(s)
             /\ \A f \in Counted(s) : f[1] <= b.last_binding_request

Spends(r, generation) ==
    /\ requests[r].commit # None
    /\ ~requests[r].commit.undone
    /\ requests[r].commit.trigger.generation = generation

\* A completed compaction is spent by at most one request that sends with it, in
\* one life of the binding, unless a rollback gave the generation back: a
\* reservation that lapsed, or was taken on an earlier life of the binding,
\* never commits beside its successor.
CompactionIsSpentOnce ==
    \A q, r \in Requests :
        \A generation \in 1 .. MaxRequests :
            /\ q # r
            /\ Spends(q, generation) /\ Spends(r, generation)
            /\ requests[q].session = requests[r].session
            => requests[q].commit.born # requests[r].commit.born

\* The consumed generation never runs ahead of the completed one, not even when
\* a commit or its rollback meets a binding made after the one it was for: the
\* next compaction would otherwise find no session that waits for it.
ConsumedWasCompleted ==
    \A s \in Bound(bindings) : bindings[s].consumed <= bindings[s].completed

\* A reservation in the map has a request that will commit or release it, so no
\* request that ended keeps the trigger of its session from the next one.
ReservationHasHolder ==
    \A s \in Bound(bindings) :
        bindings[s].reservation # None =>
            /\ requests[bindings[s].reservation.owner].session = s
            /\ requests[bindings[s].reservation.owner].place \in {"planned", "dropping"}
=============================================================================
