----------------------- MODULE CircuitHealthTheorems -----------------------
(***************************************************************************)
(* What the breaker calls preserve and change in one health record, for    *)
(* every record, time and configuration.  CircuitBreakerProofs cites these *)
(* lemmas once per action.                                                 *)
(***************************************************************************)
EXTENDS CircuitHealth, FiniteSetTheorems, WellFoundedInduction, TLAPS

\* Pruning leaves a bag of failures.
LEMMA RecentFailuresType ==
    ASSUME NEW failures \in Failures, NEW now \in Int
    PROVE  RecentFailures(failures, now) \in Failures
BY FS_Subset DEF Failures, RecentFailures

\* Counting a failure leaves a health record and touches only the bag.
LEMMA CountFailureType ==
    ASSUME NEW e \in ProviderHealth, NEW now \in Int
    PROVE  /\ count_failure(e, now) \in ProviderHealth
           /\ count_failure(e, now) =
                [e EXCEPT !.failure_timestamps = count_failure(e, now).failure_timestamps]
<1> DEFINE again == {f \in e.failure_timestamps : f[1] = now}
           pushed == e.failure_timestamps \cup {<<now, Cardinality(again) + 1>>}
<1>1. e.failure_timestamps \in Failures
  BY DEF ProviderHealth
<1>2. IsFiniteSet(e.failure_timestamps) /\ e.failure_timestamps \subseteq Int \X Nat
  BY <1>1 DEF Failures
<1>3. Cardinality(again) \in Nat
  BY <1>2, FS_Subset, FS_CardinalityType
<1>4. IsFiniteSet(pushed)
  BY <1>2, FS_AddElement
<1>5. pushed \in Failures
  BY <1>2, <1>3, <1>4 DEF Failures
<1>6. RecentFailures(pushed, now) \in Failures
  BY <1>5, RecentFailuresType
<1>7. count_failure(e, now) = [e EXCEPT !.failure_timestamps = RecentFailures(pushed, now)]
  BY DEF count_failure
<1> QED
  BY <1>6, <1>7 DEF ProviderHealth

-----------------------------------------------------------------------------
WellFormed(e) == e \in ProviderHealth /\ probeable(e)

\* What a later record may not undo: the generation counter, and the revision of
\* everything that is stored.
Follows(e, x) ==
    /\ x.probe_generation >= e.probe_generation
    /\ \/ persisted_from_health(x) = persisted_from_health(e)
       \/ x.state_revision > e.state_revision

\* Nobody else's call takes a dispatched lease away or moves it.
KeepsLease(e, x) ==
    /\ x.state = e.state
    /\ \/ x.probe_lease = e.probe_lease
       \/ x.probe_lease = None /\ ~lease_dispatched(e)

\* Raising the revision changes the two counters and nothing else.
LEMMA BumpRevision ==
    ASSUME NEW e \in ProviderHealth
    PROVE  /\ bump_revision(e) \in ProviderHealth
           /\ bump_revision(e).state_revision = e.state_revision + 1
           /\ bump_revision(e).probe_generation >= e.probe_generation
           /\ bump_revision(e).state = e.state
           /\ bump_revision(e).probe_lease = e.probe_lease
           /\ probeable(bump_revision(e)) <=> probeable(e)
<1> DEFINE revision == e.state_revision + 1
           generation == AtLeast(e.probe_generation, revision)
<1>1. /\ revision \in Nat
      /\ generation \in Nat
      /\ generation >= e.probe_generation
  BY DEF AtLeast, ProviderHealth
<1>2. bump_revision(e) = [e EXCEPT !.state_revision = revision,
                                   !.probe_generation = generation]
  BY DEF bump_revision
<1> HIDE DEF generation
<1>3. bump_revision(e) \in ProviderHealth
  BY <1>1, <1>2 DEF ProviderHealth
<1>4. /\ bump_revision(e).state_revision = revision
      /\ bump_revision(e).probe_generation = generation
      /\ bump_revision(e).state = e.state
      /\ bump_revision(e).probe_lease = e.probe_lease
  BY <1>2 DEF ProviderHealth
<1>5. probeable(bump_revision(e)) <=> probeable(e)
  BY <1>2 DEF ProviderHealth, probeable
<1> QED
  BY <1>1, <1>3, <1>4, <1>5

\* The step to OPEN sets every deadline and ends the recovery guard.
LEMMA SetOpenDeadlines ==
    ASSUME NEW e \in ProviderHealth, NEW cfg \in Configs, NEW now \in Int
    PROVE  /\ WellFormed(set_open_deadlines(cfg, e, now))
           /\ set_open_deadlines(cfg, e, now).state = "OPEN"
           /\ set_open_deadlines(cfg, e, now).probe_lease = e.probe_lease
           /\ set_open_deadlines(cfg, e, now).state_revision = e.state_revision
           /\ set_open_deadlines(cfg, e, now).probe_generation = e.probe_generation
<1> DEFINE natural == now + AtLeast(cfg.natural_probe_max_wait_secs, 1)
           next == now + AtLeast(cfg.provider_cooldown_secs, 0)
           until == now + AtLeast(cfg.open_duration_secs, 1)
           x == [e EXCEPT !.probe_reference_at = now,
                          !.natural_probe_due_at = natural,
                          !.state = "OPEN",
                          !.recovery_epoch = 0,
                          !.next_probe_at = next,
                          !.open_until = until,
                          !.recovery_guard_until = None]
<1>1. natural \in Int /\ next \in Int /\ until \in Int
  BY ConfigsAssumption DEF AtLeast, CircuitBreakerConfig
<1>2. set_open_deadlines(cfg, e, now) = x
  BY DEF set_open_deadlines, set_natural_failback_deadline
<1>2a. of_one_configuration(now, next, natural)
  BY ConfigsAssumption DEF of_one_configuration, AtLeast, CircuitBreakerConfig
<1> HIDE DEF natural, next, until
<1>3. x \in ProviderHealth
  BY <1>1 DEF ProviderHealth, Optional
<1>4. probeable(x)
  BY <1>1, <1>2a, NoneAssumption DEF ProviderHealth, probeable
<1> QED
  BY <1>2, <1>3, <1>4 DEF WellFormed, ProviderHealth

\* Lapsing the recovery guard and a reserved lease.
LEMMA ExpireRuntimeState ==
    ASSUME NEW e, WellFormed(e), NEW now \in Int
    PROVE  /\ WellFormed(expire_runtime_state(e, now))
           /\ KeepsLease(e, expire_runtime_state(e, now))
           /\ Follows(e, expire_runtime_state(e, now))
<1> DEFINE g == expire_guard(e, now)
<1>1. /\ WellFormed(g)
      /\ g.state = e.state
      /\ g.probe_lease = e.probe_lease
      /\ Follows(e, g)
  <2>1. CASE e.recovery_guard_until # None /\ now >= e.recovery_guard_until
    <3> DEFINE c == [e EXCEPT !.recovery_guard_until = None]
    <3>1. c \in ProviderHealth
      BY DEF WellFormed, ProviderHealth, Optional
    <3>2. g = bump_revision(c)
      BY <2>1 DEF expire_guard
    <3>3. probeable(c)
      BY DEF WellFormed, probeable, ProviderHealth
    <3>4. /\ c.state = e.state
          /\ c.probe_lease = e.probe_lease
          /\ c.state_revision = e.state_revision
          /\ c.probe_generation = e.probe_generation
      BY DEF WellFormed, ProviderHealth
    <3>5. e.state_revision \in Nat
      BY DEF WellFormed, ProviderHealth
    <3> HIDE DEF c, g
    <3>6. /\ g \in ProviderHealth
          /\ g.state_revision = c.state_revision + 1
          /\ g.probe_generation >= c.probe_generation
          /\ g.state = c.state
          /\ g.probe_lease = c.probe_lease
          /\ probeable(g)
      BY <3>1, <3>2, <3>3, BumpRevision
    <3> QED
      BY <3>4, <3>5, <3>6 DEF WellFormed, Follows
  <2>2. CASE ~(e.recovery_guard_until # None /\ now >= e.recovery_guard_until)
    <3>1. g = e /\ e.probe_generation \in Nat
      BY <2>2 DEF expire_guard, WellFormed, ProviderHealth
    <3> QED
      BY <3>1 DEF Follows
  <2> QED
    BY <2>1, <2>2
<1> HIDE DEF g
<1>2. expire_runtime_state(e, now) =
        [g EXCEPT !.probe_lease = IF expired_lease(e, now) THEN None ELSE g.probe_lease]
  BY DEF expire_runtime_state, g
<1>3. WellFormed(expire_runtime_state(e, now))
  BY <1>1, <1>2 DEF WellFormed, ProviderHealth, probeable, Optional
<1>4. KeepsLease(e, expire_runtime_state(e, now))
  BY <1>1, <1>2 DEF KeepsLease, WellFormed, ProviderHealth, expired_lease, lease_dispatched
<1>5. Follows(e, expire_runtime_state(e, now))
  BY <1>1, <1>2 DEF Follows, WellFormed, ProviderHealth, persisted_from_health
<1> QED
  BY <1>3, <1>4, <1>5

LEMMA FollowsTransitive ==
    ASSUME NEW e \in ProviderHealth, NEW y \in ProviderHealth, NEW x \in ProviderHealth,
           Follows(e, y), Follows(y, x)
    PROVE  Follows(e, x)
BY DEF Follows, ProviderHealth, persisted_from_health

\* A change after which the revision is raised follows, whatever it changed.
LEMMA BumpFollows ==
    ASSUME NEW e \in ProviderHealth, NEW y \in ProviderHealth,
           y.state_revision >= e.state_revision,
           y.probe_generation >= e.probe_generation
    PROVE  /\ Follows(e, bump_revision(y))
           /\ bump_revision(y).state_revision > e.state_revision
<1>1. /\ bump_revision(y).state_revision = y.state_revision + 1
      /\ bump_revision(y).probe_generation >= y.probe_generation
      /\ bump_revision(y) \in ProviderHealth
  BY BumpRevision
<1> QED
  BY <1>1 DEF Follows, ProviderHealth

\* Whatever follows an expired record follows the record.
LEMMA ExpireThen ==
    ASSUME NEW e, WellFormed(e), NEW now \in Int,
           NEW x \in ProviderHealth, Follows(expire_runtime_state(e, now), x)
    PROVE  Follows(e, x)
BY ExpireRuntimeState, FollowsTransitive DEF WellFormed

LEMMA ClosedIsWellFormed == WellFormed(closed)
<1>1. {} \in Failures
  BY FS_EmptySet DEF Failures
<1> QED
  BY <1>1 DEF WellFormed, closed, ProviderHealth, probeable, Optional

-----------------------------------------------------------------------------
(* Calls without a lease.                                                   *)

LEMMA RecordSuccessEffect ==
    ASSUME NEW e, WellFormed(e), NEW now \in Int
    PROVE  /\ WellFormed(record_success(e, now))
           /\ KeepsLease(e, record_success(e, now))
           /\ Follows(e, record_success(e, now))
<1> DEFINE x == expire_runtime_state(e, now)
           c == [x EXCEPT !.cooldown_until = None,
                          !.probe_reference_at = None,
                          !.natural_probe_due_at = None]
           d == [c EXCEPT !.failure_timestamps = {}]
           changed == \/ x.failure_timestamps # {}
                      \/ x.probe_reference_at # None
                      \/ x.natural_probe_due_at # None
<1>1. WellFormed(x) /\ KeepsLease(e, x) /\ Follows(e, x)
  BY ExpireRuntimeState
<1>2. x.state \in {"CLOSED", "OPEN"}
  BY <1>1 DEF WellFormed, ProviderHealth
<1>3. CASE x.state = "OPEN"
  <2>1. record_success(e, now) = x
    BY <1>3 DEF record_success
  <2> QED
    BY <1>1, <2>1
<1>4. CASE x.state = "CLOSED" /\ ~changed
  <2>1. record_success(e, now) = c
    BY <1>4 DEF record_success
  <2> DEFINE same == /\ c.state = x.state
                     /\ c.failure_timestamps = x.failure_timestamps
                     /\ c.open_until = x.open_until
                     /\ c.probe_reference_at = x.probe_reference_at
                     /\ c.next_probe_at = x.next_probe_at
                     /\ c.natural_probe_due_at = x.natural_probe_due_at
                     /\ c.recovery_guard_until = x.recovery_guard_until
                     /\ c.state_revision = x.state_revision
  <2>1a. c \in ProviderHealth
    BY <1>1 DEF WellFormed, ProviderHealth, Optional
  <2>1b. /\ c.probe_lease = x.probe_lease
        /\ c.probe_generation = x.probe_generation
        /\ x.probe_generation \in Nat
        /\ same
    BY <1>1, <1>4 DEF WellFormed, ProviderHealth
  <2>2. /\ c \in ProviderHealth
        /\ c.state = "CLOSED"
        /\ c.probe_lease = x.probe_lease
        /\ Follows(x, c)
    <3> HIDE DEF c, x
    <3>1. persisted_from_health(c) = persisted_from_health(x)
      BY <2>1b DEF persisted_from_health
    <3> QED
      BY <1>4, <2>1a, <2>1b, <3>1 DEF Follows
  <2> HIDE DEF c, x
  <2>3. Follows(e, c)
    BY <1>1, <2>2, ExpireThen DEF x
  <2> QED
    BY <1>1, <1>4, <2>1, <2>2, <2>3 DEF WellFormed, probeable, KeepsLease
<1>5. CASE x.state = "CLOSED" /\ changed
  <2>1. record_success(e, now) = bump_revision(d)
    BY <1>5 DEF record_success
  <2>2. {} \in Failures
    BY FS_EmptySet DEF Failures
  <2>3. /\ d \in ProviderHealth
        /\ d.state = "CLOSED"
        /\ d.probe_lease = x.probe_lease
        /\ d.state_revision = x.state_revision
        /\ d.probe_generation = x.probe_generation
        /\ x.state_revision \in Nat
        /\ x.probe_generation \in Nat
    BY <1>1, <1>5, <2>2 DEF WellFormed, ProviderHealth, Optional
  <2> HIDE DEF d, x
  <2>4. Follows(x, bump_revision(d))
    BY <1>1, <2>3, BumpFollows DEF WellFormed
  <2>5. /\ bump_revision(d) \in ProviderHealth
        /\ bump_revision(d).state = "CLOSED"
        /\ bump_revision(d).probe_lease = x.probe_lease
    BY <2>3, BumpRevision
  <2>6. Follows(e, bump_revision(d))
    BY <2>4, <2>5, ExpireThen DEF x
  <2> QED
    BY <1>1, <1>5, <2>1, <2>5, <2>6 DEF WellFormed, probeable, KeepsLease
<1> QED
  BY <1>2, <1>3, <1>4, <1>5

\* Two steps that keep the lease keep the lease.
LEMMA KeepsLeaseTransitive ==
    ASSUME NEW e, NEW y, NEW x, KeepsLease(e, y), KeepsLease(y, x)
    PROVE  KeepsLease(e, x)
BY DEF KeepsLease, lease_dispatched

LEMMA ShouldAllowEffect ==
    ASSUME NEW e, WellFormed(e), NEW now \in Int
    PROVE  \/ /\ WellFormed(should_allow(e, now))
              /\ KeepsLease(e, should_allow(e, now))
              /\ Follows(e, should_allow(e, now))
           \/ /\ should_allow(e, now) = None
              /\ e.state = "CLOSED"
              /\ e.probe_lease = None \/ ~lease_dispatched(e)
              /\ e.state_revision = 0
              /\ persisted_from_health(e) = persisted_from_health(closed)
<1> DEFINE k == [e EXCEPT !.cooldown_until =
                    IF e.cooldown_until # None /\ now >= e.cooldown_until
                    THEN None ELSE e.cooldown_until]
           x == expire_runtime_state(k, now)
           r == prune_old_failures(x, now)
           a == IF x.state = "CLOSED" /\ r # x THEN bump_revision(r) ELSE x
<1>1. WellFormed(k) /\ KeepsLease(e, k) /\ Follows(e, k)
  BY DEF WellFormed, KeepsLease, Follows, ProviderHealth, probeable, Optional,
         persisted_from_health
<1> HIDE DEF k
<1>2. WellFormed(x) /\ KeepsLease(k, x) /\ Follows(k, x)
  BY <1>1, ExpireRuntimeState
<1> HIDE DEF x
<1>3. RecentFailures(x.failure_timestamps, now) \in Failures
  BY <1>2, RecentFailuresType DEF WellFormed, ProviderHealth
<1>4. /\ r \in ProviderHealth
      /\ r.state = x.state
      /\ r.probe_lease = x.probe_lease
      /\ r.state_revision = x.state_revision
      /\ r.probe_generation = x.probe_generation
      /\ x.state_revision \in Nat
      /\ x.probe_generation \in Nat
  BY <1>2, <1>3 DEF prune_old_failures, WellFormed, ProviderHealth
<1> HIDE DEF r
<1>5. WellFormed(a) /\ KeepsLease(x, a) /\ Follows(x, a)
  <2>1. CASE x.state = "CLOSED" /\ r # x
    <3>1. /\ bump_revision(r) \in ProviderHealth
          /\ bump_revision(r).state = "CLOSED"
          /\ bump_revision(r).probe_lease = x.probe_lease
      BY <1>4, <2>1, BumpRevision
    <3>2. Follows(x, bump_revision(r))
      BY <1>2, <1>4, BumpFollows DEF WellFormed
    <3> QED
      BY <2>1, <3>1, <3>2 DEF WellFormed, probeable, KeepsLease
  <2>2. CASE ~(x.state = "CLOSED" /\ r # x)
    BY <1>2, <1>4, <2>2 DEF KeepsLease, Follows
  <2> QED
    BY <2>1, <2>2
<1> HIDE DEF a
<1>6. KeepsLease(e, a)
  BY <1>1, <1>2, <1>5, KeepsLeaseTransitive
<1>7. Follows(e, a)
  BY <1>1, <1>2, <1>5, FollowsTransitive DEF WellFormed
<1>8. should_allow(e, now) =
        IF is_inert_closed_health(a) /\ a.state_revision = 0 THEN None ELSE a
  BY DEF should_allow, a, r, x, k
<1>9. CASE is_inert_closed_health(a) /\ a.state_revision = 0
  <2>1. persisted_from_health(a) = persisted_from_health(closed)
    BY <1>9 DEF is_inert_closed_health, persisted_from_health, closed
  <2>2. persisted_from_health(a) = persisted_from_health(e)
    BY <1>7, <1>9 DEF Follows, WellFormed, ProviderHealth
  <2>3. a.state = "CLOSED" /\ a.state_revision = 0
    BY <1>9 DEF is_inert_closed_health
  <2>4. e.state_revision = a.state_revision
    BY <2>2 DEF persisted_from_health
  <2>5. e.state = "CLOSED" /\ (e.probe_lease = None \/ ~lease_dispatched(e))
    BY <1>6, <1>9, <2>3 DEF KeepsLease, is_inert_closed_health
  <2> QED
    BY <1>8, <1>9, <2>1, <2>2, <2>3, <2>4, <2>5
<1>10. CASE ~(is_inert_closed_health(a) /\ a.state_revision = 0)
  BY <1>5, <1>6, <1>7, <1>8, <1>10
<1> QED
  BY <1>9, <1>10

\* What an operation that ends with a raised revision leaves, given the record y
\* it raised.
LEMMA BumpEffect ==
    ASSUME NEW e \in ProviderHealth, NEW y, WellFormed(y),
           y.state_revision >= e.state_revision,
           y.probe_generation >= e.probe_generation
    PROVE  /\ WellFormed(bump_revision(y))
           /\ Follows(e, bump_revision(y))
           /\ bump_revision(y).state = y.state
           /\ bump_revision(y).probe_lease = y.probe_lease
BY BumpRevision, BumpFollows DEF WellFormed

\* A step to OPEN with a raised revision.
LEMMA OpenEffect ==
    ASSUME NEW e \in ProviderHealth, NEW y \in ProviderHealth,
           NEW cfg \in Configs, NEW now \in Int,
           y.state_revision >= e.state_revision,
           y.probe_generation >= e.probe_generation
    PROVE  LET z == bump_revision(set_open_deadlines(cfg, y, now))
           IN  /\ WellFormed(z)
               /\ Follows(e, z)
               /\ z.state = "OPEN"
               /\ z.probe_lease = y.probe_lease
<1> DEFINE o == set_open_deadlines(cfg, y, now)
<1>1. /\ WellFormed(o)
      /\ o.state = "OPEN"
      /\ o.probe_lease = y.probe_lease
      /\ o.state_revision = y.state_revision
      /\ o.probe_generation = y.probe_generation
  BY SetOpenDeadlines
<1> HIDE DEF o
<1> QED
  BY <1>1, BumpEffect DEF o

\* An ordinary failure leaves the lease of an OPEN circuit alone, and a circuit
\* it opens has no lease.
LEMMA RecordFailureEffect ==
    ASSUME NEW e, WellFormed(e), NEW cfg \in Configs, NEW now \in Int
    PROVE  LET z == record_failure(cfg, e, now)
           IN  /\ WellFormed(z)
               /\ Follows(e, z)
               /\ \/ KeepsLease(e, z)
                  \/ e.state = "CLOSED" /\ z.state = "OPEN" /\ z.probe_lease = None
<1> DEFINE y == expire_runtime_state(e, now)
           x == [y EXCEPT !.recovery_epoch = 0]
           f == count_failure(x, now)
           c == set_natural_failback_deadline(cfg, f, now)
           d == [c EXCEPT !.probe_lease = None]
           trips == \/ /\ c.recovery_guard_until # None
                       /\ now < c.recovery_guard_until
                    \/ effective_failure_count(c, now) >= cfg.failure_threshold
           z == record_failure(cfg, e, now)
<1>0. z = IF x.state = "OPEN" THEN x
          ELSE IF trips THEN protect_open(cfg, c, now) ELSE bump_revision(c)
  BY DEF record_failure
<1> HIDE DEF trips, z
<1>1. WellFormed(y) /\ KeepsLease(e, y) /\ Follows(e, y)
  BY ExpireRuntimeState
<1> HIDE DEF y
<1>2. /\ WellFormed(x)
      /\ KeepsLease(y, x)
      /\ Follows(y, x)
      /\ x.state_revision = y.state_revision
      /\ x.probe_generation = y.probe_generation
      /\ x.state \in {"CLOSED", "OPEN"}
  BY <1>1 DEF WellFormed, KeepsLease, Follows, ProviderHealth, probeable,
              persisted_from_health
<1> HIDE DEF x
<1>3. WellFormed(x) /\ KeepsLease(e, x) /\ Follows(e, x)
  BY <1>1, <1>2, KeepsLeaseTransitive, FollowsTransitive DEF WellFormed
<1>4. CASE x.state = "OPEN"
  BY <1>0, <1>3, <1>4 DEF z
<1>5. CASE x.state # "OPEN"
  <2>1. /\ f \in ProviderHealth
        /\ f = [x EXCEPT !.failure_timestamps = f.failure_timestamps]
    BY <1>2, CountFailureType DEF WellFormed
  <2> HIDE DEF f
  <2>2. /\ f.state = x.state
        /\ f.probe_lease = x.probe_lease
        /\ f.state_revision = x.state_revision
        /\ f.probe_generation = x.probe_generation
    BY <1>2, <2>1 DEF WellFormed, ProviderHealth
  <2> DEFINE due == now + AtLeast(cfg.natural_probe_max_wait_secs, 1)
  <2>3. due \in Int
    BY ConfigsAssumption DEF AtLeast, CircuitBreakerConfig
  <2>4. c = [f EXCEPT !.probe_reference_at = now, !.natural_probe_due_at = due]
    BY DEF set_natural_failback_deadline
  <2> HIDE DEF due, c
  <2>5. /\ c \in ProviderHealth
        /\ c.state = "CLOSED"
        /\ c.probe_lease = x.probe_lease
        /\ c.state_revision = x.state_revision
        /\ c.probe_generation = x.probe_generation
    BY <1>2, <1>5, <2>1, <2>2, <2>3, <2>4 DEF ProviderHealth, Optional
  <2>6. WellFormed(c)
    BY <2>5 DEF WellFormed, probeable
  <2>7. /\ d \in ProviderHealth
        /\ d.probe_lease = None
        /\ d.state_revision = x.state_revision
        /\ d.probe_generation = x.probe_generation
    BY <2>5 DEF ProviderHealth, Optional
  <2> HIDE DEF d
  <2>8. x.state_revision \in Nat /\ x.probe_generation \in Nat /\ x \in ProviderHealth
    BY <1>2 DEF WellFormed, ProviderHealth
  <2>9. e.state = "CLOSED"
    BY <1>2, <1>3, <1>5 DEF KeepsLease
  <2>10. CASE trips
    <3>1. z = bump_revision(set_open_deadlines(cfg, d, now))
      BY <1>0, <1>5, <2>10 DEF protect_open, d
    <3>2. WellFormed(z) /\ Follows(x, z) /\ z.state = "OPEN" /\ z.probe_lease = None
      BY <2>7, <2>8, <3>1, OpenEffect
    <3>3. Follows(e, z)
      BY <1>3, <2>8, <3>2, FollowsTransitive DEF WellFormed
    <3> QED
      BY <2>9, <3>2, <3>3 DEF z
  <2>11. CASE ~trips
    <3>1. z = bump_revision(c)
      BY <1>0, <1>5, <2>11
    <3>2. /\ WellFormed(z)
          /\ Follows(x, z)
          /\ z.state = "CLOSED"
          /\ z.probe_lease = x.probe_lease
      BY <2>5, <2>6, <2>8, <3>1, BumpEffect
    <3>3. Follows(e, z)
      BY <1>3, <2>8, <3>2, FollowsTransitive DEF WellFormed
    <3>4. KeepsLease(e, z)
      BY <1>3, <2>9, <3>2 DEF KeepsLease
    <3> QED
      BY <3>2, <3>3, <3>4 DEF z
  <2> QED
    BY <2>10, <2>11
<1> QED
  BY <1>4, <1>5

LEMMA TriggerCooldownEffect ==
    ASSUME NEW e, WellFormed(e), NEW now \in Int, NEW secs \in Int
    PROVE  LET z == trigger_cooldown(e, now, secs)
           IN  WellFormed(z) /\ KeepsLease(e, z) /\ Follows(e, z)
<1> DEFINE until == IF e.cooldown_until = None THEN now + secs
                    ELSE AtLeast(e.cooldown_until, now + secs)
<1>1. until \in Optional(Int)
  BY DEF AtLeast, WellFormed, ProviderHealth, Optional
<1>2. trigger_cooldown(e, now, secs) = [e EXCEPT !.cooldown_until = until]
  BY DEF trigger_cooldown
<1> HIDE DEF until
<1> QED
  BY <1>1, <1>2 DEF WellFormed, KeepsLease, Follows, ProviderHealth, probeable,
                    persisted_from_health

LEMMA ResetEffect ==
    ASSUME NEW e, WellFormed(e)
    PROVE  /\ WellFormed(reset(e))
           /\ Follows(e, reset(e))
           /\ reset(e).state = "CLOSED"
           /\ reset(e).probe_lease = None
<1> DEFINE c == [closed EXCEPT !.state_revision = e.state_revision,
                               !.probe_generation = e.probe_generation]
<1>1. /\ c \in ProviderHealth
      /\ c.state = "CLOSED"
      /\ c.probe_lease = None
      /\ c.state_revision = e.state_revision
      /\ c.probe_generation = e.probe_generation
      /\ e.state_revision \in Nat
      /\ e.probe_generation \in Nat
  BY ClosedIsWellFormed DEF WellFormed, ProviderHealth, closed
<1>2. reset(e) = bump_revision(c)
  BY DEF reset
<1> HIDE DEF c
<1>3. WellFormed(c)
  BY <1>1 DEF WellFormed, probeable
<1> QED
  BY <1>1, <1>2, <1>3, BumpEffect DEF WellFormed

LEMMA ReconfiguredEffect ==
    ASSUME NEW e, WellFormed(e), NEW cfg \in Configs, NEW natural
    PROVE  LET z == reconfigured(cfg, e, natural)
           IN  /\ WellFormed(z)
               /\ Follows(e, z)
               /\ z.state = e.state
               /\ z.probe_lease = e.probe_lease
<1> DEFINE z == reconfigured(cfg, e, natural)
           until == e.probe_reference_at + cfg.open_duration_secs
           next == e.probe_reference_at + cfg.provider_cooldown_secs
           due == e.probe_reference_at + cfg.natural_probe_max_wait_secs
           o == [e EXCEPT !.open_until = until, !.next_probe_at = next,
                          !.natural_probe_due_at = due]
           c == [e EXCEPT !.natural_probe_due_at = due]
<1>1. /\ e.state_revision \in Nat
      /\ e.probe_generation \in Nat
      /\ e.state \in {"CLOSED", "OPEN"}
      /\ e \in ProviderHealth
  BY DEF WellFormed, ProviderHealth
<1>2. e.probe_reference_at # None => until \in Int /\ next \in Int /\ due \in Int
  BY ConfigsAssumption DEF WellFormed, ProviderHealth, Optional, CircuitBreakerConfig
<1>2a. of_one_configuration(e.probe_reference_at, next, due)
  BY DEF of_one_configuration
<1>3. z = CASE e.state = "OPEN" -> bump_revision(o)
            [] e.state = "CLOSED" /\ natural /\ e.probe_reference_at # None ->
                  bump_revision(c)
            [] OTHER -> e
  BY DEF reconfigured
<1> HIDE DEF until, next, due, z
<1>4. CASE e.state = "OPEN"
  <2>1. e.probe_reference_at # None
    BY <1>4 DEF WellFormed, probeable
  <2>2. /\ o \in ProviderHealth
        /\ o.state = e.state
        /\ o.probe_lease = e.probe_lease
        /\ o.state_revision = e.state_revision
        /\ o.probe_generation = e.probe_generation
    BY <1>1, <1>2, <2>1 DEF ProviderHealth, Optional
  <2>3. probeable(o)
    BY <1>1, <1>2, <1>2a, <1>4, <2>1, NoneAssumption DEF WellFormed, probeable, ProviderHealth
  <2> HIDE DEF o
  <2>4. z = bump_revision(o)
    BY <1>3, <1>4
  <2> QED
    BY <1>1, <2>2, <2>3, <2>4, BumpEffect DEF WellFormed, z
<1>5. CASE e.state = "CLOSED" /\ natural /\ e.probe_reference_at # None
  <2>1. /\ c \in ProviderHealth
        /\ c.state = e.state
        /\ c.probe_lease = e.probe_lease
        /\ c.state_revision = e.state_revision
        /\ c.probe_generation = e.probe_generation
    BY <1>1, <1>2, <1>5 DEF ProviderHealth, Optional
  <2> HIDE DEF c
  <2>2. z = bump_revision(c)
    BY <1>3, <1>5
  <2>3. WellFormed(c)
    BY <1>5, <2>1 DEF WellFormed, probeable
  <2> QED
    BY <1>1, <2>1, <2>2, <2>3, BumpEffect DEF z
<1>6. CASE ~(e.state = "OPEN")
           /\ ~(e.state = "CLOSED" /\ natural /\ e.probe_reference_at # None)
  BY <1>1, <1>3, <1>6 DEF Follows, z
<1> QED
  BY <1>4, <1>5, <1>6

-----------------------------------------------------------------------------
(* Calls of the owner of a probe lease.                                     *)

\* A call's own lapses neither give nor take a dispatched lease.
LEMMA ExpireKeepsOwnership ==
    ASSUME NEW e, WellFormed(e), NEW now \in Int, NEW token
    PROVE  LET x == expire_runtime_state(e, now)
           IN  /\ x.state = e.state
               /\ owns_dispatched_lease(x, token) <=> owns_dispatched_lease(e, token)
               /\ lease_matches(x, token) => lease_matches(e, token)
               /\ lease_matches(x, token) => x.probe_lease = e.probe_lease
BY ExpireRuntimeState
   DEF KeepsLease, owns_dispatched_lease, lease_matches, lease_dispatched

LEMMA AcquireEffect ==
    ASSUME NEW e, WellFormed(e), NEW owner \in Owners, NEW now \in Int
    PROVE  LET z == try_acquire_probe(e, owner, now)
           IN  /\ WellFormed(z)
               /\ Follows(e, z)
               /\ z.state = e.state
               /\ IF probe_available(expire_runtime_state(e, now), now)
                  THEN /\ e.state = "OPEN"
                       /\ e.probe_lease = None \/ ~lease_dispatched(e)
                       /\ z.probe_generation > e.probe_generation
                       /\ z.probe_lease # None
                       /\ z.probe_lease.generation = z.probe_generation
                       /\ z.probe_lease.owner_trace_id = owner
                       /\ z.probe_lease.dispatched_at = None
                  ELSE KeepsLease(e, z)
<1> DEFINE x == expire_runtime_state(e, now)
           z == try_acquire_probe(e, owner, now)
           lease == [generation |-> x.probe_generation + 1,
                     owner_trace_id |-> owner,
                     dispatched_at |-> None,
                     expires_at |-> now + PROBE_LEASE_TTL_SECS]
           y == [x EXCEPT !.probe_generation = x.probe_generation + 1,
                          !.probe_lease = lease]
<1>1. WellFormed(x) /\ KeepsLease(e, x) /\ Follows(e, x)
  BY ExpireRuntimeState
<1>2. z = IF probe_available(x, now) THEN y ELSE x
  BY DEF try_acquire_probe
<1> HIDE DEF x, z
<1>3. CASE probe_available(x, now)
  <2>1. lease \in ProbeLeaseState
    BY <1>1, SecondsAssumption DEF WellFormed, ProviderHealth, ProbeLeaseState, Optional
  <2>2. /\ lease.generation = x.probe_generation + 1
        /\ lease.owner_trace_id = owner
        /\ lease.dispatched_at = None
        /\ lease # None
    BY <2>1, NoneAssumption
  <2> HIDE DEF lease
  <2>3. /\ y \in ProviderHealth
        /\ y.probe_generation = x.probe_generation + 1
        /\ y.probe_lease = lease
        /\ y.state = x.state
        /\ probeable(y)
    <3>1. x \in ProviderHealth /\ probeable(x)
      BY <1>1 DEF WellFormed
    <3>2. /\ x.probe_generation + 1 \in Nat
          /\ lease \in Optional(ProbeLeaseState)
      BY <2>1, <3>1 DEF ProviderHealth, Optional
    <3>3. y \in ProviderHealth
      BY <3>1, <3>2 DEF ProviderHealth
    <3>4. /\ y.probe_generation = x.probe_generation + 1
          /\ y.probe_lease = lease
          /\ y.state = x.state
      BY <3>1 DEF ProviderHealth
    <3>5. probeable(y)
      BY <3>1 DEF ProviderHealth, probeable
    <3> QED
      BY <3>3, <3>4, <3>5
  <2>4. persisted_from_health(y) = persisted_from_health(x)
    BY <1>1 DEF persisted_from_health, WellFormed, ProviderHealth
  <2> HIDE DEF y
  <2>5. /\ x.probe_generation \in Nat
        /\ e.probe_generation \in Nat
        /\ x.probe_generation >= e.probe_generation
    BY <1>1 DEF WellFormed, ProviderHealth, Follows
  <2>6. Follows(e, y)
    <3>1. Follows(x, y)
      BY <2>3, <2>4, <2>5 DEF Follows
    <3> QED
      BY <1>1, <2>3, <3>1, FollowsTransitive DEF WellFormed
  <2>7. /\ x.state = "OPEN"
        /\ e.state = "OPEN"
        /\ e.probe_lease = None \/ ~lease_dispatched(e)
    BY <1>1, <1>3 DEF probe_available, KeepsLease
  <2>8. z = y
    BY <1>2, <1>3
  <2> QED
    BY <1>3, <2>2, <2>3, <2>5, <2>6, <2>7, <2>8 DEF WellFormed, x, z
<1>4. CASE ~probe_available(x, now)
  BY <1>1, <1>2, <1>4 DEF x, z, KeepsLease
<1> QED
  BY <1>3, <1>4

LEMMA MarkDispatchedEffect ==
    ASSUME NEW e, WellFormed(e), NEW cfg \in Configs, NEW token,
           NEW now \in Int
    PROVE  LET z == mark_probe_dispatched(cfg, e, token, now)
           IN  /\ WellFormed(z)
               /\ Follows(e, z)
               /\ z.state = e.state
               /\ IF mark_applies(e, token, now)
                  THEN /\ e.state = "OPEN"
                       /\ lease_matches(e, token)
                       /\ z.probe_lease # None
                       /\ z.probe_lease.generation = e.probe_lease.generation
                       /\ z.probe_lease.owner_trace_id = e.probe_lease.owner_trace_id
                       /\ z.probe_lease.dispatched_at # None
                  ELSE KeepsLease(e, z)
<1> DEFINE x == expire_runtime_state(e, now)
           z == mark_probe_dispatched(cfg, e, token, now)
           since == IF x.probe_lease.dispatched_at = None THEN now
                    ELSE x.probe_lease.dispatched_at
           lease == [x.probe_lease EXCEPT !.dispatched_at = since,
                                          !.expires_at = now + PROBE_LEASE_TTL_SECS]
           y == [x EXCEPT !.probe_lease = lease]
<1>1. WellFormed(x) /\ KeepsLease(e, x) /\ Follows(e, x)
  BY ExpireRuntimeState
<1>2. /\ lease_matches(x, token) => lease_matches(e, token)
      /\ lease_matches(x, token) => x.probe_lease = e.probe_lease
  BY ExpireKeepsOwnership
<1>3. mark_applies(e, token, now) <=> lease_matches(x, token) /\ x.state = "OPEN"
  BY DEF mark_applies
<1>4. z = IF mark_applies(e, token, now)
          THEN bump_revision(set_open_deadlines(cfg, y, now)) ELSE x
  BY DEF mark_probe_dispatched
<1> HIDE DEF x, z
<1>5. CASE mark_applies(e, token, now)
  <2>1. x.probe_lease \in ProbeLeaseState
    BY <1>1, <1>3, <1>5 DEF WellFormed, ProviderHealth, Optional, lease_matches
  <2>2. since \in Int
    BY <2>1 DEF ProbeLeaseState, Optional
  <2> HIDE DEF since
  <2>3. /\ lease \in ProbeLeaseState
        /\ lease.generation = x.probe_lease.generation
        /\ lease.owner_trace_id = x.probe_lease.owner_trace_id
        /\ lease.dispatched_at = since
    <3> DEFINE l == x.probe_lease
               expires == now + PROBE_LEASE_TTL_SECS
    <3>1. l \in ProbeLeaseState /\ expires \in Int /\ since \in Optional(Int)
      BY <2>1, <2>2, SecondsAssumption DEF Optional
    <3>2. lease = [l EXCEPT !.dispatched_at = since, !.expires_at = expires]
      OBVIOUS
    <3> HIDE DEF l, expires, lease
    <3>3. /\ lease \in ProbeLeaseState
          /\ lease.generation = l.generation
          /\ lease.owner_trace_id = l.owner_trace_id
          /\ lease.dispatched_at = since
      BY <3>1, <3>2 DEF ProbeLeaseState
    <3> QED
      BY <3>3 DEF l
  <2> HIDE DEF lease
  <2>4. lease # None /\ since # None
    BY <2>2, <2>3, NoneAssumption
  <2>5. /\ y \in ProviderHealth
        /\ y.probe_lease = lease
        /\ y.state_revision = x.state_revision
        /\ y.probe_generation = x.probe_generation
        /\ x.state_revision \in Nat
        /\ x.probe_generation \in Nat
    BY <1>1, <2>3 DEF WellFormed, ProviderHealth, Optional
  <2> HIDE DEF y
  <2>6. /\ WellFormed(z)
        /\ Follows(x, z)
        /\ z.state = "OPEN"
        /\ z.probe_lease = lease
    BY <1>1, <1>4, <1>5, <2>5, OpenEffect DEF WellFormed
  <2>7. Follows(e, z)
    BY <1>1, <2>6, FollowsTransitive DEF WellFormed
  <2>8. e.state = "OPEN" /\ lease_matches(e, token) /\ x.probe_lease = e.probe_lease
    BY <1>1, <1>2, <1>3, <1>5 DEF KeepsLease
  <2> QED
    BY <1>5, <2>3, <2>4, <2>6, <2>7, <2>8 DEF z
<1>6. CASE ~mark_applies(e, token, now)
  BY <1>1, <1>4, <1>6 DEF z, KeepsLease
<1> QED
  BY <1>5, <1>6

LEMMA RollbackEffect ==
    ASSUME NEW e, WellFormed(e), NEW token, NEW before, ready(before)
    PROVE  LET z == rollback_probe_dispatch(e, token, before)
           IN  /\ WellFormed(z)
               /\ Follows(e, z)
               /\ IF owns_dispatched_lease(e, token)
                  THEN z.state = "OPEN" /\ z.probe_lease = None
                  ELSE z = e
<1> DEFINE z == rollback_probe_dispatch(e, token, before)
           y == [e EXCEPT !.probe_lease = None,
                          !.state = "OPEN",
                          !.recovery_epoch = 0,
                          !.open_until = before.open_until,
                          !.probe_reference_at = before.probe_reference_at,
                          !.next_probe_at = before.next_probe_at,
                          !.natural_probe_due_at = before.natural_probe_due_at,
                          !.recovery_guard_until = before.recovery_guard_until]
<1>1. z = IF owns_dispatched_lease(e, token) THEN bump_revision(y) ELSE e
  BY DEF rollback_probe_dispatch
<1>2. /\ y \in ProviderHealth
      /\ y.state = "OPEN"
      /\ y.probe_lease = None
      /\ y.state_revision = e.state_revision
      /\ y.probe_generation = e.probe_generation
      /\ e.state_revision \in Nat
      /\ e.probe_generation \in Nat
  BY DEF WellFormed, ProviderHealth, Optional, ready
<1>3. probeable(y)
  BY NoneAssumption DEF WellFormed, ProviderHealth, probeable, ready
<1> HIDE DEF y, z
<1>4. CASE owns_dispatched_lease(e, token)
  BY <1>1, <1>2, <1>3, <1>4, BumpEffect DEF WellFormed, z
<1>5. CASE ~owns_dispatched_lease(e, token)
  BY <1>1, <1>2, <1>5 DEF Follows, z
<1> QED
  BY <1>4, <1>5

LEMMA AttemptFailureEffect ==
    ASSUME NEW e, WellFormed(e), NEW token, NEW now \in Int, NEW counted \in BOOLEAN
    PROVE  LET z == record_probe_attempt_failure(e, token, now, counted)
           IN  /\ WellFormed(z)
               /\ Follows(e, z)
               /\ z.state = e.state
               /\ z.probe_lease = e.probe_lease
<1> DEFINE z == record_probe_attempt_failure(e, token, now, counted)
           f == count_failure(e, now)
           c == [f EXCEPT !.recovery_epoch = 0]
           y == IF counted THEN c ELSE e
<1>1. /\ f \in ProviderHealth
      /\ f = [e EXCEPT !.failure_timestamps = f.failure_timestamps]
  BY CountFailureType DEF WellFormed
<1>2. z = IF owns_dispatched_lease(e, token) THEN bump_revision(y) ELSE e
  BY DEF record_probe_attempt_failure
<1> HIDE DEF f, z
<1>3. /\ c \in ProviderHealth
      /\ c.state = e.state
      /\ c.probe_lease = e.probe_lease
      /\ c.state_revision = e.state_revision
      /\ c.probe_generation = e.probe_generation
      /\ probeable(c)
  BY <1>1 DEF WellFormed, ProviderHealth, probeable
<1> HIDE DEF c
<1>4. /\ WellFormed(y)
      /\ y.state = e.state
      /\ y.probe_lease = e.probe_lease
      /\ y.state_revision = e.state_revision
      /\ y.probe_generation = e.probe_generation
  BY <1>3 DEF WellFormed
<1> HIDE DEF y
<1>5. e \in ProviderHealth /\ e.state_revision \in Nat /\ e.probe_generation \in Nat
  BY DEF WellFormed, ProviderHealth
<1>6. CASE owns_dispatched_lease(e, token)
  BY <1>2, <1>4, <1>5, <1>6, BumpEffect DEF z
<1>7. CASE ~owns_dispatched_lease(e, token)
  BY <1>2, <1>5, <1>7 DEF Follows, z
<1> QED
  BY <1>6, <1>7

LEMMA CompleteSuccessEffect ==
    ASSUME NEW e, WellFormed(e), NEW token, NEW now \in Int, NEW epoch \in Nat
    PROVE  LET z == complete_probe_success(e, token, now, epoch)
           IN  /\ WellFormed(z)
               /\ Follows(e, z)
               /\ success_applies(e, token, now) <=>
                     owns_dispatched_lease(e, token) /\ e.state = "OPEN"
               /\ IF success_applies(e, token, now)
                  THEN z.state = "CLOSED" /\ z.probe_lease = None
                  ELSE KeepsLease(e, z)
<1> DEFINE x == expire_runtime_state(e, now)
           z == complete_probe_success(e, token, now, epoch)
           y == [closed EXCEPT
                    !.recovery_guard_until = now + RECOVERY_GUARD_SECS,
                    !.state_revision = x.state_revision,
                    !.probe_generation = x.probe_generation]
           b == bump_revision(y)
           c == [b EXCEPT !.recovery_epoch = epoch]
<1>1. WellFormed(x) /\ KeepsLease(e, x) /\ Follows(e, x)
  BY ExpireRuntimeState
<1>2. success_applies(e, token, now) <=> owns_dispatched_lease(e, token) /\ e.state = "OPEN"
  BY ExpireKeepsOwnership DEF success_applies
<1>3. z = IF success_applies(e, token, now) THEN c ELSE x
  BY DEF complete_probe_success
<1> HIDE DEF x, z
<1>4. CASE success_applies(e, token, now)
  <2>1. now + RECOVERY_GUARD_SECS \in Int
    BY SecondsAssumption
  <2>2. /\ y \in ProviderHealth
        /\ y.state = "CLOSED"
        /\ y.probe_lease = None
        /\ y.state_revision = x.state_revision
        /\ y.probe_generation = x.probe_generation
        /\ x.state_revision \in Nat
        /\ x.probe_generation \in Nat
    BY <1>1, <2>1, ClosedIsWellFormed DEF WellFormed, ProviderHealth, closed, Optional
  <2> HIDE DEF y
  <2>3. WellFormed(y)
    BY <2>2 DEF WellFormed, probeable
  <2>4. /\ WellFormed(b)
        /\ Follows(x, b)
        /\ b.state = "CLOSED"
        /\ b.probe_lease = None
    BY <1>1, <2>2, <2>3, BumpEffect DEF WellFormed
  <2> HIDE DEF b
  <2>5. /\ c \in ProviderHealth
        /\ c.state = "CLOSED"
        /\ c.probe_lease = None
        /\ c.probe_generation = b.probe_generation
        /\ c.state_revision = b.state_revision
        /\ persisted_from_health(c) = persisted_from_health(b)
    BY <2>4 DEF WellFormed, ProviderHealth, persisted_from_health
  <2> HIDE DEF c
  <2>6. Follows(x, c)
    BY <2>4, <2>5 DEF Follows
  <2>7. Follows(e, c)
    BY <1>1, <2>5, <2>6, FollowsTransitive DEF WellFormed
  <2>8. WellFormed(c)
    BY <2>5 DEF WellFormed, probeable
  <2> QED
    BY <1>2, <1>3, <1>4, <2>5, <2>7, <2>8 DEF z
<1>5. CASE ~success_applies(e, token, now)
  BY <1>1, <1>2, <1>3, <1>5 DEF z
<1> QED
  BY <1>4, <1>5

\* After the failure of a probe its token names no lease any more.
LEMMA FinishFailureEffect ==
    ASSUME NEW e, WellFormed(e), NEW cfg \in Configs, NEW token,
           NEW now \in Int, NEW counted \in BOOLEAN
    PROVE  LET z == finish_probe_failure(cfg, e, token, now, counted)
           IN  /\ WellFormed(z)
               /\ Follows(e, z)
               /\ ~lease_matches(z, token)
               /\ \/ KeepsLease(e, z)
                  \/ /\ owns_dispatched_lease(e, token)
                     /\ z.state = "OPEN"
                     /\ z.probe_lease = None
<1> DEFINE x == expire_runtime_state(e, now)
           z == finish_probe_failure(cfg, e, token, now, counted)
           r == [x EXCEPT !.probe_lease = None]
           f == count_failure(r, now)
           c == IF counted THEN f ELSE r
<1>1. WellFormed(x) /\ KeepsLease(e, x) /\ Follows(e, x)
  BY ExpireRuntimeState
<1>2. owns_dispatched_lease(x, token) <=> owns_dispatched_lease(e, token)
  BY ExpireKeepsOwnership
<1>3. z = CASE ~lease_matches(x, token) -> x
            [] lease_matches(x, token) /\ ~lease_dispatched(x) -> r
            [] owns_dispatched_lease(x, token) ->
                  bump_revision(set_open_deadlines(cfg, c, now))
  BY DEF finish_probe_failure
<1>4. owns_dispatched_lease(x, token) <=> lease_matches(x, token) /\ lease_dispatched(x)
  BY DEF owns_dispatched_lease
<1> HIDE DEF x, z
<1>5. /\ r \in ProviderHealth
      /\ probeable(r)
      /\ r.state = x.state
      /\ r.probe_lease = None
      /\ r.state_revision = x.state_revision
      /\ r.probe_generation = x.probe_generation
      /\ persisted_from_health(r) = persisted_from_health(x)
      /\ x.state_revision \in Nat
      /\ x.probe_generation \in Nat
  BY <1>1 DEF WellFormed, ProviderHealth, Optional, probeable, persisted_from_health
<1> HIDE DEF r
<1>6. CASE ~lease_matches(x, token)
  BY <1>1, <1>3, <1>4, <1>6 DEF z
<1>7. CASE lease_matches(x, token) /\ ~lease_dispatched(x)
  <2>1. z = r
    BY <1>3, <1>4, <1>7
  <2>2. Follows(x, r)
    BY <1>5 DEF Follows
  <2>3. Follows(e, r)
    BY <1>1, <1>5, <2>2, FollowsTransitive DEF WellFormed
  <2>4. KeepsLease(x, r)
    BY <1>5, <1>7 DEF KeepsLease
  <2>5. KeepsLease(e, r)
    BY <1>1, <2>4, KeepsLeaseTransitive
  <2>6. ~lease_matches(r, token)
    BY <1>5 DEF lease_matches
  <2> QED
    BY <1>5, <2>1, <2>3, <2>5, <2>6 DEF WellFormed, z
<1>8. CASE owns_dispatched_lease(x, token)
  <2>1. /\ f \in ProviderHealth
        /\ f = [r EXCEPT !.failure_timestamps = f.failure_timestamps]
    BY <1>5, CountFailureType
  <2> HIDE DEF f
  <2>2. /\ c \in ProviderHealth
        /\ c.probe_lease = None
        /\ c.state_revision = x.state_revision
        /\ c.probe_generation = x.probe_generation
    BY <1>5, <2>1 DEF ProviderHealth
  <2> HIDE DEF c
  <2>3. z = bump_revision(set_open_deadlines(cfg, c, now))
    BY <1>3, <1>4, <1>8
  <2>4. /\ WellFormed(z)
        /\ Follows(x, z)
        /\ z.state = "OPEN"
        /\ z.probe_lease = None
    BY <1>1, <1>5, <2>2, <2>3, OpenEffect DEF WellFormed
  <2>5. Follows(e, z)
    BY <1>1, <2>4, FollowsTransitive DEF WellFormed
  <2>6. ~lease_matches(z, token)
    BY <2>4 DEF lease_matches
  <2> QED
    BY <1>2, <1>8, <2>4, <2>5, <2>6 DEF z
<1> QED
  BY <1>4, <1>6, <1>7, <1>8

LEMMA FailClosedEffect ==
    ASSUME NEW e, WellFormed(e), NEW revision
    PROVE  LET z == fail_closed_after_probe_persist_error(e, revision)
           IN  /\ WellFormed(z)
               /\ Follows(e, z)
               /\ z.state = e.state
               /\ z.probe_lease = e.probe_lease
<1> DEFINE z == fail_closed_after_probe_persist_error(e, revision)
           y == [e EXCEPT !.next_probe_at = Never]
           blocks == e.state = "OPEN" /\ e.state_revision = revision
<1>1. z = IF blocks THEN bump_revision(y) ELSE e
  BY DEF fail_closed_after_probe_persist_error
<1>2. Never \in Int /\ Never # None
  BY SecondsAssumption, NoneAssumption
<1>2a. \A reference, next, due : of_one_configuration(reference, next, due) =>
          of_one_configuration(reference, Never, due)
  BY DEF of_one_configuration
<1>3. /\ y \in ProviderHealth
      /\ probeable(y)
      /\ y.state = e.state
      /\ y.probe_lease = e.probe_lease
      /\ y.state_revision = e.state_revision
      /\ y.probe_generation = e.probe_generation
      /\ e.state_revision \in Nat
      /\ e.probe_generation \in Nat
  BY <1>2, <1>2a DEF WellFormed, ProviderHealth, Optional, probeable
<1> HIDE DEF y, z, blocks
<1>4. CASE blocks
  BY <1>1, <1>3, <1>4, BumpEffect DEF WellFormed, z
<1>5. CASE ~blocks
  BY <1>1, <1>3, <1>5 DEF Follows, z
<1> QED
  BY <1>4, <1>5

-----------------------------------------------------------------------------
(* A start of the gateway.                                                  *)

\* A finite bag of failures has a latest one.
LEMMA LatestFailureType ==
    ASSUME NEW F \in Failures, F # {}
    PROVE  latest_failure(F) \in Int
<1> DEFINE After(t) == {f \in F : f[1] > t}
           Tails == {After(f[1]) : f \in F}
<1>1. IsFiniteSet(F) /\ F \subseteq Int \X Nat
  BY DEF Failures
<1>2. Tails \subseteq FiniteSubsetsOf(F) /\ Tails # {}
  <2>1. \A t : After(t) \in SUBSET F
    OBVIOUS
  <2>2. \A t : After(t) \in FiniteSubsetsOf(F)
    BY <1>1, <2>1, FS_Subset DEF FiniteSubsetsOf
  <2> HIDE DEF After
  <2>3. Tails \subseteq FiniteSubsetsOf(F)
    BY <2>2
  <2>4. Tails # {}
    OBVIOUS
  <2> QED
    BY <2>3, <2>4
<1>3. IsWellFoundedOn(StrictSubsetOrdering(F), FiniteSubsetsOf(F))
  BY FS_StrictSubsetOrderingWellFounded
<1> HIDE DEF Tails
<1>4. PICK U \in Tails : \A V \in Tails : <<V, U>> \notin StrictSubsetOrdering(F)
  BY <1>2, <1>3, WFMin
<1>5. PICK last \in F : U = After(last[1])
  BY <1>4 DEF Tails
<1>6. \A f \in F : f[1] <= last[1]
  <2>1. SUFFICES ASSUME NEW f \in F, ~(f[1] <= last[1])
                 PROVE  FALSE
    OBVIOUS
  <2>2. f[1] \in Int /\ last[1] \in Int
    BY <1>1
  <2>3. f \in U /\ f \notin After(f[1])
    BY <1>5, <2>1, <2>2
  <2>4. After(f[1]) \subseteq U
    BY <1>1, <1>5, <2>1, <2>2
  <2>5. <<After(f[1]), U>> \in StrictSubsetOrdering(F)
    BY <1>5, <2>3, <2>4 DEF StrictSubsetOrdering
  <2>6. After(f[1]) \in Tails
    BY DEF Tails
  <2> QED
    BY <1>4, <2>5, <2>6
<1>7. \E t \in {f[1] : f \in F} : \A f \in F : f[1] <= t
  BY <1>6
<1>8. latest_failure(F) \in {f[1] : f \in F}
  BY <1>7 DEF latest_failure
<1> QED
  BY <1>1, <1>8

\* Every stored row is either not kept or restored to a record without a lease.
LEMMA RestoredEffect ==
    ASSUME NEW cfg \in Configs, NEW row \in CircuitPersistedState,
           row.state # "CLOSED" => of_an_open_circuit(row)
    PROVE  \/ restored(cfg, row) = None
           \/ /\ WellFormed(restored(cfg, row))
              /\ restored(cfg, row).probe_lease = None
<1> DEFINE open == row.state # "CLOSED"
           armed == \/ open
                    \/ row.failure_timestamps # {}
                    \/ row.probe_reference_at # None
           reference == CASE row.probe_reference_at # None -> row.probe_reference_at
                          [] row.probe_reference_at = None /\ ~open
                               /\ row.failure_timestamps # {} ->
                                   latest_failure(row.failure_timestamps)
                          [] OTHER -> row.updated_at
           until == IF row.open_until = None /\ open
                    THEN reference + cfg.open_duration_secs ELSE row.open_until
           since == IF armed THEN reference ELSE None
           next == IF row.next_probe_at = None /\ open
                   THEN reference + cfg.provider_cooldown_secs ELSE row.next_probe_at
           due == IF row.natural_probe_due_at = None /\ armed
                  THEN reference + cfg.natural_probe_max_wait_secs
                  ELSE row.natural_probe_due_at
           h == [closed EXCEPT
                   !.state = IF open THEN "OPEN" ELSE "CLOSED",
                   !.failure_timestamps = row.failure_timestamps,
                   !.open_until = until,
                   !.probe_reference_at = since,
                   !.next_probe_at = next,
                   !.natural_probe_due_at = due,
                   !.recovery_guard_until = row.recovery_guard_until,
                   !.state_revision = row.state_revision,
                   !.probe_generation = row.state_revision]
           changed == \/ row.state = "HALF_OPEN"
                      \/ h.open_until # row.open_until
                      \/ h.probe_reference_at # row.probe_reference_at
                      \/ h.next_probe_at # row.next_probe_at
                      \/ h.natural_probe_due_at # row.natural_probe_due_at
<1>1. restored(cfg, row) =
        CASE changed -> bump_revision(h)
          [] ~changed /\ is_inert_closed_health(h) /\ row.state_revision = 0 -> None
          [] OTHER -> h
  BY DEF restored
<1>2. reference \in Int
  BY LatestFailureType DEF CircuitPersistedState, Optional
<1>3. cfg.open_duration_secs \in Int /\ cfg.provider_cooldown_secs \in Int
      /\ cfg.natural_probe_max_wait_secs \in Int
  BY ConfigsAssumption DEF CircuitBreakerConfig
<1>4. /\ row.failure_timestamps \in Failures
      /\ row.open_until \in Optional(Int)
      /\ row.next_probe_at \in Optional(Int)
      /\ row.natural_probe_due_at \in Optional(Int)
      /\ row.recovery_guard_until \in Optional(Int)
      /\ row.state_revision \in Nat
  BY DEF CircuitPersistedState
<1> HIDE DEF reference
<1>5. /\ until \in Optional(Int)
      /\ since \in Optional(Int)
      /\ next \in Optional(Int)
      /\ due \in Optional(Int)
  BY <1>2, <1>3, <1>4 DEF Optional
<1>6. open => /\ until # None
              /\ since # None
              /\ next # None
              /\ due # None
              /\ row.recovery_guard_until = None
  BY <1>2, <1>3, <1>4, NoneAssumption DEF Optional, of_an_open_circuit
<1>6a. open => of_one_configuration(since, next, due)
  <2>1. CASE open /\ row.next_probe_at = None /\ row.natural_probe_due_at = None
    BY <2>1 DEF of_one_configuration
  <2>2. CASE open /\ ~(row.next_probe_at = None /\ row.natural_probe_due_at = None)
    BY <2>2 DEF of_an_open_circuit, reference
  <2> QED
    BY <2>1, <2>2
<1> HIDE DEF until, since, next, due, open
<1>7. h \in ProviderHealth
  BY <1>4, <1>5, ClosedIsWellFormed DEF WellFormed, ProviderHealth
<1>8. probeable(h) /\ h.probe_lease = None
  BY <1>6, <1>6a DEF closed, probeable
<1> HIDE DEF h, changed
<1>9. WellFormed(h) /\ WellFormed(bump_revision(h)) /\ bump_revision(h).probe_lease = None
  BY <1>7, <1>8, BumpRevision DEF WellFormed
<1> QED
  BY <1>1, <1>8, <1>9

=============================================================================
