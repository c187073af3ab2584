------------------------ MODULE CircuitBreakerProofs ------------------------
(***************************************************************************)
(* The safety of CircuitBreaker for every set of providers and requests,   *)
(* every configuration, stored row and bound.                              *)
(*                                                                         *)
(* The steps are first studied without time: h stands for the map of       *)
(* health records, gs for the guards, and Safe(h, gs) is what              *)
(* SafetyInvariant says of the two.  Each kind of step then has one lemma. *)
(* The last part is the refinement of ProbeLease.                          *)
(***************************************************************************)
EXTENDS CircuitBreaker, CircuitHealthTheorems

entry_of(h, p) == IF h[p] = None THEN closed ELSE h[p]

\* Every provider's record follows the one before, or said no more than an
\* unknown provider and is gone.
Advances(h, k) ==
    \A p \in Providers :
        \/ Follows(entry_of(h, p), entry_of(k, p))
        \/ /\ k[p] = None
           /\ persisted_from_health(entry_of(h, p)) = persisted_from_health(closed)

HealthSafe(h) ==
    /\ h \in [Providers -> Optional(ProviderHealth)]
    /\ \A p \in Providers : h[p] # None => probeable(h[p])

GuardSafe(h, gs, g) ==
    gs[g] # None =>
        LET e == h[gs[g].provider_id]
        IN  /\ gs[g].owner_trace_id = g
            /\ e # None
            /\ gs[g].generation <= e.probe_generation
            /\ e.state = "OPEN" \/ e.state_revision > 0
            /\ gs[g].phase = "committing" => ready(gs[g].before)

Distinct(gs) ==
    \A f, g \in Owners :
        /\ f # g
        /\ gs[f] # None
        /\ gs[g] # None
        /\ gs[f].provider_id = gs[g].provider_id
        => gs[f].generation # gs[g].generation

LeaseSafe(h, gs, p) ==
    h[p] # None /\ h[p].probe_lease # None =>
        LET lease == h[p].probe_lease
            g == lease.owner_trace_id
        IN  /\ h[p].state = "OPEN"
            /\ gs[g] # None
            /\ gs[g].provider_id = p
            /\ gs[g].generation = lease.generation
            /\ gs[g].phase # "finished"
            /\ gs[g].phase \in {"committing", "dispatched"} <=> lease.dispatched_at # None

Safe(h, gs) ==
    /\ HealthSafe(h)
    /\ gs \in [Owners -> Optional(ProbeLeaseGuard)]
    /\ \A g \in Owners : GuardSafe(h, gs, g)
    /\ Distinct(gs)
    /\ \A p \in Providers : LeaseSafe(h, gs, p)

-----------------------------------------------------------------------------
(* Steps of one record.                                                     *)

\* The record of a provider is well formed; so is the one a call starts from
\* when the provider is unknown.
LEMMA EntryIsWellFormed ==
    ASSUME NEW h, HealthSafe(h), NEW p \in Providers
    PROVE  /\ WellFormed(entry_of(h, p))
           /\ h[p] # None => entry_of(h, p) = h[p]
           /\ h[p] = None => entry_of(h, p).probe_lease = None
BY ClosedIsWellFormed DEF HealthSafe, entry_of, WellFormed, Optional, closed

LEMMA Stays == ASSUME NEW e \in ProviderHealth PROVE Follows(e, e)
BY DEF Follows, ProviderHealth

\* Replacing one record by a well-formed one that follows it.
LEMMA PutRecord ==
    ASSUME NEW h, HealthSafe(h), NEW p \in Providers, NEW x, WellFormed(x),
           Follows(entry_of(h, p), x)
    PROVE  LET k == [h EXCEPT ![p] = x]
           IN  /\ HealthSafe(k)
               /\ Advances(h, k)
               /\ k[p] = x
               /\ x # None
               /\ \A q \in Providers \ {p} : k[q] = h[q]
<1> DEFINE k == [h EXCEPT ![p] = x]
<1>1. x \in ProviderHealth /\ probeable(x) /\ x # None
  BY NoneAssumption DEF WellFormed
<1>2. /\ k \in [Providers -> Optional(ProviderHealth)]
      /\ k[p] = x
      /\ \A q \in Providers \ {p} : k[q] = h[q]
  BY <1>1 DEF HealthSafe, Optional
<1> HIDE DEF k
<1>3. HealthSafe(k)
  BY <1>1, <1>2 DEF HealthSafe
<1>4. Advances(h, k)
  <2>1. SUFFICES ASSUME NEW q \in Providers
                 PROVE  Follows(entry_of(h, q), entry_of(k, q))
    BY DEF Advances
  <2>2. CASE q = p
    BY <1>1, <1>2, <2>2 DEF entry_of
  <2>3. CASE q # p
    BY <1>2, <2>3, EntryIsWellFormed, Stays DEF entry_of, WellFormed
  <2> QED
    BY <2>2, <2>3
<1> QED
  BY <1>1, <1>2, <1>3, <1>4 DEF k

\* What a guard relies on survives every record that follows.
LEMMA GuardSurvives ==
    ASSUME NEW h, NEW k, HealthSafe(h), HealthSafe(k), Advances(h, k),
           NEW gs, gs \in [Owners -> Optional(ProbeLeaseGuard)],
           NEW g \in Owners, GuardSafe(h, gs, g),
           gs[g] # None => k[gs[g].provider_id] # None
    PROVE  GuardSafe(k, gs, g)
<1> SUFFICES ASSUME gs[g] # None
             PROVE  GuardSafe(k, gs, g)
  BY DEF GuardSafe
<1> DEFINE p == gs[g].provider_id
           e == h[p]
           x == k[p]
<1>1. p \in Providers /\ gs[g].generation \in Nat
  BY DEF Optional, ProbeLeaseGuard
<1>2. /\ e # None
      /\ x # None
      /\ gs[g].generation <= e.probe_generation
      /\ e.state = "OPEN" \/ e.state_revision > 0
  BY DEF GuardSafe
<1>3. e \in ProviderHealth /\ x \in ProviderHealth
  BY <1>1, <1>2 DEF HealthSafe, Optional
<1>4. Follows(e, x)
  BY <1>1, <1>2 DEF Advances, entry_of
<1> HIDE DEF e, x
<1>5. gs[g].generation <= x.probe_generation
  BY <1>1, <1>2, <1>3, <1>4 DEF Follows, ProviderHealth
<1>6. x.state = "OPEN" \/ x.state_revision > 0
  BY <1>2, <1>3, <1>4 DEF Follows, ProviderHealth, persisted_from_health
<1> QED
  BY <1>2, <1>5, <1>6 DEF GuardSafe, x

\* A call that is not the lease owner's.
LEMMA OtherCall ==
    ASSUME NEW h, NEW gs, Safe(h, gs), NEW p \in Providers, NEW x, WellFormed(x),
           Follows(entry_of(h, p), x),
           KeepsLease(entry_of(h, p), x) \/ x.probe_lease = None
    PROVE  LET k == [h EXCEPT ![p] = x]
           IN  Safe(k, gs) /\ Advances(h, k)
<1> DEFINE k == [h EXCEPT ![p] = x]
           e == entry_of(h, p)
<1>1. /\ HealthSafe(h)
      /\ gs \in [Owners -> Optional(ProbeLeaseGuard)]
      /\ \A g \in Owners : GuardSafe(h, gs, g)
      /\ Distinct(gs)
      /\ \A q \in Providers : LeaseSafe(h, gs, q)
  BY DEF Safe
<1>2. /\ HealthSafe(k)
      /\ Advances(h, k)
      /\ k[p] = x
      /\ x # None
      /\ \A q \in Providers \ {p} : k[q] = h[q]
  BY <1>1, PutRecord
<1> HIDE DEF k
<1>3. \A g \in Owners : GuardSafe(k, gs, g)
  <2>1. TAKE g \in Owners
  <2>2. gs[g] # None => k[gs[g].provider_id] # None
    BY <1>1, <1>2 DEF GuardSafe, Optional, ProbeLeaseGuard
  <2> QED
    BY <1>1, <1>2, <2>2, GuardSurvives
<1>4. LeaseSafe(k, gs, p)
  <2>1. SUFFICES ASSUME x.probe_lease # None
                 PROVE  LeaseSafe(k, gs, p)
    BY <1>2 DEF LeaseSafe
  <2>2. x.state = e.state /\ x.probe_lease = e.probe_lease
    BY <2>1 DEF KeepsLease
  <2>3. h[p] # None /\ e = h[p]
    BY <1>1, <2>1, <2>2, EntryIsWellFormed
  <2> HIDE DEF e
  <2> QED
    BY <1>1, <1>2, <2>1, <2>2, <2>3 DEF LeaseSafe
<1>5. \A q \in Providers \ {p} : LeaseSafe(k, gs, q)
  BY <1>1, <1>2 DEF LeaseSafe
<1> QED
  BY <1>1, <1>2, <1>3, <1>4, <1>5 DEF Safe, k

\* A call of the owner of a guard: g becomes n.  Afterwards its provider has no
\* lease, or somebody else's, or the lease and the new guard agree.
LEMMA OwnerCall ==
    ASSUME NEW h, NEW gs, Safe(h, gs), NEW g \in Owners, gs[g] # None,
           NEW x, WellFormed(x), Follows(h[gs[g].provider_id], x),
           NEW n \in ProbeLeaseGuard,
           n.provider_id = gs[g].provider_id,
           n.generation = gs[g].generation,
           n.owner_trace_id = gs[g].owner_trace_id,
           n.phase = "committing" => ready(n.before),
           \/ x.probe_lease = None
           \/ KeepsLease(h[gs[g].provider_id], x) /\ ~lease_matches(x, gs[g])
           \/ /\ lease_matches(x, gs[g])
              /\ x.state = "OPEN"
              /\ n.phase # "finished"
              /\ n.phase \in {"committing", "dispatched"}
                    <=> x.probe_lease.dispatched_at # None
    PROVE  LET k == [h EXCEPT ![gs[g].provider_id] = x]
               ks == [gs EXCEPT ![g] = n]
           IN  Safe(k, ks) /\ Advances(h, k)
<1> DEFINE p == gs[g].provider_id
           k == [h EXCEPT ![p] = x]
           ks == [gs EXCEPT ![g] = n]
<1>1. /\ HealthSafe(h)
      /\ gs \in [Owners -> Optional(ProbeLeaseGuard)]
      /\ \A f \in Owners : GuardSafe(h, gs, f)
      /\ Distinct(gs)
      /\ \A q \in Providers : LeaseSafe(h, gs, q)
  BY DEF Safe
<1>2. /\ p \in Providers
      /\ h[p] # None
      /\ entry_of(h, p) = h[p]
      /\ gs[g].owner_trace_id = g
  BY <1>1 DEF GuardSafe, Optional, ProbeLeaseGuard, entry_of
<1>3. /\ HealthSafe(k)
      /\ Advances(h, k)
      /\ k[p] = x
      /\ x # None
      /\ \A q \in Providers \ {p} : k[q] = h[q]
  BY <1>1, <1>2, PutRecord
<1>4. /\ ks \in [Owners -> Optional(ProbeLeaseGuard)]
      /\ ks[g] = n
      /\ n # None
      /\ \A f \in Owners \ {g} : ks[f] = gs[f]
  BY <1>1, NoGuardAssumption DEF Optional
<1> HIDE DEF k, ks
<1>5. \A f \in Owners : GuardSafe(k, gs, f)
  <2>1. TAKE f \in Owners
  <2>2. gs[f] # None => k[gs[f].provider_id] # None
    BY <1>1, <1>3 DEF GuardSafe, Optional, ProbeLeaseGuard
  <2> QED
    BY <1>1, <1>3, <2>2, GuardSurvives
<1>6. \A f \in Owners : GuardSafe(k, ks, f)
  BY <1>4, <1>5 DEF GuardSafe
<1>7. Distinct(ks)
  BY <1>1, <1>4 DEF Distinct
<1>8. LeaseSafe(k, ks, p)
  <2>1. CASE x.probe_lease = None
    BY <1>3, <2>1 DEF LeaseSafe
  <2>2. CASE x.probe_lease # None /\ KeepsLease(h[p], x) /\ ~lease_matches(x, gs[g])
    <3> DEFINE f == x.probe_lease.owner_trace_id
    <3>1. x.probe_lease = h[p].probe_lease /\ x.state = h[p].state
      BY <2>2 DEF KeepsLease
    <3>2. /\ h[p].state = "OPEN"
          /\ gs[f] # None
          /\ gs[f].provider_id = p
          /\ gs[f].generation = x.probe_lease.generation
          /\ gs[f].phase # "finished"
          /\ gs[f].phase \in {"committing", "dispatched"}
                <=> x.probe_lease.dispatched_at # None
      BY <1>1, <1>2, <2>2, <3>1 DEF LeaseSafe
    <3>3. f \in Owners
      BY <2>2 DEF WellFormed, ProviderHealth, Optional, ProbeLeaseState
    <3>4. f # g
      BY <1>2, <2>2, <3>2 DEF lease_matches
    <3>5. ks[f] = gs[f]
      BY <1>4, <3>3, <3>4
    <3> HIDE DEF p
    <3> QED
      BY <1>3, <3>1, <3>2, <3>5 DEF LeaseSafe
  <2>3. CASE /\ lease_matches(x, gs[g])
             /\ x.state = "OPEN"
             /\ n.phase # "finished"
             /\ n.phase \in {"committing", "dispatched"}
                   <=> x.probe_lease.dispatched_at # None
    <3>1. x.probe_lease.owner_trace_id = g /\ x.probe_lease.generation = n.generation
      BY <1>2, <2>3 DEF lease_matches
    <3> QED
      BY <1>3, <1>4, <2>3, <3>1 DEF LeaseSafe
  <2> QED
    BY <2>1, <2>2, <2>3
<1>9. ASSUME NEW q \in Providers \ {p}
      PROVE  LeaseSafe(k, ks, q)
  <2>1. SUFFICES ASSUME h[q] # None, h[q].probe_lease # None
                 PROVE  LeaseSafe(k, ks, q)
    BY <1>3 DEF LeaseSafe
  <2> DEFINE f == h[q].probe_lease.owner_trace_id
  <2>2. f \in Owners
    BY <1>1, <2>1 DEF HealthSafe, Optional, ProviderHealth, ProbeLeaseState
  <2>3. gs[f].provider_id = q
    BY <1>1, <2>1 DEF LeaseSafe
  <2>4. ks[f] = gs[f]
    BY <1>4, <2>2, <2>3
  <2> QED
    BY <1>1, <1>3, <2>4 DEF LeaseSafe
<1> QED
  BY <1>3, <1>4, <1>6, <1>7, <1>8, <1>9 DEF Safe, k, ks

\* A new guard takes a fresh generation.
LEMMA NewGuard ==
    ASSUME NEW h, NEW gs, Safe(h, gs), NEW g \in Owners, gs[g] = None,
           NEW p \in Providers, h[p] # None,
           NEW x, WellFormed(x), Follows(h[p], x),
           x.state = "OPEN",
           x.probe_generation > h[p].probe_generation,
           x.probe_lease # None,
           x.probe_lease.generation = x.probe_generation,
           x.probe_lease.owner_trace_id = g,
           x.probe_lease.dispatched_at = None,
           NEW n \in ProbeLeaseGuard,
           n.provider_id = p,
           n.generation = x.probe_generation,
           n.owner_trace_id = g,
           n.phase = "pending"
    PROVE  LET k == [h EXCEPT ![p] = x]
               ks == [gs EXCEPT ![g] = n]
           IN  Safe(k, ks) /\ Advances(h, k)
<1> DEFINE k == [h EXCEPT ![p] = x]
           ks == [gs EXCEPT ![g] = n]
<1>1. /\ HealthSafe(h)
      /\ gs \in [Owners -> Optional(ProbeLeaseGuard)]
      /\ \A f \in Owners : GuardSafe(h, gs, f)
      /\ Distinct(gs)
      /\ \A q \in Providers : LeaseSafe(h, gs, q)
  BY DEF Safe
<1>2. entry_of(h, p) = h[p]
  BY DEF entry_of
<1>3. /\ HealthSafe(k)
      /\ Advances(h, k)
      /\ k[p] = x
      /\ x # None
      /\ \A q \in Providers \ {p} : k[q] = h[q]
  BY <1>1, <1>2, PutRecord
<1>4. /\ ks \in [Owners -> Optional(ProbeLeaseGuard)]
      /\ ks[g] = n
      /\ n # None
      /\ \A f \in Owners \ {g} : ks[f] = gs[f]
  BY <1>1, NoGuardAssumption DEF Optional
<1> HIDE DEF k, ks
<1>5. ASSUME NEW f \in Owners
      PROVE  GuardSafe(k, ks, f)
  <2>1. CASE f = g
    <3>1. n.generation \in Nat /\ n.generation <= k[p].probe_generation
      BY <1>3 DEF ProbeLeaseGuard
    <3> QED
      BY <1>3, <1>4, <2>1, <3>1 DEF GuardSafe
  <2>2. CASE f # g
    <3>1. gs[f] # None => k[gs[f].provider_id] # None
      BY <1>1, <1>3 DEF GuardSafe, Optional, ProbeLeaseGuard
    <3>2. GuardSafe(k, gs, f)
      BY <1>1, <1>3, <3>1, GuardSurvives
    <3> QED
      BY <1>4, <2>2, <3>2 DEF GuardSafe
  <2> QED
    BY <2>1, <2>2
<1>6. Distinct(ks)
  <2>1. ASSUME NEW f \in Owners \ {g}, gs[f] # None, gs[f].provider_id = p
        PROVE  gs[f].generation # n.generation
    <3>1. gs[f].generation <= h[p].probe_generation
      BY <1>1, <2>1 DEF GuardSafe
    <3>2. gs[f].generation \in Nat /\ h[p].probe_generation \in Nat
      BY <1>1, <2>1 DEF HealthSafe, Optional, ProbeLeaseGuard, ProviderHealth
    <3>3. x.probe_generation \in Nat
      BY DEF WellFormed, ProviderHealth
    <3> QED
      BY <3>1, <3>2, <3>3
  <2> QED
    BY <1>1, <1>4, <2>1 DEF Distinct
<1>7. LeaseSafe(k, ks, p)
  BY <1>3, <1>4 DEF LeaseSafe
<1>8. ASSUME NEW q \in Providers \ {p}
      PROVE  LeaseSafe(k, ks, q)
  <2>1. SUFFICES ASSUME h[q] # None, h[q].probe_lease # None
                 PROVE  LeaseSafe(k, ks, q)
    BY <1>3 DEF LeaseSafe
  <2> DEFINE f == h[q].probe_lease.owner_trace_id
  <2>2. f \in Owners
    BY <1>1, <2>1 DEF HealthSafe, Optional, ProviderHealth, ProbeLeaseState
  <2>3. gs[f] # None
    BY <1>1, <2>1 DEF LeaseSafe
  <2>4. ks[f] = gs[f]
    BY <1>4, <2>2, <2>3
  <2> QED
    BY <1>1, <1>3, <2>4 DEF LeaseSafe
<1> QED
  BY <1>3, <1>4, <1>5, <1>6, <1>7, <1>8 DEF Safe, k, ks

\* A finished guard owns no lease, so dropping it disturbs nothing.
LEMMA DroppedGuard ==
    ASSUME NEW h, NEW gs, Safe(h, gs), NEW g \in Owners, gs[g] # None,
           gs[g].phase = "finished"
    PROVE  Safe(h, [gs EXCEPT ![g] = None]) /\ Advances(h, h)
<1> DEFINE ks == [gs EXCEPT ![g] = None]
<1>1. /\ ks \in [Owners -> Optional(ProbeLeaseGuard)]
      /\ ks[g] = None
      /\ \A f \in Owners \ {g} : ks[f] = gs[f]
  BY DEF Safe, Optional
<1> HIDE DEF ks
<1>2. \A f \in Owners : GuardSafe(h, ks, f)
  BY <1>1 DEF Safe, GuardSafe
<1>3. Distinct(ks)
  BY <1>1 DEF Safe, Distinct
<1>4. ASSUME NEW p \in Providers
      PROVE  LeaseSafe(h, ks, p)
  <2>1. SUFFICES ASSUME h[p] # None, h[p].probe_lease # None
                 PROVE  LeaseSafe(h, ks, p)
    BY DEF LeaseSafe
  <2> DEFINE f == h[p].probe_lease.owner_trace_id
  <2>2. f \in Owners
    BY <2>1 DEF Safe, HealthSafe, Optional, ProviderHealth, ProbeLeaseState
  <2>3. LeaseSafe(h, gs, p)
    BY DEF Safe
  <2>4. ks[f] = gs[f]
    BY <1>1, <2>1, <2>2, <2>3 DEF LeaseSafe
  <2> QED
    BY <2>3, <2>4 DEF LeaseSafe
<1>5. Advances(h, h)
  BY EntryIsWellFormed, Stays DEF Advances, Safe, WellFormed
<1> QED
  BY <1>1, <1>2, <1>3, <1>4, <1>5 DEF Safe, ks

\* A hot reload: many records change at once, their states and leases do not.
LEMMA Rewrite ==
    ASSUME NEW h, NEW gs, Safe(h, gs), NEW k,
           k \in [Providers -> Optional(ProviderHealth)],
           \A p \in Providers :
              \/ k[p] = h[p]
              \/ /\ h[p] # None
                 /\ WellFormed(k[p])
                 /\ Follows(h[p], k[p])
                 /\ k[p].state = h[p].state
                 /\ k[p].probe_lease = h[p].probe_lease
    PROVE  Safe(k, gs) /\ Advances(h, k)
<1>1. /\ HealthSafe(h)
      /\ gs \in [Owners -> Optional(ProbeLeaseGuard)]
      /\ \A f \in Owners : GuardSafe(h, gs, f)
      /\ Distinct(gs)
      /\ \A q \in Providers : LeaseSafe(h, gs, q)
  BY DEF Safe
<1>2. \A p \in Providers : WellFormed(k[p]) => k[p] # None
  BY NoneAssumption DEF WellFormed
<1>3. HealthSafe(k)
  BY <1>1 DEF HealthSafe, WellFormed
<1>4. Advances(h, k)
  <2>1. SUFFICES ASSUME NEW p \in Providers
                 PROVE  Follows(entry_of(h, p), entry_of(k, p))
    BY DEF Advances
  <2>2. CASE k[p] = h[p]
    BY <1>1, <2>2, EntryIsWellFormed, Stays DEF entry_of, WellFormed
  <2>3. CASE k[p] # h[p]
    BY <1>2, <2>3 DEF entry_of
  <2> QED
    BY <2>2, <2>3
<1>5. ASSUME NEW g \in Owners
      PROVE  GuardSafe(k, gs, g)
  <2>1. gs[g] # None => k[gs[g].provider_id] # None
    BY <1>1, <1>2 DEF GuardSafe, Optional, ProbeLeaseGuard
  <2> QED
    BY <1>1, <1>3, <1>4, <2>1, GuardSurvives
<1>6. ASSUME NEW p \in Providers
      PROVE  LeaseSafe(k, gs, p)
  BY <1>1 DEF LeaseSafe
<1> QED
  BY <1>1, <1>3, <1>4, <1>5, <1>6 DEF Safe

\* should_allow removes a closed record of revision 0, to which no guard refers.
LEMMA RemoveRecord ==
    ASSUME NEW h, NEW gs, Safe(h, gs), NEW p \in Providers, h[p] # None,
           h[p].state = "CLOSED",
           h[p].state_revision = 0,
           persisted_from_health(h[p]) = persisted_from_health(closed)
    PROVE  LET k == [h EXCEPT ![p] = None]
           IN  Safe(k, gs) /\ Advances(h, k)
<1> DEFINE k == [h EXCEPT ![p] = None]
<1>1. /\ HealthSafe(h)
      /\ gs \in [Owners -> Optional(ProbeLeaseGuard)]
      /\ \A f \in Owners : GuardSafe(h, gs, f)
      /\ Distinct(gs)
      /\ \A q \in Providers : LeaseSafe(h, gs, q)
  BY DEF Safe
<1>2. /\ k \in [Providers -> Optional(ProviderHealth)]
      /\ k[p] = None
      /\ \A q \in Providers \ {p} : k[q] = h[q]
  BY <1>1 DEF HealthSafe, Optional
<1> HIDE DEF k
<1>3. HealthSafe(k)
  BY <1>1, <1>2 DEF HealthSafe
<1>4. Advances(h, k)
  <2>1. ASSUME NEW q \in Providers \ {p}
        PROVE  Follows(entry_of(h, q), entry_of(k, q))
    BY <1>1, <1>2, EntryIsWellFormed, Stays DEF entry_of, WellFormed
  <2> QED
    BY <1>2, <2>1 DEF Advances, entry_of
<1>5. ASSUME NEW g \in Owners
      PROVE  GuardSafe(k, gs, g)
  <2>1. gs[g] # None => gs[g].provider_id \in Providers \ {p}
    BY <1>1 DEF GuardSafe, Optional, ProbeLeaseGuard
  <2> QED
    BY <1>1, <1>2, <2>1 DEF GuardSafe
<1>6. ASSUME NEW q \in Providers
      PROVE  LeaseSafe(k, gs, q)
  BY <1>1, <1>2 DEF LeaseSafe
<1> QED
  BY <1>1, <1>3, <1>4, <1>5, <1>6 DEF Safe, k

-----------------------------------------------------------------------------
(* The invariant of the specification.                                      *)

\* The variables no step of a request changes.
Scalars ==
    /\ clock \in Int
    /\ config \in Configs
    /\ old_config \in Configs
    /\ reload \in Optional(Reload)
    /\ global_recovery_epoch \in Nat

LEMMA SafetyIsSafe == SafetyInvariant <=> Scalars /\ Safe(health, guards)
<1>1. TypeOK => (LeaseHasLiveGuard <=> \A p \in Providers : LeaseSafe(health, guards, p))
  BY DEF TypeOK, LeaseHasLiveGuard, LeaseSafe, Leased, Known, InFlight, Holds
<1>2. (TokensAreUnique /\ GuardsHoldEntries /\ RollbackIsReady) <=>
        (Distinct(guards) /\ \A g \in Owners : GuardSafe(health, guards, g))
  BY DEF TokensAreUnique, GuardsHoldEntries, RollbackIsReady, Distinct, GuardSafe,
         HasEntry, Entry, Holds
<1>3. TypeOK => (OpenCanBeProbed <=> HealthSafe(health))
  BY DEF TypeOK, OpenCanBeProbed, HealthSafe, Known
<1>4. TypeOK <=> /\ Scalars
                 /\ health \in [Providers -> Optional(ProviderHealth)]
                 /\ guards \in [Owners -> Optional(ProbeLeaseGuard)]
  BY DEF TypeOK, Scalars
<1>5. HealthSafe(health) => health \in [Providers -> Optional(ProviderHealth)]
  BY DEF HealthSafe
<1> QED
  BY <1>1, <1>2, <1>3, <1>4, <1>5 DEF SafetyInvariant, Safe

LEMMA InitIsSafe == Init => SafetyInvariant
<1> SUFFICES ASSUME Init PROVE SafetyInvariant
  OBVIOUS
<1>1. Scalars
  BY DEF Init, Scalars, Optional
<1>2. ASSUME NEW p \in Providers, health[p] # None
      PROVE  WellFormed(health[p]) /\ health[p].probe_lease = None
  <2>1. PICK row \in Rows : health[p] = restored(config, row)
    BY <1>2 DEF Init
  <2>2. config \in Configs /\ row \in CircuitPersistedState
    BY CircuitAssumption DEF Init
  <2>3. row.state # "CLOSED" => of_an_open_circuit(row)
    BY RowsAssumption
  <2> QED
    BY <1>2, <2>1, <2>2, <2>3, RestoredEffect
<1>3. HealthSafe(health)
  <2>1. health = [p \in Providers |-> health[p]]
    BY DEF Init
  <2> QED
    BY <1>2, <2>1 DEF HealthSafe, WellFormed, Optional
<1>4. guards = [g \in Owners |-> None]
  BY DEF Init
<1>5. Safe(health, guards)
  BY <1>2, <1>3, <1>4 DEF Safe, Distinct, GuardSafe, LeaseSafe, Optional
<1> QED
  BY <1>1, <1>5, SafetyIsSafe

LEMMA CallArguments ==
    ASSUME Scalars
    PROVE  /\ \A now \in CallTimes : now \in Int
           /\ \A cfg \in ReadConfigs : cfg \in Configs
BY CircuitAssumption DEF Scalars, CallTimes, ReadConfigs

LEMMA KnownRecord ==
    ASSUME Safe(health, guards), NEW p \in Providers, health[p] # None
    PROVE  WellFormed(health[p]) /\ entry_of(health, p) = health[p]
BY EntryIsWellFormed DEF Safe

\* Calls without a lease.
LEMMA ProviderStepIsSafe ==
    ASSUME Scalars, Safe(health, guards), NEW p \in Providers, ProviderStep(p)
    PROVE  Scalars' /\ Safe(health', guards') /\ Advances(health, health')
<1> DEFINE e == entry_of(health, p)
<1>1. /\ guards' = guards
      /\ Scalars'
  BY DEF ProviderStep, Snapshot, ShouldAllow, RecordSuccess, RecordFailure,
         TriggerCooldown, Reset, Scalars, settings
<1>2. WellFormed(e) /\ e = IF Known(p) THEN health[p] ELSE closed
  BY EntryIsWellFormed DEF Safe, entry_of, Known
<1>3. Known(p) => e = health[p]
  BY <1>2
<1>4. ASSUME NEW x, WellFormed(x), Follows(e, x), Put(p, x),
             KeepsLease(e, x) \/ x.probe_lease = None
      PROVE  Scalars' /\ Safe(health', guards') /\ Advances(health, health')
  BY <1>1, <1>4, OtherCall DEF Put
<1> HIDE DEF e
<1>5. CASE Snapshot(p)
  <2>1. PICK now \in CallTimes : Known(p) /\ Put(p, expire_runtime_state(health[p], now))
    BY <1>5 DEF Snapshot
  <2> QED
    BY <1>2, <1>3, <1>4, <2>1, CallArguments, ExpireRuntimeState
<1>6. CASE ShouldAllow(p)
  <2>1. PICK now \in CallTimes : Known(p) /\ Put(p, should_allow(health[p], now))
    BY <1>6 DEF ShouldAllow
  <2>2. CASE should_allow(e, now) # None
    BY <1>2, <1>3, <1>4, <2>1, <2>2, CallArguments, ShouldAllowEffect
  <2>3. CASE should_allow(e, now) = None
    <3>1. now \in Int /\ None \notin ProviderHealth
      BY CallArguments, NoneAssumption
    <3>2. /\ e.state = "CLOSED"
          /\ e.state_revision = 0
          /\ persisted_from_health(e) = persisted_from_health(closed)
      BY <1>2, <2>3, <3>1, ShouldAllowEffect DEF WellFormed
    <3> QED
      BY <1>1, <1>3, <2>1, <2>3, <3>2, RemoveRecord DEF Put, Known
  <2> QED
    BY <2>2, <2>3
<1>7. CASE RecordSuccess(p)
  <2>1. PICK now \in CallTimes : Known(p) /\ Put(p, record_success(health[p], now))
    BY <1>7 DEF RecordSuccess
  <2> QED
    BY <1>2, <1>3, <1>4, <2>1, CallArguments, RecordSuccessEffect
<1>8. CASE RecordFailure(p)
  <2>1. PICK now \in CallTimes, cfg \in ReadConfigs : Put(p, record_failure(cfg, e, now))
    BY <1>2, <1>8 DEF RecordFailure
  <2> QED
    BY <1>2, <1>4, <2>1, CallArguments, RecordFailureEffect
<1>9. CASE TriggerCooldown(p)
  <2>1. PICK now \in CallTimes, secs \in Cooldowns : Put(p, trigger_cooldown(e, now, secs))
    BY <1>2, <1>9 DEF TriggerCooldown
  <2>2. secs \in Int
    BY CircuitAssumption
  <2> QED
    BY <1>2, <1>4, <2>1, <2>2, CallArguments, TriggerCooldownEffect
<1>10. CASE Reset(p)
  <2>1. Known(p) /\ Put(p, reset(health[p]))
    BY <1>10 DEF Reset
  <2> QED
    BY <1>2, <1>3, <1>4, <2>1, ResetEffect
<1> QED
  BY <1>5, <1>6, <1>7, <1>8, <1>9, <1>10 DEF ProviderStep

LEMMA NoRecordChanges ==
    ASSUME Safe(health, guards)
    PROVE  Advances(health, health)
BY EntryIsWellFormed, Stays DEF Advances, Safe, WellFormed

\* The steps of the clock and of a hot reload.
LEMMA ReloadStepIsSafe ==
    ASSUME Scalars, Safe(health, guards), Tick \/ PublishConfig \/ RewriteDeadlines
    PROVE  Scalars' /\ Safe(health', guards') /\ Advances(health, health')
<1>1. CASE Tick
  BY <1>1, NoRecordChanges DEF Tick, Scalars, settings
<1>2. CASE PublishConfig
  <2>1. PICK cfg \in Configs : /\ config' = cfg
                               /\ old_config' = config
                               /\ reload' = [from |-> config]
    BY <1>2 DEF PublishConfig
  <2>2. config \in Configs
    BY DEF Scalars
  <2>3. reload' \in Optional(Reload)
    BY <2>1, <2>2 DEF Reload, Optional
  <2>4. clock' = clock /\ global_recovery_epoch' = global_recovery_epoch
        /\ health' = health /\ guards' = guards
    BY <1>2 DEF PublishConfig
  <2> QED
    BY <2>1, <2>3, <2>4, NoRecordChanges DEF Scalars
<1>3. CASE RewriteDeadlines
  <2> DEFINE natural == natural_timing_changed(reload.from, config)
             rewrite == natural \/ open_timing_changed(reload.from, config)
             k == [p \in Providers |-> IF rewrite /\ Known(p)
                                       THEN reconfigured(config, health[p], natural)
                                       ELSE health[p]]
  <2>1. health' = k
    BY <1>3 DEF RewriteDeadlines
  <2>2. Scalars' /\ guards' = guards
    BY <1>3 DEF RewriteDeadlines, Scalars, Optional
  <2>3. config \in Configs
    BY DEF Scalars
  <2>4. \A p \in Providers :
           \/ k[p] = health[p]
           \/ /\ health[p] # None
              /\ WellFormed(k[p])
              /\ Follows(health[p], k[p])
              /\ k[p].state = health[p].state
              /\ k[p].probe_lease = health[p].probe_lease
    BY <2>3, KnownRecord, ReconfiguredEffect DEF Known
  <2>5. k \in [Providers -> Optional(ProviderHealth)]
    <3>1. health \in [Providers -> Optional(ProviderHealth)]
      BY DEF Safe, HealthSafe
    <3>2. \A p \in Providers : k[p] \in Optional(ProviderHealth)
      BY <2>4, <3>1 DEF WellFormed, Optional
    <3> QED
      BY <3>2
  <2> HIDE DEF k
  <2> QED
    BY <2>1, <2>2, <2>4, <2>5, Rewrite
<1> QED
  BY <1>1, <1>2, <1>3

-----------------------------------------------------------------------------
(* The life of a guard.                                                     *)

\* What the invariant says of one guard and the record it refers to.
LEMMA GuardFacts ==
    ASSUME Safe(health, guards), NEW g \in Owners, guards[g] # None
    PROVE  LET p == guards[g].provider_id
               e == health[p]
           IN  /\ guards[g] \in ProbeLeaseGuard
               /\ p \in Providers
               /\ e # None
               /\ WellFormed(e)
               /\ guards[g].owner_trace_id = g
               /\ guards[g].phase = "committing" => ready(guards[g].before)
               /\ lease_matches(e, guards[g]) =>
                     /\ e.state = "OPEN"
                     /\ guards[g].phase # "finished"
                     /\ guards[g].phase \in {"committing", "dispatched"}
                           <=> e.probe_lease.dispatched_at # None
<1> DEFINE p == guards[g].provider_id
           e == health[p]
<1>1. guards[g] \in ProbeLeaseGuard /\ p \in Providers
  BY DEF Safe, Optional, ProbeLeaseGuard
<1>2. /\ e # None
      /\ guards[g].owner_trace_id = g
      /\ guards[g].phase = "committing" => ready(guards[g].before)
  BY DEF Safe, GuardSafe
<1>3. WellFormed(e)
  BY <1>1, <1>2, KnownRecord
<1>4. LeaseSafe(health, guards, p)
  BY <1>1 DEF Safe
<1>5. lease_matches(e, guards[g]) =>
         /\ e.state = "OPEN"
         /\ guards[g].phase # "finished"
         /\ guards[g].phase \in {"committing", "dispatched"}
               <=> e.probe_lease.dispatched_at # None
  BY <1>2, <1>4 DEF LeaseSafe, lease_matches
<1> QED
  BY <1>1, <1>2, <1>3, <1>5

LEMMA AcquireIsSafe ==
    ASSUME Scalars, Safe(health, guards), NEW g \in Owners, NEW p \in Providers,
           AcquireProbe(g, p)
    PROVE  Scalars' /\ Safe(health', guards') /\ Advances(health, health')
<1>1. PICK now \in CallTimes :
        LET after == try_acquire_probe(health[p], g, now)
            acquired == probe_available(expire_runtime_state(health[p], now), now)
        IN  /\ guards[g] = None
            /\ Known(p)
            /\ Put(p, after)
            /\ guards' = [guards EXCEPT ![g] =
                   IF acquired
                   THEN [provider_id |-> p,
                         generation |-> after.probe_generation,
                         owner_trace_id |-> g,
                         phase |-> "pending",
                         before |-> None,
                         failed_revision |-> None]
                   ELSE None]
            /\ UNCHANGED <<clock, settings, global_recovery_epoch>>
  BY DEF AcquireProbe
<1> DEFINE e == health[p]
           x == try_acquire_probe(e, g, now)
           n == [provider_id |-> p,
                 generation |-> x.probe_generation,
                 owner_trace_id |-> g,
                 phase |-> "pending",
                 before |-> None,
                 failed_revision |-> None]
<1>2. Scalars'
  BY <1>1 DEF Scalars, settings
<1>3. now \in Int /\ e # None /\ WellFormed(e) /\ entry_of(health, p) = e
  BY <1>1, CallArguments, KnownRecord DEF Known
<1>4. /\ WellFormed(x)
      /\ Follows(e, x)
      /\ x.state = e.state
      /\ IF probe_available(expire_runtime_state(e, now), now)
         THEN /\ e.state = "OPEN"
              /\ x.probe_generation > e.probe_generation
              /\ x.probe_lease # None
              /\ x.probe_lease.generation = x.probe_generation
              /\ x.probe_lease.owner_trace_id = g
              /\ x.probe_lease.dispatched_at = None
         ELSE KeepsLease(e, x)
  BY <1>3, AcquireEffect
<1>5. health' = [health EXCEPT ![p] = x]
  BY <1>1 DEF Put
<1> HIDE DEF x
<1>6. CASE probe_available(expire_runtime_state(e, now), now)
  <2>1. n \in ProbeLeaseGuard
    BY <1>4 DEF WellFormed, ProviderHealth, ProbeLeaseGuard, Optional
  <2>2. guards' = [guards EXCEPT ![g] = n]
    BY <1>1, <1>6 DEF x
  <2>3. guards[g] = None
    BY <1>1
  <2> DEFINE m == n
  <2>4. /\ m.provider_id = p
        /\ m.generation = x.probe_generation
        /\ m.owner_trace_id = g
        /\ m.phase = "pending"
    OBVIOUS
  <2> HIDE DEF m
  <2>5. m \in ProbeLeaseGuard /\ guards' = [guards EXCEPT ![g] = m]
    BY <2>1, <2>2 DEF m
  <2> QED
    BY <1>2, <1>3, <1>4, <1>5, <1>6, <2>3, <2>4, <2>5, NewGuard
<1>7. CASE ~probe_available(expire_runtime_state(e, now), now)
  <2>1. guards \in [Owners -> Optional(ProbeLeaseGuard)]
    BY DEF Safe
  <2>2. guards' = guards
    BY <1>1, <1>7, <2>1
  <2> QED
    BY <1>2, <1>3, <1>4, <1>5, <1>7, <2>2, OtherCall
<1> QED
  BY <1>6, <1>7

\* The transport boundary and its outcome.
LEMMA DispatchIsSafe ==
    ASSUME Scalars, Safe(health, guards), NEW g \in Owners,
           MarkDispatched(g) \/ CommitDispatch(g) \/ RollbackDispatched(g)
    PROVE  Scalars' /\ Safe(health', guards') /\ Advances(health, health')
<1> DEFINE u == guards[g]
           p == u.provider_id
           e == health[p]
<1>1. /\ Scalars'
      /\ u # None
      /\ u.phase \in {"pending", "committing"}
  BY DEF MarkDispatched, CommitDispatch, RollbackDispatched, Scalars, settings, Holds
<1>2. /\ u \in ProbeLeaseGuard
      /\ p \in Providers
      /\ e # None
      /\ WellFormed(e)
      /\ u.owner_trace_id = g
      /\ u.phase = "committing" => ready(u.before)
      /\ lease_matches(e, u) =>
            /\ e.state = "OPEN"
            /\ u.phase # "finished"
            /\ u.phase \in {"committing", "dispatched"}
                  <=> e.probe_lease.dispatched_at # None
  BY <1>1, GuardFacts
<1>3. /\ guards \in [Owners -> Optional(ProbeLeaseGuard)]
      /\ health \in [Providers -> Optional(ProviderHealth)]
      /\ e \in ProviderHealth
  BY <1>2 DEF Safe, HealthSafe, WellFormed
<1>4. CASE MarkDispatched(g)
  <2>1. PICK now \in CallTimes, cfg \in ReadConfigs :
          /\ u.phase = "pending"
          /\ Put(p, mark_probe_dispatched(cfg, e, u, now))
          /\ guards' =
                 IF mark_applies(e, u, now)
                 THEN [guards EXCEPT
                          ![g].phase = "committing",
                          ![g].before = deadlines_of(expire_runtime_state(e, now))]
                 ELSE guards
    BY <1>1, <1>4 DEF MarkDispatched, Holds, Entry
  <2> DEFINE x == mark_probe_dispatched(cfg, e, u, now)
             before == deadlines_of(expire_runtime_state(e, now))
             n == [u EXCEPT !.phase = "committing", !.before = before]
  <2>2. now \in Int /\ cfg \in Configs
    BY CallArguments
  <2>3. /\ WellFormed(x)
        /\ Follows(e, x)
        /\ x.state = e.state
        /\ IF mark_applies(e, u, now)
           THEN /\ e.state = "OPEN"
                /\ lease_matches(e, u)
                /\ x.probe_lease # None
                /\ x.probe_lease.generation = e.probe_lease.generation
                /\ x.probe_lease.owner_trace_id = e.probe_lease.owner_trace_id
                /\ x.probe_lease.dispatched_at # None
           ELSE KeepsLease(e, x)
    BY <1>2, <2>2, MarkDispatchedEffect
  <2>4. health' = [health EXCEPT ![p] = x]
    BY <2>1 DEF Put
  <2>5. CASE mark_applies(e, u, now)
    <3>1. WellFormed(expire_runtime_state(e, now))
          /\ expire_runtime_state(e, now).state = "OPEN"
      BY <1>2, <2>2, <2>5, ExpireRuntimeState DEF mark_applies
    <3>2. before \in Deadlines /\ ready(before)
      BY <3>1 DEF WellFormed, ProviderHealth, probeable, deadlines_of, Deadlines,
                  ready, Optional
    <3> HIDE DEF before, x
    <3>3. /\ n \in ProbeLeaseGuard
          /\ n.provider_id = u.provider_id
          /\ n.generation = u.generation
          /\ n.owner_trace_id = u.owner_trace_id
          /\ n.phase = "committing"
          /\ n.before = before
      BY <1>2, <3>2 DEF ProbeLeaseGuard, Optional
    <3>4. guards' = [guards EXCEPT ![g] = n]
      BY <1>3, <2>1, <2>5 DEF before
    <3>5. lease_matches(x, u)
      BY <2>3, <2>5 DEF lease_matches
    <3>6. x.state = "OPEN" /\ x.probe_lease.dispatched_at # None
      BY <2>3, <2>5
    <3> HIDE DEF n
    <3> QED
      BY <1>1, <2>3, <2>4, <3>2, <3>3, <3>4, <3>5, <3>6, OwnerCall
  <2>6. CASE ~mark_applies(e, u, now)
    <3>1. guards' = guards /\ KeepsLease(e, x) /\ entry_of(health, p) = e
      BY <1>2, <2>1, <2>3, <2>6 DEF entry_of
    <3> HIDE DEF x
    <3> QED
      BY <1>1, <1>2, <2>3, <2>4, <3>1, OtherCall
  <2> QED
    BY <2>5, <2>6
<1>5. CASE CommitDispatch(g)
  <2> DEFINE n == [u EXCEPT !.phase = "dispatched", !.before = None]
  <2>1. /\ u.phase = "committing"
        /\ owns_dispatched_lease(e, u)
        /\ guards' = [guards EXCEPT ![g] = n]
        /\ health' = health
    BY <1>1, <1>3, <1>5 DEF CommitDispatch, Holds, Entry
  <2>2. /\ n \in ProbeLeaseGuard
        /\ n.provider_id = u.provider_id
        /\ n.generation = u.generation
        /\ n.owner_trace_id = u.owner_trace_id
        /\ n.phase = "dispatched"
    BY <1>2 DEF ProbeLeaseGuard, Optional
  <2>3. health' = [health EXCEPT ![p] = e]
    BY <1>2, <1>3, <2>1
  <2>4. lease_matches(e, u) /\ e.probe_lease.dispatched_at # None /\ e.state = "OPEN"
    BY <1>2, <2>1 DEF owns_dispatched_lease, lease_dispatched
  <2>5. Follows(e, e)
    BY <1>3, Stays
  <2>6. u # None
    BY <1>1
  <2>7. guards' = [guards EXCEPT ![g] = n]
    BY <2>1
  <2> HIDE DEF n
  <2>8. LET k == [health EXCEPT ![p] = e]
            ks == [guards EXCEPT ![g] = n]
        IN  Safe(k, ks) /\ Advances(health, k)
    BY <1>2, <2>2, <2>4, <2>5, <2>6, OwnerCall
  <2> QED
    BY <1>1, <2>3, <2>7, <2>8
<1>6. CASE RollbackDispatched(g)
  <2> DEFINE n == [u EXCEPT !.phase = "finished", !.before = None]
             x == rollback_probe_dispatch(e, u, u.before)
  <2>1. /\ u.phase = "committing"
        /\ Put(p, x)
        /\ guards' = [guards EXCEPT ![g] = n]
    BY <1>1, <1>3, <1>6 DEF RollbackDispatched, Holds, Entry
  <2>2. /\ n \in ProbeLeaseGuard
        /\ n.provider_id = u.provider_id
        /\ n.generation = u.generation
        /\ n.owner_trace_id = u.owner_trace_id
        /\ n.phase = "finished"
    BY <1>2 DEF ProbeLeaseGuard, Optional
  <2>3. /\ WellFormed(x)
        /\ Follows(e, x)
        /\ IF owns_dispatched_lease(e, u)
           THEN x.state = "OPEN" /\ x.probe_lease = None
           ELSE x = e
    BY <1>2, <2>1, RollbackEffect
  <2>4. health' = [health EXCEPT ![p] = x]
    BY <2>1 DEF Put
  <2> HIDE DEF n, x
  <2>5. \/ x.probe_lease = None
        \/ KeepsLease(e, x) /\ ~lease_matches(x, u)
    <3>1. ~owns_dispatched_lease(e, u) => ~lease_matches(e, u)
      BY <1>2, <2>1 DEF owns_dispatched_lease, lease_dispatched, lease_matches
    <3> QED
      BY <2>3, <3>1 DEF KeepsLease
  <2> QED
    BY <1>1, <1>2, <2>2, <2>1, <2>3, <2>4, <2>5, OwnerCall
<1> QED
  BY <1>4, <1>5, <1>6

\* The calls of a probe on the wire and the ends of a guard.
LEMMA EndIsSafe ==
    ASSUME Scalars, Safe(health, guards), NEW g \in Owners,
           \/ RecordAttemptFailure(g)
           \/ CompleteSuccess(g)
           \/ CompleteFailure(g)
           \/ Abandon(g)
           \/ FailClosed(g)
           \/ DropGuard(g)
    PROVE  Scalars' /\ Safe(health', guards') /\ Advances(health, health')
<1> DEFINE u == guards[g]
           p == u.provider_id
           e == health[p]
<1>1. u # None /\ (DropGuard(g) \/ HasEntry(g))
  BY DEF RecordAttemptFailure, CompleteSuccess, CompleteFailure, Abandon, FailClosed,
         DropGuard, Holds
<1>2. Scalars'
  <2>1. CASE CompleteSuccess(g)
    BY <2>1 DEF CompleteSuccess, Scalars, settings
  <2>2. CASE ~CompleteSuccess(g)
    BY <2>2 DEF RecordAttemptFailure, CompleteFailure, Abandon, FailClosed, DropGuard,
                Scalars, settings
  <2> QED
    BY <2>1, <2>2
<1>3. /\ u \in ProbeLeaseGuard
      /\ p \in Providers
      /\ e # None
      /\ WellFormed(e)
      /\ u.owner_trace_id = g
      /\ lease_matches(e, u) =>
            /\ e.state = "OPEN"
            /\ u.phase # "finished"
            /\ u.phase \in {"committing", "dispatched"}
                  <=> e.probe_lease.dispatched_at # None
  BY <1>1, GuardFacts
<1>4. /\ guards \in [Owners -> Optional(ProbeLeaseGuard)]
      /\ entry_of(health, p) = e
      /\ p = guards[g].provider_id
  BY <1>3 DEF Safe, entry_of
<1>5. ASSUME NEW x, WellFormed(x), Follows(e, x), Put(p, x),
             \/ x.probe_lease = None
             \/ KeepsLease(e, x) /\ ~lease_matches(x, u),
             NEW n \in ProbeLeaseGuard,
             n.provider_id = u.provider_id,
             n.generation = u.generation,
             n.owner_trace_id = u.owner_trace_id,
             n.phase = "finished",
             guards' = [guards EXCEPT ![g] = n]
      PROVE  Scalars' /\ Safe(health', guards') /\ Advances(health, health')
  <2>1. LET k == [health EXCEPT ![p] = x]
            ks == [guards EXCEPT ![g] = n]
        IN  Safe(k, ks) /\ Advances(health, k)
    BY <1>1, <1>5, OwnerCall
  <2> QED
    BY <1>2, <1>5, <2>1 DEF Put
<1>6. CASE RecordAttemptFailure(g)
  <2>1. PICK now \in CallTimes, counted \in BOOLEAN :
          /\ Put(p, record_probe_attempt_failure(e, u, now, counted))
          /\ guards' = guards
    BY <1>6 DEF RecordAttemptFailure, Entry
  <2> DEFINE x == record_probe_attempt_failure(e, u, now, counted)
  <2>2. /\ WellFormed(x)
        /\ Follows(e, x)
        /\ KeepsLease(e, x)
    BY <1>3, CallArguments, AttemptFailureEffect DEF KeepsLease
  <2>3. health' = [health EXCEPT ![p] = x]
    BY <2>1 DEF Put
  <2> HIDE DEF x
  <2>4. LET k == [health EXCEPT ![p] = x]
        IN  Safe(k, guards) /\ Advances(health, k)
    BY <1>3, <1>4, <2>2, OtherCall
  <2> QED
    BY <1>2, <2>1, <2>3, <2>4
<1>7. CASE CompleteSuccess(g)
  <2> DEFINE epoch == global_recovery_epoch + 1
  <2>1. PICK now \in CallTimes :
          /\ Put(p, complete_probe_success(e, u, now, epoch))
          /\ u.phase = "dispatched"
          /\ guards' = [guards EXCEPT ![g].phase = "finished"]
    BY <1>7 DEF CompleteSuccess, Entry, SetPhase, Holds
  <2> DEFINE x == complete_probe_success(e, u, now, epoch)
             n == [u EXCEPT !.phase = "finished"]
  <2>2. epoch \in Nat /\ now \in Int
    BY CallArguments DEF Scalars
  <2> HIDE DEF epoch
  <2>3. /\ WellFormed(x)
        /\ Follows(e, x)
        /\ success_applies(e, u, now) <=> owns_dispatched_lease(e, u) /\ e.state = "OPEN"
        /\ IF success_applies(e, u, now)
           THEN x.state = "CLOSED" /\ x.probe_lease = None
           ELSE KeepsLease(e, x)
    BY <1>3, <2>2, CompleteSuccessEffect
  <2>4. lease_matches(e, u) => success_applies(e, u, now)
    BY <1>3, <2>1, <2>3 DEF owns_dispatched_lease, lease_matches, lease_dispatched
  <2> HIDE DEF x
  <2>5. \/ x.probe_lease = None
        \/ KeepsLease(e, x) /\ ~lease_matches(x, u)
    BY <2>3, <2>4 DEF KeepsLease, lease_matches
  <2>6. /\ n \in ProbeLeaseGuard
        /\ n.provider_id = u.provider_id
        /\ n.generation = u.generation
        /\ n.owner_trace_id = u.owner_trace_id
        /\ n.phase = "finished"
        /\ guards' = [guards EXCEPT ![g] = n]
    BY <1>3, <1>4, <2>1 DEF ProbeLeaseGuard
  <2> HIDE DEF n
  <2> QED
    BY <1>5, <2>1, <2>3, <2>5, <2>6 DEF x
<1>8. CASE CompleteFailure(g)
  <2>1. PICK now \in CallTimes, cfg \in ReadConfigs, counted \in BOOLEAN :
          /\ Put(p, finish_probe_failure(cfg, e, u, now, counted))
          /\ guards' = [guards EXCEPT
                 ![g].phase = "finished",
                 ![g].failed_revision =
                     IF lease_matches(expire_runtime_state(e, now), u)
                     THEN finish_probe_failure(cfg, e, u, now, counted).state_revision
                     ELSE None]
    BY <1>8 DEF CompleteFailure, Entry
  <2> DEFINE x == finish_probe_failure(cfg, e, u, now, counted)
             failed == IF lease_matches(expire_runtime_state(e, now), u)
                       THEN x.state_revision ELSE None
             n == [u EXCEPT !.phase = "finished", !.failed_revision = failed]
  <2>2. /\ WellFormed(x)
        /\ Follows(e, x)
        /\ \/ x.probe_lease = None
           \/ KeepsLease(e, x) /\ ~lease_matches(x, u)
    BY <1>3, CallArguments, FinishFailureEffect
  <2>3. Put(p, x) /\ guards' = [guards EXCEPT ![g] = n]
    BY <1>4, <2>1
  <2> HIDE DEF x
  <2>4. failed \in Optional(Nat)
    BY <2>2 DEF WellFormed, ProviderHealth, Optional
  <2> HIDE DEF failed
  <2>5. /\ n \in ProbeLeaseGuard
        /\ n.provider_id = u.provider_id
        /\ n.generation = u.generation
        /\ n.owner_trace_id = u.owner_trace_id
        /\ n.phase = "finished"
    BY <1>3, <2>4 DEF ProbeLeaseGuard
  <2> HIDE DEF n
  <2> QED
    BY <1>5, <2>2, <2>3, <2>5
<1>9. CASE Abandon(g)
  <2>1. PICK now \in CallTimes, cfg \in ReadConfigs :
          /\ Put(p, finish_probe_failure(cfg, e, u, now, FALSE))
          /\ guards' = [guards EXCEPT ![g].phase = "finished"]
    BY <1>9 DEF Abandon, Entry, SetPhase
  <2> DEFINE x == finish_probe_failure(cfg, e, u, now, FALSE)
             n == [u EXCEPT !.phase = "finished"]
  <2>2. /\ WellFormed(x)
        /\ Follows(e, x)
        /\ \/ x.probe_lease = None
           \/ KeepsLease(e, x) /\ ~lease_matches(x, u)
    BY <1>3, CallArguments, FinishFailureEffect
  <2> HIDE DEF x
  <2>3. /\ n \in ProbeLeaseGuard
        /\ n.provider_id = u.provider_id
        /\ n.generation = u.generation
        /\ n.owner_trace_id = u.owner_trace_id
        /\ n.phase = "finished"
        /\ guards' = [guards EXCEPT ![g] = n]
    BY <1>3, <1>4, <2>1 DEF ProbeLeaseGuard
  <2> HIDE DEF n
  <2> QED
    BY <1>5, <2>1, <2>2, <2>3 DEF x
<1>10. CASE FailClosed(g)
  <2> DEFINE x == fail_closed_after_probe_persist_error(e, u.failed_revision)
             n == [u EXCEPT !.failed_revision = None]
  <2>1. /\ u.phase = "finished"
        /\ Put(p, x)
        /\ guards' = [guards EXCEPT ![g] = n]
    BY <1>4, <1>10 DEF FailClosed, Entry, Holds
  <2>2. /\ WellFormed(x)
        /\ Follows(e, x)
        /\ x.state = e.state
        /\ x.probe_lease = e.probe_lease
    BY <1>3, FailClosedEffect
  <2> HIDE DEF x
  <2>3. KeepsLease(e, x) /\ ~lease_matches(x, u)
    BY <1>3, <2>1, <2>2 DEF KeepsLease, lease_matches
  <2>4. /\ n \in ProbeLeaseGuard
        /\ n.provider_id = u.provider_id
        /\ n.generation = u.generation
        /\ n.owner_trace_id = u.owner_trace_id
        /\ n.phase = "finished"
    BY <1>3, <2>1 DEF ProbeLeaseGuard, Optional
  <2> HIDE DEF n
  <2> QED
    BY <1>5, <2>1, <2>2, <2>3, <2>4
<1>11. CASE DropGuard(g)
  <2>1. /\ u.phase = "finished"
        /\ guards' = [guards EXCEPT ![g] = None]
        /\ health' = health
    BY <1>11 DEF DropGuard, Holds
  <2> QED
    BY <1>1, <1>2, <2>1, DroppedGuard
<1> QED
  BY <1>6, <1>7, <1>8, <1>9, <1>10, <1>11

-----------------------------------------------------------------------------
(* The theorems.                                                            *)

LEMMA NextIsSafe ==
    ASSUME SafetyInvariant, [Next]_vars
    PROVE  SafetyInvariant' /\ Advances(health, health')
<1>1. Scalars /\ Safe(health, guards)
  BY SafetyIsSafe
<1>2. Scalars' /\ Safe(health', guards') /\ Advances(health, health')
  <2>1. CASE Tick \/ PublishConfig \/ RewriteDeadlines
    BY <1>1, <2>1, ReloadStepIsSafe
  <2>2. ASSUME NEW p \in Providers, ProviderStep(p)
        PROVE  Scalars' /\ Safe(health', guards') /\ Advances(health, health')
    BY <1>1, <2>2, ProviderStepIsSafe
  <2>3. ASSUME NEW g \in Owners, GuardStep(g)
        PROVE  Scalars' /\ Safe(health', guards') /\ Advances(health, health')
    BY <1>1, <2>3, AcquireIsSafe, DispatchIsSafe, EndIsSafe DEF GuardStep
  <2>4. CASE UNCHANGED vars
    BY <1>1, <2>4, NoRecordChanges DEF vars, settings, Scalars
  <2> QED
    BY <2>1, <2>2, <2>3, <2>4 DEF Next
<1>3. SafetyInvariant' <=> (Scalars /\ Safe(health, guards))'
  BY SafetyIsSafe, PTL
<1> QED
  BY <1>2, <1>3

\* The inductive invariant of the circuit breaker.
THEOREM SafetyInvariance == Spec => []SafetyInvariant
<1>1. Init => SafetyInvariant
  BY InitIsSafe
<1>2. SafetyInvariant /\ [Next]_vars => SafetyInvariant'
  BY NextIsSafe
<1> QED
  BY <1>1, <1>2, PTL DEF Spec

\* Every variable keeps its type.
THEOREM TypeCorrect == Spec => []TypeOK
BY SafetyInvariance, PTL DEF SafetyInvariant

\* A lease always has a live guard of the same generation that will end it, on
\* an OPEN circuit and on the same side of the transport boundary.
THEOREM LeaseIsGuarded == Spec => []LeaseHasLiveGuard
BY SafetyInvariance, PTL DEF SafetyInvariant

\* No two guards of a provider carry the same generation, and the records they
\* refer to are never removed.
THEOREM TokensUnique == Spec => []TokensAreUnique
BY SafetyInvariance, PTL DEF SafetyInvariant

\* An OPEN circuit always knows its deadlines and has no recovery guard.
THEOREM OpenIsProbeable == Spec => []OpenCanBeProbed
BY SafetyInvariance, PTL DEF SafetyInvariant

\* Whatever changes what is stored of a provider raises its revision.
THEOREM StoredStatesAreOrdered == Spec => RevisionOrdersStoredStates
<1> DEFINE Ordered ==
        \A p \in Providers :
            stored(health, p)' # stored(health, p) =>
                stored(health, p).state_revision < stored(health, p)'.state_revision
<1>1. ASSUME SafetyInvariant, SafetyInvariant', Advances(health, health'),
             NEW p \in Providers
      PROVE  stored(health, p)' # stored(health, p) =>
                stored(health, p).state_revision < stored(health, p)'.state_revision
  <2> DEFINE e == entry_of(health, p)
             x == entry_of(health', p)
  <2>1. stored(health, p) = persisted_from_health(e)
        /\ stored(health, p)' = persisted_from_health(x)
    BY DEF stored, entry_of
  <2>2. Safe(health, guards) /\ Safe(health', guards')
    <3>1. SafetyInvariant' <=> (Scalars /\ Safe(health, guards))'
      BY SafetyIsSafe, PTL
    <3> QED
      BY <1>1, <3>1, SafetyIsSafe
  <2>3. e \in ProviderHealth /\ x \in ProviderHealth
    BY <2>2, EntryIsWellFormed DEF Safe, WellFormed
  <2>4. \/ Follows(e, x)
        \/ persisted_from_health(x) = persisted_from_health(e)
    BY <1>1 DEF Advances, entry_of
  <2> HIDE DEF e, x
  <2>5. persisted_from_health(x) # persisted_from_health(e) =>
            e.state_revision < x.state_revision
    BY <2>3, <2>4 DEF Follows, ProviderHealth
  <2> QED
    BY <2>1, <2>5 DEF persisted_from_health
<1>2. SafetyInvariant /\ [Next]_vars => [Ordered]_vars
  BY <1>1, NextIsSafe
<1> QED
  BY <1>2, SafetyInvariance, PTL DEF Spec, RevisionOrdersStoredStates

-----------------------------------------------------------------------------
(* The refinement of ProbeLease.  What it sees of a provider is the state   *)
(* of its record, the probe the lease of the record names once dispatched,  *)
(* and the guards of the provider that are on the wire.                     *)

Probe(e) == IF lease_dispatched(e) THEN {e.probe_lease.owner_trace_id} ELSE {}

OnWire(gs, p) ==
    {g \in Owners : /\ gs[g] # None
                    /\ gs[g].phase \in {"committing", "dispatched"}
                    /\ gs[g].provider_id = p}

Attached(h, gs, p) ==
    {g \in OnWire(gs, p) : h[p] # None /\ lease_matches(h[p], gs[g])}

\* What a step does to one provider: its record goes from e to x, its guards on
\* the wire from w to v.
Rests(e, x, w, v) == x.state = e.state /\ Probe(x) = Probe(e) /\ v = w

Trips(e, x, w, v) ==
    e.state = "CLOSED" /\ x.state = "OPEN" /\ Probe(x) = {} /\ v = w

Resets(x, w, v) == x.state = "CLOSED" /\ Probe(x) = {} /\ v = w

Starts(g, e, x, w, v) ==
    /\ e.state = "OPEN" /\ x.state = "OPEN"
    /\ Probe(e) = {} /\ Probe(x) = {g}
    /\ g \notin w /\ v = w \cup {g}

Recovers(g, e, x, w, v) ==
    /\ e.state = "OPEN" /\ x.state = "CLOSED"
    /\ Probe(e) = {g} /\ Probe(x) = {}
    /\ v = w \ {g}

Ends(g, e, x, w, v) ==
    /\ g \in w
    /\ x.state = e.state /\ Probe(x) = Probe(e) \ {g}
    /\ v = w \ {g}

LeaseStep(e, x, w, v) ==
    \/ Rests(e, x, w, v)
    \/ Trips(e, x, w, v)
    \/ Resets(x, w, v)
    \/ \E g \in Owners : \/ Starts(g, e, x, w, v)
                         \/ Recovers(g, e, x, w, v)
                         \/ Ends(g, e, x, w, v)

\* A guard on the wire owns the lease of its provider exactly when it is the
\* probe the lease names.
LEMMA ProbeIsOwned ==
    ASSUME NEW h, NEW gs, Safe(h, gs), NEW p \in Providers, h[p] # None,
           NEW g \in Owners, gs[g] # None, gs[g].provider_id = p
    PROVE  g \in Probe(h[p]) <=> owns_dispatched_lease(h[p], gs[g])
<1>1. gs[g].owner_trace_id = g
  BY DEF Safe, GuardSafe
<1>2. LeaseSafe(h, gs, p)
  BY DEF Safe
<1>3. ASSUME g \in Probe(h[p])
      PROVE  owns_dispatched_lease(h[p], gs[g])
  BY <1>1, <1>2, <1>3
     DEF Probe, LeaseSafe, lease_dispatched, lease_matches, owns_dispatched_lease
<1>4. ASSUME owns_dispatched_lease(h[p], gs[g])
      PROVE  g \in Probe(h[p])
  BY <1>1, <1>4 DEF Probe, lease_matches, owns_dispatched_lease
<1> QED
  BY <1>3, <1>4

\* The probes of a provider whose outcome counts are the one its lease names; it
\* is on the wire, and the circuit is OPEN.
LEMMA AttachedIsProbe ==
    ASSUME NEW h, NEW gs, Safe(h, gs), NEW p \in Providers
    PROVE  LET e == entry_of(h, p)
           IN  /\ Attached(h, gs, p) = Probe(e)
               /\ Probe(e) \subseteq OnWire(gs, p)
               /\ Probe(e) # {} => e.state = "OPEN"
               /\ e.state \in {"CLOSED", "OPEN"}
<1> DEFINE e == entry_of(h, p)
<1>1. /\ WellFormed(e)
      /\ h[p] # None => e = h[p]
      /\ h[p] = None => e.probe_lease = None
  BY EntryIsWellFormed DEF Safe
<1>2. e.state \in {"CLOSED", "OPEN"}
  BY <1>1 DEF WellFormed, ProviderHealth
<1>3. LeaseSafe(h, gs, p)
  BY DEF Safe
<1> HIDE DEF e
<1>4. CASE h[p] = None
  BY <1>1, <1>2, <1>4 DEF Attached, Probe, lease_dispatched, e
<1>5. CASE h[p] # None
  <2>1. ASSUME NEW g \in Probe(e)
        PROVE  /\ g \in OnWire(gs, p)
               /\ lease_matches(e, gs[g])
               /\ e.state = "OPEN"
    <3>1. /\ e.probe_lease # None
          /\ e.probe_lease.dispatched_at # None
          /\ g = e.probe_lease.owner_trace_id
      BY <2>1 DEF Probe, lease_dispatched
    <3>2. g \in Owners
      BY <1>1, <3>1 DEF WellFormed, ProviderHealth, Optional, ProbeLeaseState
    <3>3. gs[g].owner_trace_id = g /\ gs[g] # None
      BY <1>1, <1>3, <1>5, <3>1, <3>2 DEF Safe, GuardSafe, LeaseSafe
    <3> QED
      BY <1>1, <1>3, <1>5, <3>1, <3>2, <3>3 DEF LeaseSafe, OnWire, lease_matches
  <2>2. ASSUME NEW g \in Attached(h, gs, p)
        PROVE  g \in Probe(e)
    <3>1. /\ g \in Owners
          /\ gs[g] # None
          /\ gs[g].phase \in {"committing", "dispatched"}
          /\ lease_matches(e, gs[g])
      BY <1>1, <1>5, <2>2 DEF Attached, OnWire
    <3>2. gs[g].owner_trace_id = g
      BY <3>1 DEF Safe, GuardSafe
    <3> QED
      BY <1>1, <1>3, <1>5, <3>1, <3>2
         DEF LeaseSafe, Probe, lease_dispatched, lease_matches
  <2> QED
    BY <1>1, <1>2, <1>5, <2>1, <2>2 DEF Attached, e
<1> QED
  BY <1>4, <1>5

\* A step of one provider is a step of the abstract specification.
LEMMA StepOfLease ==
    ASSUME Safe(health, guards), Safe(health', guards'), NEW p \in Providers,
           LeaseStep(entry_of(health, p), entry_of(health', p),
                     OnWire(guards, p), OnWire(guards', p)),
           \A q \in Providers \ {p} :
              Rests(entry_of(health, q), entry_of(health', q),
                    OnWire(guards, q), OnWire(guards', q))
    PROVE  [Lease!Next]_(Lease!vars)
<1> DEFINE circuit == [q \in Providers |->
                          IF Known(q) THEN health[q].state ELSE "CLOSED"]
           attached == [q \in Providers |-> probes_of(q, TRUE)]
           detached == [q \in Providers |-> probes_of(q, FALSE)]
           e(q) == entry_of(health, q)
           x(q) == entry_of(health', q)
           w(q) == OnWire(guards, q)
           v(q) == OnWire(guards', q)
<1>1. ASSUME NEW q \in Providers
      PROVE  /\ circuit[q] = e(q).state
             /\ attached[q] = Probe(e(q))
             /\ detached[q] = w(q) \ Probe(e(q))
  <2>1. probes_of(q, TRUE) = Attached(health, guards, q)
        /\ probes_of(q, FALSE) = w(q) \ Attached(health, guards, q)
    BY DEF probes_of, Attached, OnWire, InFlight, Holds, Known
  <2>2. circuit[q] = e(q).state
    BY DEF entry_of, Known, closed
  <2> QED
    BY <2>1, <2>2, AttachedIsProbe
<1>2. ASSUME NEW q \in Providers
      PROVE  /\ circuit'[q] = x(q).state
             /\ attached'[q] = Probe(x(q))
             /\ detached'[q] = v(q) \ Probe(x(q))
  <2>1. probes_of(q, TRUE)' = Attached(health', guards', q)
        /\ probes_of(q, FALSE)' = v(q) \ Attached(health', guards', q)
    BY DEF probes_of, Attached, OnWire, InFlight, Holds, Known
  <2>2. circuit'[q] = x(q).state
    BY DEF entry_of, Known, closed
  <2> QED
    BY <2>1, <2>2, AttachedIsProbe
<1>3. /\ circuit = [q \in Providers |-> circuit[q]]
      /\ attached = [q \in Providers |-> attached[q]]
      /\ detached = [q \in Providers |-> detached[q]]
      /\ circuit' = [q \in Providers |-> circuit'[q]]
      /\ attached' = [q \in Providers |-> attached'[q]]
      /\ detached' = [q \in Providers |-> detached'[q]]
  OBVIOUS
<1>4. /\ Probe(e(p)) \subseteq w(p)
      /\ Probe(e(p)) # {} => e(p).state = "OPEN"
      /\ Probe(x(p)) \subseteq v(p)
  BY AttachedIsProbe
<1>5. [Lease!Next]_(Lease!vars) <=>
        \/ \E q \in Providers :
              \/ /\ circuit[q] = "CLOSED"
                 /\ circuit' = [circuit EXCEPT ![q] = "OPEN"]
                 /\ attached' = attached /\ detached' = detached
              \/ /\ circuit' = [circuit EXCEPT ![q] = "CLOSED"]
                 /\ detached' = [detached EXCEPT ![q] = @ \cup attached[q]]
                 /\ attached' = [attached EXCEPT ![q] = {}]
              \/ \E g \in Owners :
                    \/ /\ circuit[q] = "OPEN"
                       /\ attached[q] = {}
                       /\ attached' = [attached EXCEPT ![q] = {g}]
                       /\ circuit' = circuit /\ detached' = detached
                    \/ /\ g \in attached[q]
                       /\ circuit[q] = "OPEN"
                       /\ circuit' = [circuit EXCEPT ![q] = "CLOSED"]
                       /\ attached' = [attached EXCEPT ![q] = {}]
                       /\ detached' = detached
                    \/ /\ g \in attached[q] \cup detached[q]
                       /\ attached' = [attached EXCEPT ![q] = @ \ {g}]
                       /\ detached' = [detached EXCEPT ![q] = @ \ {g}]
                       /\ circuit' = circuit
        \/ circuit' = circuit /\ attached' = attached /\ detached' = detached
  BY DEF Lease!Next, Lease!vars, Lease!Trip, Lease!Reset, Lease!Start, Lease!Recover,
         Lease!End
<1> HIDE DEF circuit, attached, detached
<1>6. \A q \in Providers \ {p} : /\ circuit'[q] = circuit[q]
                                 /\ attached'[q] = attached[q]
                                 /\ detached'[q] = detached[q]
  BY <1>1, <1>2 DEF Rests
<1>7. /\ LeaseStep(e(p), x(p), w(p), v(p))
      /\ circuit[p] = e(p).state /\ circuit'[p] = x(p).state
      /\ attached[p] = Probe(e(p)) /\ attached'[p] = Probe(x(p))
      /\ detached[p] = w(p) \ Probe(e(p)) /\ detached'[p] = v(p) \ Probe(x(p))
  BY <1>1, <1>2
<1> HIDE DEF e, x, w, v
<1>8. CASE Rests(e(p), x(p), w(p), v(p))
  <2>1. \A q \in Providers : /\ circuit'[q] = circuit[q]
                             /\ attached'[q] = attached[q]
                             /\ detached'[q] = detached[q]
    BY <1>6, <1>7, <1>8 DEF Rests
  <2> QED
    BY <1>3, <1>5, <2>1
<1>9. CASE Trips(e(p), x(p), w(p), v(p))
  <2>1. /\ circuit[p] = "CLOSED"
        /\ circuit' = [circuit EXCEPT ![p] = "OPEN"]
    BY <1>3, <1>6, <1>7, <1>9 DEF Trips
  <2>2. attached'[p] = attached[p] /\ detached'[p] = detached[p]
    BY <1>4, <1>7, <1>9 DEF Trips
  <2>3. attached' = attached /\ detached' = detached
    BY <1>3, <1>6, <2>2
  <2> QED
    BY <1>5, <2>1, <2>3
<1>10. CASE Resets(x(p), w(p), v(p))
  <2>1. /\ circuit' = [circuit EXCEPT ![p] = "CLOSED"]
        /\ attached' = [attached EXCEPT ![p] = {}]
    BY <1>3, <1>6, <1>7, <1>10 DEF Resets
  <2>2. detached'[p] = detached[p] \cup attached[p]
    BY <1>4, <1>7, <1>10 DEF Resets
  <2>3. detached' = [detached EXCEPT ![p] = @ \cup attached[p]]
    BY <1>3, <1>6, <2>2
  <2> QED
    BY <1>5, <2>1, <2>3
<1>11. ASSUME NEW g \in Owners, Starts(g, e(p), x(p), w(p), v(p))
       PROVE  [Lease!Next]_(Lease!vars)
  <2>1. /\ circuit[p] = "OPEN"
        /\ attached[p] = {}
        /\ attached' = [attached EXCEPT ![p] = {g}]
    BY <1>3, <1>6, <1>7, <1>11 DEF Starts
  <2>2. circuit'[p] = circuit[p] /\ detached'[p] = detached[p]
    BY <1>7, <1>11 DEF Starts
  <2>3. circuit' = circuit /\ detached' = detached
    BY <1>3, <1>6, <2>2
  <2> QED
    BY <1>5, <2>1, <2>3
<1>12. ASSUME NEW g \in Owners, Recovers(g, e(p), x(p), w(p), v(p))
       PROVE  [Lease!Next]_(Lease!vars)
  <2>1. /\ g \in attached[p]
        /\ circuit[p] = "OPEN"
        /\ circuit' = [circuit EXCEPT ![p] = "CLOSED"]
        /\ attached' = [attached EXCEPT ![p] = {}]
    BY <1>3, <1>6, <1>7, <1>12 DEF Recovers
  <2>2. detached'[p] = detached[p]
    BY <1>7, <1>12 DEF Recovers
  <2>3. detached' = detached
    BY <1>3, <1>6, <2>2
  <2> QED
    BY <1>5, <2>1, <2>3
<1>13. ASSUME NEW g \in Owners, Ends(g, e(p), x(p), w(p), v(p))
       PROVE  [Lease!Next]_(Lease!vars)
  <2>1. g \in attached[p] \cup detached[p]
    BY <1>7, <1>13 DEF Ends
  <2>2. /\ circuit'[p] = circuit[p]
        /\ attached'[p] = attached[p] \ {g}
        /\ detached'[p] = detached[p] \ {g}
    BY <1>7, <1>13 DEF Ends
  <2>3. /\ circuit' = circuit
        /\ attached' = [attached EXCEPT ![p] = @ \ {g}]
        /\ detached' = [detached EXCEPT ![p] = @ \ {g}]
    BY <1>3, <1>6, <2>2
  <2> QED
    BY <1>5, <2>1, <2>3
<1> QED
  BY <1>7, <1>8, <1>9, <1>10, <1>11, <1>12, <1>13 DEF LeaseStep

\* A step that leaves the leases and the wire of every provider alone.
LEMMA EveryoneRests ==
    ASSUME Safe(health, guards), Safe(health', guards'),
           \A q \in Providers :
              Rests(entry_of(health, q), entry_of(health', q),
                    OnWire(guards, q), OnWire(guards', q))
    PROVE  [Lease!Next]_(Lease!vars)
<1>1. CASE Providers = {}
  BY <1>1 DEF Lease!vars
<1>2. CASE Providers # {}
  BY <1>2, StepOfLease DEF LeaseStep
<1> QED
  BY <1>1, <1>2

\* A call on the record of p, made by the owner of the guard g or by nobody who
\* has one: the other providers rest.
LEMMA CallOfLease ==
    ASSUME Safe(health, guards), Safe(health', guards'), NEW p \in Providers,
           NEW x, x # None, Put(p, x),
           LeaseStep(entry_of(health, p), x, OnWire(guards, p), OnWire(guards', p)),
           \A q \in Providers \ {p} : OnWire(guards', q) = OnWire(guards, q)
    PROVE  [Lease!Next]_(Lease!vars)
<1>1. health \in [Providers -> Optional(ProviderHealth)]
  BY DEF Safe, HealthSafe
<1>2. /\ entry_of(health', p) = x
      /\ \A q \in Providers \ {p} : entry_of(health', q) = entry_of(health, q)
  BY <1>1 DEF Put, entry_of
<1>3. \A q \in Providers \ {p} :
         Rests(entry_of(health, q), entry_of(health', q),
               OnWire(guards, q), OnWire(guards', q))
  BY <1>2 DEF Rests
<1> QED
  BY <1>2, <1>3, StepOfLease

\* Nobody else's call moves a probe.
LEMMA KeptLeaseRests ==
    ASSUME NEW e, NEW x, KeepsLease(e, x), NEW w
    PROVE  Rests(e, x, w, w)
BY DEF KeepsLease, Rests, Probe, lease_dispatched

\* Only the guard that changes may enter or leave the wire.
LEMMA WireChanges ==
    ASSUME NEW gs \in [Owners -> Optional(ProbeLeaseGuard)],
           NEW ks \in [Owners -> Optional(ProbeLeaseGuard)],
           NEW g \in Owners, \A f \in Owners \ {g} : ks[f] = gs[f],
           NEW p, gs[g] # None => gs[g].provider_id = p,
           ks[g] # None => ks[g].provider_id = p
    PROVE  /\ \A q \in Providers \ {p} : OnWire(ks, q) = OnWire(gs, q)
           /\ OnWire(ks, p) =
                IF ks[g] # None /\ ks[g].phase \in {"committing", "dispatched"}
                THEN OnWire(gs, p) \cup {g} ELSE OnWire(gs, p) \ {g}
           /\ g \in OnWire(gs, p) <=>
                gs[g] # None /\ gs[g].phase \in {"committing", "dispatched"}
BY DEF OnWire

\* Calls without a lease, and hot reloads.
LEMMA ProviderStepOfLease ==
    ASSUME Scalars, Safe(health, guards), Safe(health', guards'),
           NEW p \in Providers, ProviderStep(p)
    PROVE  [Lease!Next]_(Lease!vars)
<1> DEFINE e == entry_of(health, p)
           w == OnWire(guards, p)
<1>1. guards' = guards
  BY DEF ProviderStep, Snapshot, ShouldAllow, RecordSuccess, RecordFailure,
         TriggerCooldown, Reset
<1>2. WellFormed(e) /\ e = IF Known(p) THEN health[p] ELSE closed
  BY EntryIsWellFormed DEF Safe, entry_of, Known
<1>3. Known(p) => e = health[p]
  BY <1>2
<1>4. ASSUME NEW x, WellFormed(x), Put(p, x), LeaseStep(e, x, w, w)
      PROVE  [Lease!Next]_(Lease!vars)
  <2>1. x # None
    BY <1>4, NoneAssumption DEF WellFormed
  <2> QED
    BY <1>1, <1>4, <2>1, CallOfLease
<1> HIDE DEF e, w
<1>5. ASSUME NEW x, WellFormed(x), Put(p, x), KeepsLease(e, x)
      PROVE  [Lease!Next]_(Lease!vars)
  BY <1>4, <1>5, KeptLeaseRests DEF LeaseStep
<1>6. CASE Snapshot(p)
  <2>1. PICK now \in CallTimes : Known(p) /\ Put(p, expire_runtime_state(health[p], now))
    BY <1>6 DEF Snapshot
  <2> QED
    BY <1>2, <1>3, <1>5, <2>1, CallArguments, ExpireRuntimeState
<1>7. CASE ShouldAllow(p)
  <2>1. PICK now \in CallTimes : Known(p) /\ Put(p, should_allow(health[p], now))
    BY <1>7 DEF ShouldAllow
  <2>2. CASE should_allow(e, now) # None
    BY <1>2, <1>3, <1>5, <2>1, <2>2, CallArguments, ShouldAllowEffect
  <2>3. CASE should_allow(e, now) = None
    <3>1. now \in Int /\ None \notin ProviderHealth
      BY CallArguments, NoneAssumption
    <3>2. e.state = "CLOSED" /\ Probe(e) = {}
      BY <1>2, <2>3, <3>1, ShouldAllowEffect DEF WellFormed, Probe, lease_dispatched
    <3>3. health \in [Providers -> Optional(ProviderHealth)]
      BY DEF Safe, HealthSafe
    <3>4. /\ health'[p] = None
          /\ \A q \in Providers \ {p} : health'[q] = health[q]
      BY <1>3, <2>1, <2>3, <3>3 DEF Put
    <3>5. closed.state = "CLOSED" /\ Probe(closed) = {}
      BY DEF closed, Probe, lease_dispatched
    <3>6. \A q \in Providers :
             Rests(entry_of(health, q), entry_of(health', q),
                   OnWire(guards, q), OnWire(guards', q))
      BY <1>1, <3>2, <3>4, <3>5 DEF Rests, entry_of, e
    <3> QED
      BY <3>6, EveryoneRests
  <2> QED
    BY <2>2, <2>3
<1>8. CASE RecordSuccess(p)
  <2>1. PICK now \in CallTimes : Known(p) /\ Put(p, record_success(health[p], now))
    BY <1>8 DEF RecordSuccess
  <2> QED
    BY <1>2, <1>3, <1>5, <2>1, CallArguments, RecordSuccessEffect
<1>9. CASE RecordFailure(p)
  <2>1. PICK now \in CallTimes, cfg \in ReadConfigs : Put(p, record_failure(cfg, e, now))
    BY <1>2, <1>9 DEF RecordFailure
  <2> DEFINE x == record_failure(cfg, e, now)
  <2>2. /\ WellFormed(x)
        /\ \/ KeepsLease(e, x)
           \/ e.state = "CLOSED" /\ x.state = "OPEN" /\ x.probe_lease = None
    BY <1>2, CallArguments, RecordFailureEffect
  <2> HIDE DEF x
  <2>3. CASE KeepsLease(e, x)
    BY <1>5, <2>1, <2>2, <2>3 DEF x
  <2>4. CASE e.state = "CLOSED" /\ x.state = "OPEN" /\ x.probe_lease = None
    <3>1. LeaseStep(e, x, w, w)
      BY <2>4 DEF LeaseStep, Trips, Probe, lease_dispatched
    <3> QED
      BY <1>4, <2>1, <2>2, <3>1 DEF x
  <2> QED
    BY <2>2, <2>3, <2>4
<1>10. CASE TriggerCooldown(p)
  <2>1. PICK now \in CallTimes, secs \in Cooldowns : Put(p, trigger_cooldown(e, now, secs))
    BY <1>2, <1>10 DEF TriggerCooldown
  <2>2. secs \in Int
    BY CircuitAssumption
  <2> QED
    BY <1>2, <1>5, <2>1, <2>2, CallArguments, TriggerCooldownEffect
<1>11. CASE Reset(p)
  <2>1. Known(p) /\ Put(p, reset(health[p]))
    BY <1>11 DEF Reset
  <2>2. WellFormed(reset(e)) /\ LeaseStep(e, reset(e), w, w)
    BY <1>2, ResetEffect DEF LeaseStep, Resets, Probe, lease_dispatched
  <2> QED
    BY <1>3, <1>4, <2>1, <2>2
<1> QED
  BY <1>6, <1>7, <1>8, <1>9, <1>10, <1>11 DEF ProviderStep

\* The clock and a hot reload.
LEMMA ReloadStepOfLease ==
    ASSUME Scalars, Safe(health, guards), Safe(health', guards'),
           Tick \/ PublishConfig \/ RewriteDeadlines \/ UNCHANGED vars
    PROVE  [Lease!Next]_(Lease!vars)
<1>1. guards' = guards
  BY DEF Tick, PublishConfig, RewriteDeadlines, vars
<1>2. CASE health' = health
  BY <1>1, <1>2, EveryoneRests DEF Rests
<1>3. CASE RewriteDeadlines
  <2> DEFINE natural == natural_timing_changed(reload.from, config)
  <2>1. \A q \in Providers : \/ health'[q] = health[q]
                             \/ /\ Known(q)
                                /\ health'[q] = reconfigured(config, health[q], natural)
    BY <1>3 DEF RewriteDeadlines
  <2>2. config \in Configs
    BY DEF Scalars
  <2>3. ASSUME NEW q \in Providers
        PROVE  Rests(entry_of(health, q), entry_of(health', q),
                     OnWire(guards, q), OnWire(guards', q))
    <3>1. CASE health'[q] = health[q]
      BY <1>1, <3>1 DEF Rests, entry_of
    <3>2. CASE /\ Known(q)
               /\ health'[q] = reconfigured(config, health[q], natural)
      <4> HIDE DEF natural
      <4>1. /\ WellFormed(health'[q])
            /\ health'[q].state = health[q].state
            /\ health'[q].probe_lease = health[q].probe_lease
        BY <2>2, <3>2, KnownRecord, ReconfiguredEffect DEF Known
      <4>2. health'[q] # None
        BY <4>1, NoneAssumption DEF WellFormed
      <4> QED
        BY <1>1, <3>2, <4>1, <4>2
           DEF Rests, Probe, lease_dispatched, entry_of, Known
    <3> QED
      BY <2>1, <3>1, <3>2
  <2> QED
    BY <2>3, EveryoneRests
<1> QED
  BY <1>2, <1>3 DEF Tick, PublishConfig, vars

\* The calls of the owner of a guard.
LEMMA GuardStepOfLease ==
    ASSUME Scalars, Safe(health, guards), Safe(health', guards'),
           NEW g \in Owners, GuardStep(g), guards[g] # None, ~DropGuard(g)
    PROVE  [Lease!Next]_(Lease!vars)
<1> DEFINE u == guards[g]
           p == u.provider_id
           e == health[p]
           w == OnWire(guards, p)
           wired == u.phase \in {"committing", "dispatched"}
<1>1. /\ u \in ProbeLeaseGuard
      /\ p \in Providers
      /\ e # None
      /\ WellFormed(e)
      /\ u.owner_trace_id = g
      /\ u.phase = "committing" => ready(u.before)
      /\ lease_matches(e, u) =>
            /\ e.state = "OPEN"
            /\ u.phase # "finished"
            /\ wired <=> e.probe_lease.dispatched_at # None
  BY GuardFacts
<1>2. /\ entry_of(health, p) = e
      /\ guards \in [Owners -> Optional(ProbeLeaseGuard)]
      /\ guards' \in [Owners -> Optional(ProbeLeaseGuard)]
  BY <1>1 DEF entry_of, Safe
<1>3. g \in Probe(e) <=> owns_dispatched_lease(e, u)
  BY <1>1, ProbeIsOwned
<1>4. owns_dispatched_lease(e, u) => e.state = "OPEN" /\ wired /\ Probe(e) = {g}
  BY <1>1 DEF owns_dispatched_lease, lease_matches, lease_dispatched, Probe
<1>5. g \in w <=> wired
  BY <1>1 DEF OnWire
<1>6. ASSUME NEW x, WellFormed(x), Put(p, x),
             \A f \in Owners \ {g} : guards'[f] = guards[f],
             guards'[g] # None,
             guards'[g].provider_id = p,
             IF guards'[g].phase \in {"committing", "dispatched"}
             THEN LeaseStep(e, x, w, w \cup {g})
             ELSE LeaseStep(e, x, w, w \ {g})
      PROVE  [Lease!Next]_(Lease!vars)
  <2>1. x # None
    BY <1>6, NoneAssumption DEF WellFormed
  <2>2. /\ \A q \in Providers \ {p} : OnWire(guards', q) = OnWire(guards, q)
        /\ OnWire(guards', p) =
             IF guards'[g].phase \in {"committing", "dispatched"}
             THEN w \cup {g} ELSE w \ {g}
    <3>1. guards[g] # None => guards[g].provider_id = p
      OBVIOUS
    <3> HIDE DEF p
    <3> QED
      BY <1>2, <1>6, <3>1, WireChanges
  <2>3. LeaseStep(entry_of(health, p), x, OnWire(guards, p), OnWire(guards', p))
    BY <1>2, <1>6, <2>2
  <2> HIDE DEF p
  <2> QED
    BY <1>1, <1>6, <2>1, <2>2, <2>3, CallOfLease
<1>7. CASE MarkDispatched(g)
  <2>1. PICK now \in CallTimes, cfg \in ReadConfigs :
          /\ u.phase = "pending"
          /\ Put(p, mark_probe_dispatched(cfg, e, u, now))
          /\ guards' =
                 IF mark_applies(e, u, now)
                 THEN [guards EXCEPT
                          ![g].phase = "committing",
                          ![g].before = deadlines_of(expire_runtime_state(e, now))]
                 ELSE guards
    BY <1>7 DEF MarkDispatched, Holds, Entry
  <2> DEFINE x == mark_probe_dispatched(cfg, e, u, now)
  <2>2. /\ WellFormed(x)
        /\ x.state = e.state
        /\ IF mark_applies(e, u, now)
           THEN /\ e.state = "OPEN"
                /\ lease_matches(e, u)
                /\ x.probe_lease # None
                /\ x.probe_lease.owner_trace_id = e.probe_lease.owner_trace_id
                /\ x.probe_lease.dispatched_at # None
           ELSE KeepsLease(e, x)
    BY <1>1, <2>1, CallArguments, MarkDispatchedEffect
  <2>3. Put(p, x) /\ g \notin w
    BY <1>5, <2>1
  <2> HIDE DEF x
  <2>4. CASE mark_applies(e, u, now)
    <3>1. /\ \A f \in Owners \ {g} : guards'[f] = guards[f]
          /\ guards'[g] # None
          /\ guards'[g].provider_id = p
          /\ guards'[g].phase = "committing"
      BY <1>1, <1>2, <2>1, <2>4, NoGuardAssumption DEF ProbeLeaseGuard, Optional
    <3>2. Probe(e) = {} /\ Probe(x) = {g}
      BY <1>1, <2>1, <2>2, <2>4 DEF Probe, lease_dispatched, lease_matches
    <3>3. LeaseStep(e, x, w, w \cup {g})
      BY <2>2, <2>3, <2>4, <3>2 DEF LeaseStep, Starts
    <3> QED
      BY <1>6, <2>2, <2>3, <3>1, <3>3
  <2>5. CASE ~mark_applies(e, u, now)
    <3>1. guards' = guards /\ w \ {g} = w
      BY <2>1, <2>3, <2>5
    <3>2. LeaseStep(e, x, w, w \ {g})
      BY <2>2, <2>5, <3>1, KeptLeaseRests DEF LeaseStep
    <3> QED
      BY <1>6, <2>1, <2>2, <2>3, <3>1, <3>2
  <2> QED
    BY <2>4, <2>5
<1>8. CASE CommitDispatch(g)
  <2>1. /\ u.phase = "committing"
        /\ guards' = [guards EXCEPT ![g].phase = "dispatched", ![g].before = None]
        /\ health' = health
    BY <1>8 DEF CommitDispatch, Holds
  <2>2. /\ \A f \in Owners \ {g} : guards'[f] = guards[f]
        /\ guards'[g] # None
        /\ guards'[g].provider_id = p
        /\ guards'[g].phase = "dispatched"
    BY <1>1, <1>2, <2>1, NoGuardAssumption DEF ProbeLeaseGuard, Optional
  <2>3. \A q \in Providers : OnWire(guards', q) = OnWire(guards, q)
    BY <2>1, <2>2 DEF OnWire
  <2> QED
    BY <2>1, <2>3, EveryoneRests DEF Rests
<1>9. CASE RollbackDispatched(g)
  <2> DEFINE x == rollback_probe_dispatch(e, u, u.before)
  <2>1. /\ u.phase = "committing"
        /\ Put(p, x)
        /\ guards' = [guards EXCEPT ![g].phase = "finished", ![g].before = None]
    BY <1>9 DEF RollbackDispatched, Holds, Entry
  <2>2. /\ WellFormed(x)
        /\ IF owns_dispatched_lease(e, u)
           THEN x.state = "OPEN" /\ x.probe_lease = None
           ELSE x = e
    BY <1>1, <2>1, RollbackEffect
  <2> HIDE DEF x
  <2>3. /\ \A f \in Owners \ {g} : guards'[f] = guards[f]
        /\ guards'[g] # None
        /\ guards'[g].provider_id = p
        /\ guards'[g].phase = "finished"
    BY <1>1, <1>2, <2>1, NoGuardAssumption DEF ProbeLeaseGuard, Optional
  <2>4. x.state = e.state /\ Probe(x) = Probe(e) \ {g}
    BY <1>3, <1>4, <2>2 DEF Probe, lease_dispatched
  <2>5. LeaseStep(e, x, w, w \ {g})
    BY <1>5, <2>1, <2>4 DEF LeaseStep, Ends
  <2> QED
    BY <1>6, <2>1, <2>2, <2>3, <2>5
<1>10. CASE RecordAttemptFailure(g)
  <2>1. PICK now \in CallTimes, counted \in BOOLEAN :
          /\ Put(p, record_probe_attempt_failure(e, u, now, counted))
          /\ u.phase = "dispatched"
          /\ guards' = guards
    BY <1>10 DEF RecordAttemptFailure, Entry, Holds
  <2> DEFINE x == record_probe_attempt_failure(e, u, now, counted)
  <2>2. WellFormed(x) /\ x.state = e.state /\ x.probe_lease = e.probe_lease
    BY <1>1, CallArguments, AttemptFailureEffect
  <2>3. Put(p, x)
    BY <2>1
  <2> HIDE DEF x
  <2>4. LeaseStep(e, x, w, w \cup {g})
    BY <1>5, <2>1, <2>2 DEF LeaseStep, Rests, Probe, lease_dispatched
  <2> QED
    BY <1>6, <2>1, <2>2, <2>3, <2>4
<1>11. CASE CompleteSuccess(g)
  <2> DEFINE epoch == global_recovery_epoch + 1
  <2>1. PICK now \in CallTimes :
          /\ Put(p, complete_probe_success(e, u, now, epoch))
          /\ u.phase = "dispatched"
          /\ guards' = [guards EXCEPT ![g].phase = "finished"]
    BY <1>11 DEF CompleteSuccess, Entry, SetPhase, Holds
  <2> DEFINE x == complete_probe_success(e, u, now, epoch)
  <2>2. epoch \in Nat /\ now \in Int
    BY CallArguments DEF Scalars
  <2> HIDE DEF epoch
  <2>3. /\ WellFormed(x)
        /\ success_applies(e, u, now) <=> owns_dispatched_lease(e, u) /\ e.state = "OPEN"
        /\ IF success_applies(e, u, now)
           THEN x.state = "CLOSED" /\ x.probe_lease = None
           ELSE KeepsLease(e, x)
    BY <1>1, <2>2, CompleteSuccessEffect
  <2>4. Put(p, x)
    BY <2>1
  <2> HIDE DEF x
  <2>5. /\ \A f \in Owners \ {g} : guards'[f] = guards[f]
        /\ guards'[g] # None
        /\ guards'[g].provider_id = p
        /\ guards'[g].phase = "finished"
    BY <1>1, <1>2, <2>1, NoGuardAssumption DEF ProbeLeaseGuard, Optional
  <2>6. CASE owns_dispatched_lease(e, u)
    <3>1. LeaseStep(e, x, w, w \ {g})
      BY <1>4, <2>3, <2>6 DEF LeaseStep, Recovers, Probe, lease_dispatched
    <3> QED
      BY <1>6, <2>3, <2>4, <2>5, <3>1
  <2>7. CASE ~owns_dispatched_lease(e, u)
    <3>1. Rests(e, x, w, w)
      BY <2>3, <2>7, KeptLeaseRests
    <3>2. LeaseStep(e, x, w, w \ {g})
      BY <1>3, <1>5, <2>1, <2>7, <3>1 DEF LeaseStep, Ends, Rests
    <3> QED
      BY <1>6, <2>3, <2>4, <2>5, <3>2
  <2> QED
    BY <2>6, <2>7
<1>12. CASE CompleteFailure(g) \/ Abandon(g)
  <2>1. PICK now \in CallTimes, cfg \in ReadConfigs, counted \in BOOLEAN :
          /\ Put(p, finish_probe_failure(cfg, e, u, now, counted))
          /\ u.phase \in {"dispatched", "pending"}
          /\ \A f \in Owners \ {g} : guards'[f] = guards[f]
          /\ guards'[g] # None
          /\ guards'[g].provider_id = p
          /\ guards'[g].phase = "finished"
    <3>1. CASE CompleteFailure(g)
      <4>1. PICK now \in CallTimes, cfg \in ReadConfigs, counted \in BOOLEAN :
              /\ Put(p, finish_probe_failure(cfg, e, u, now, counted))
              /\ u.phase = "dispatched"
              /\ guards' = [guards EXCEPT
                     ![g].phase = "finished",
                     ![g].failed_revision =
                         IF lease_matches(expire_runtime_state(e, now), u)
                         THEN finish_probe_failure(cfg, e, u, now, counted).state_revision
                         ELSE None]
        BY <3>1 DEF CompleteFailure, Entry, Holds
      <4> DEFINE failed == IF lease_matches(expire_runtime_state(e, now), u)
                           THEN finish_probe_failure(cfg, e, u, now, counted).state_revision
                           ELSE None
                 n == [u EXCEPT !.phase = "finished", !.failed_revision = failed]
      <4>2. guards' = [guards EXCEPT ![g] = n]
        BY <1>2, <4>1
      <4>3. n # None /\ n.provider_id = p /\ n.phase = "finished"
        <5>1. failed \in Optional(Nat)
          BY <1>1, CallArguments, FinishFailureEffect
             DEF WellFormed, ProviderHealth, Optional
        <5> HIDE DEF failed
        <5> QED
          BY <1>1, <5>1, NoGuardAssumption DEF ProbeLeaseGuard
      <4> HIDE DEF n
      <4> QED
        BY <1>2, <4>1, <4>2, <4>3
    <3>2. CASE Abandon(g)
      <4>1. PICK now \in CallTimes, cfg \in ReadConfigs :
              /\ Put(p, finish_probe_failure(cfg, e, u, now, FALSE))
              /\ u.phase = "pending"
              /\ guards' = [guards EXCEPT ![g].phase = "finished"]
        BY <3>2 DEF Abandon, Entry, Holds, SetPhase
      <4>2. /\ \A f \in Owners \ {g} : guards'[f] = guards[f]
            /\ guards'[g] # None
            /\ guards'[g].provider_id = p
            /\ guards'[g].phase = "finished"
        BY <1>1, <1>2, <4>1, NoGuardAssumption DEF ProbeLeaseGuard
      <4> QED
        BY <4>1, <4>2
    <3> QED
      BY <1>12, <3>1, <3>2
  <2> DEFINE x == finish_probe_failure(cfg, e, u, now, counted)
  <2>2. /\ WellFormed(x)
        /\ ~lease_matches(x, u)
        /\ \/ KeepsLease(e, x)
           \/ /\ owns_dispatched_lease(e, u)
              /\ x.state = "OPEN"
              /\ x.probe_lease = None
    BY <1>1, CallArguments, FinishFailureEffect
  <2>3. Put(p, x)
    BY <2>1
  <2> HIDE DEF x
  <2>4. x.state = e.state /\ Probe(x) = Probe(e) \ {g}
    <3>1. CASE owns_dispatched_lease(e, u)
      BY <1>4, <2>2, <3>1 DEF KeepsLease, Probe, lease_dispatched, owns_dispatched_lease,
                              lease_matches
    <3>2. CASE ~owns_dispatched_lease(e, u)
      <4>1. Rests(e, x, w, w)
        BY <2>2, <3>2, KeptLeaseRests
      <4> QED
        BY <1>3, <3>2, <4>1 DEF Rests
    <3> QED
      BY <3>1, <3>2
  <2>5. ~wired => g \notin Probe(e) /\ w \ {g} = w
    BY <1>3, <1>4, <1>5
  <2>6. LeaseStep(e, x, w, w \ {g})
    BY <1>5, <2>4, <2>5 DEF LeaseStep, Ends, Rests
  <2> QED
    BY <1>6, <2>1, <2>2, <2>3, <2>6
<1>13. CASE FailClosed(g)
  <2> DEFINE x == fail_closed_after_probe_persist_error(e, u.failed_revision)
  <2>1. /\ u.phase = "finished"
        /\ Put(p, x)
        /\ guards' = [guards EXCEPT ![g].failed_revision = None]
    BY <1>13 DEF FailClosed, Entry, Holds
  <2>2. WellFormed(x) /\ x.state = e.state /\ x.probe_lease = e.probe_lease
    BY <1>1, FailClosedEffect
  <2> HIDE DEF x
  <2>3. /\ \A f \in Owners \ {g} : guards'[f] = guards[f]
        /\ guards'[g] # None
        /\ guards'[g].provider_id = p
        /\ guards'[g].phase = "finished"
    BY <1>1, <1>2, <2>1, NoGuardAssumption DEF ProbeLeaseGuard, Optional
  <2>4. LeaseStep(e, x, w, w \ {g})
    BY <1>5, <2>1, <2>2 DEF LeaseStep, Rests, Probe, lease_dispatched
  <2> QED
    BY <1>6, <2>1, <2>2, <2>3, <2>4
<1>14. ~ \E q \in Providers : AcquireProbe(g, q)
  BY DEF AcquireProbe
<1> QED
  BY <1>7, <1>8, <1>9, <1>10, <1>11, <1>12, <1>13, <1>14 DEF GuardStep

\* A guard that begins or goes away is not on the wire.
LEMMA GuardsComeAndGo ==
    ASSUME Scalars, Safe(health, guards), Safe(health', guards'), NEW g \in Owners,
           DropGuard(g) \/ \E p \in Providers : AcquireProbe(g, p)
    PROVE  [Lease!Next]_(Lease!vars)
<1>1. /\ guards \in [Owners -> Optional(ProbeLeaseGuard)]
      /\ guards' \in [Owners -> Optional(ProbeLeaseGuard)]
  BY DEF Safe
<1>2. /\ \A f \in Owners \ {g} : guards'[f] = guards[f]
      /\ guards[g] # None => guards[g].phase = "finished"
      /\ guards'[g] # None => guards'[g].phase = "pending"
  BY <1>1 DEF DropGuard, AcquireProbe, Holds
<1>3. \A q \in Providers : OnWire(guards', q) = OnWire(guards, q)
  BY <1>2 DEF OnWire
<1>4. CASE DropGuard(g)
  <2>1. health' = health
    BY <1>4 DEF DropGuard
  <2> QED
    BY <1>3, <2>1, EveryoneRests DEF Rests
<1>5. ASSUME NEW p \in Providers, AcquireProbe(g, p)
      PROVE  [Lease!Next]_(Lease!vars)
  <2>1. PICK now \in CallTimes : Known(p) /\ Put(p, try_acquire_probe(health[p], g, now))
    BY <1>5 DEF AcquireProbe
  <2> DEFINE e == health[p]
             x == try_acquire_probe(e, g, now)
  <2>2. WellFormed(e) /\ entry_of(health, p) = e /\ now \in Int
    BY <2>1, CallArguments, KnownRecord DEF Known
  <2>3. /\ WellFormed(x)
        /\ x.state = e.state
        /\ \/ KeepsLease(e, x)
           \/ /\ e.probe_lease = None \/ ~lease_dispatched(e)
              /\ x.probe_lease.dispatched_at = None
    BY <2>2, AcquireEffect
  <2>4. Put(p, x)
    BY <2>1
  <2> HIDE DEF x, e
  <2>5. Rests(e, x, OnWire(guards, p), OnWire(guards', p))
    BY <1>3, <2>3 DEF KeepsLease, Rests, Probe, lease_dispatched
  <2>6. x # None
    BY <2>3, NoneAssumption DEF WellFormed
  <2> QED
    BY <1>3, <2>2, <2>4, <2>5, <2>6, CallOfLease DEF LeaseStep
<1> QED
  BY <1>4, <1>5

\* The circuit breaker implements the abstract specification of recovery probes:
\* a provider has at most one probe whose outcome counts, and an OPEN circuit is
\* closed by that probe or by a reset, whatever runs between their calls.
THEOREM Implementation == Spec => ImplementsProbeLease
<1>1. Init => Lease!Init
  <2> SUFFICES ASSUME Init PROVE Lease!Init
    OBVIOUS
  <2>1. SafetyInvariant
    BY InitIsSafe
  <2>2. \A p \in Providers : Known(p) => health[p].state \in {"CLOSED", "OPEN"}
    BY <2>1 DEF SafetyInvariant, TypeOK, Optional, ProviderHealth, Known
  <2>3. \A p \in Providers : probes_of(p, TRUE) = {} /\ probes_of(p, FALSE) = {}
    BY DEF Init, probes_of, InFlight, Holds
  <2> QED
    BY <2>2, <2>3 DEF Lease!Init
<1>2. SafetyInvariant /\ SafetyInvariant' /\ [Next]_vars => [Lease!Next]_(Lease!vars)
  <2> SUFFICES ASSUME SafetyInvariant, SafetyInvariant', [Next]_vars
               PROVE  [Lease!Next]_(Lease!vars)
    OBVIOUS
  <2>1. Scalars /\ Safe(health, guards)
    BY SafetyIsSafe
  <2>2. Safe(health', guards')
    <3>1. SafetyInvariant' <=> (Scalars /\ Safe(health, guards))'
      BY SafetyIsSafe, PTL
    <3> QED
      BY <3>1
  <2>3. CASE Tick \/ PublishConfig \/ RewriteDeadlines \/ UNCHANGED vars
    BY <2>1, <2>2, <2>3, ReloadStepOfLease
  <2>4. ASSUME NEW p \in Providers, ProviderStep(p)
        PROVE  [Lease!Next]_(Lease!vars)
    BY <2>1, <2>2, <2>4, ProviderStepOfLease
  <2>5. ASSUME NEW g \in Owners, GuardStep(g)
        PROVE  [Lease!Next]_(Lease!vars)
    <3>1. CASE DropGuard(g) \/ \E p \in Providers : AcquireProbe(g, p)
      BY <2>1, <2>2, <3>1, GuardsComeAndGo
    <3>2. CASE ~DropGuard(g) /\ ~ \E p \in Providers : AcquireProbe(g, p)
      <4>1. guards[g] # None
        BY <2>5, <3>2 DEF GuardStep, MarkDispatched, CommitDispatch, RollbackDispatched,
                          RecordAttemptFailure, CompleteSuccess, CompleteFailure, Abandon,
                          FailClosed, Holds
      <4> QED
        BY <2>1, <2>2, <2>5, <3>2, <4>1, GuardStepOfLease
    <3> QED
      BY <3>1, <3>2
  <2> QED
    BY <2>3, <2>4, <2>5 DEF Next
<1> QED
  BY <1>1, <1>2, SafetyInvariance, PTL DEF Spec, ImplementsProbeLease, Lease!Spec

=============================================================================
