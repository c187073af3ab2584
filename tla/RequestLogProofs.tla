--------------------------- MODULE RequestLogProofs ---------------------------
(***************************************************************************)
(* Theorems about RequestLog: the inductive invariant and the safety       *)
(* properties that follow from it, and that the closed form of a batch     *)
(* upserts its inserts one after the other.                                *)
(***************************************************************************)
EXTENDS RequestLog, WellFoundedInduction, TLAPS

------------------------------------------------------------------------------
(* The inductive invariant.                                                *)

\* An insert is with a write-through task, in a queue or in a batch.
OnItsWay(i) ==
    \/ i \in through
    \/ \E g \in Gateways : i \in ToSet(queue[g]) \cup ToSet(batch[g])

Statuses == Ends \cup {"pending"}

Carries(r, s) == OnItsWay([request |-> r, status |-> s])

\* The end is set by the step that leaves these places.
Unended == {"new", "entering", "placing", "serving", "streaming"}

\* Once the placeholder may be seeded, until the handler is gone.
Seeded == {"serving", "reporting", "streaming", "done"}

\* Where the handler is tells whether an end was reported, whether a guard or stream
\* context is armed, and whether a task may have been spawned.
EndFitsPlace(r) ==
    /\ place[r] \in Unended => end[r] = None
    /\ place[r] \in {"early", "reporting"} => end[r] # None
    /\ place[r] # "new" => gateway[r] \in Gateways
    /\ r \in active => place[r] \in {"placing", "serving", "streaming"}
    /\ r \in tasks => place[r] = "done" /\ end[r] # None

\* Only the end reported last is on its way, and only after the handler is gone: a
\* second report comes while the first one still waits in the handler.
CarriesReport(r) ==
    \A s \in Statuses : Carries(r, s) =>
        /\ place[r] \in Seeded
        /\ s # "pending" => place[r] = "done" /\ s = end[r]
        /\ place[r] = "done" => end[r] # None

RowFitsPlace(r) ==
    /\ rows[r] # None => /\ place[r] \in Seeded \cup {"killed"}
                         /\ place[r] = "done" => end[r] # None
    /\ rows[r] \in Ends => place[r] = "done" /\ rows[r] = end[r]
    /\ startup = "ready" /\ place[r] = "killed" => rows[r] # "pending"

Accounted(r) ==
    place[r] \in {"done", "killed"} /\ end[r] # None =>
        rows[r] = end[r] \/ r \in tasks \/ Carries(r, end[r]) \/ lost[r] # None

RequestOK(r) == EndFitsPlace(r) /\ CarriesReport(r) /\ RowFitsPlace(r) /\ Accounted(r)

SafetyInvariant ==
    /\ TypeOK
    /\ phase # "stopped" => started \in Gateways
    /\ \A r \in Requests : RequestOK(r)

------------------------------------------------------------------------------
(* Numbers and sequences.                                                  *)

\* A set of naturals that is not empty has a least element.
LEMMA Least ==
    ASSUME NEW S \in SUBSET Nat, S # {}
    PROVE  \E x \in S : \A y \in S : x <= y
<1> DEFINE R == OpToRel(<, Nat)
<1>1. IsWellFoundedOn(R, Nat)
  BY NatLessThanWellFounded, Zenon
<1>2. PICK x \in S : \A y \in S : <<y, x>> \notin R
  <2> HIDE DEF R
  <2> QED
    BY <1>1, WFMin, Zenon
<1>3. \A y \in S : ~ (y < x)
  BY <1>2, Zenon DEF OpToRel
<1>4. \A y \in S : y \in Nat /\ x \in Nat
  OBVIOUS
<1> HIDE DEF R
<1>5. \A y \in S : x <= y
  BY <1>3, <1>4
<1> QED
  BY <1>5

\* A set of numbers up to n that is not empty has a greatest element.
LEMMA Greatest ==
    ASSUME NEW n \in Nat, NEW S \in SUBSET (1 .. n), S # {}
    PROVE  Max(S) \in S /\ \A y \in S : y <= Max(S)
<1> DEFINE T == {k \in Nat : n - k \in S}
<1>1. PICK s : s \in S
  OBVIOUS
<1>2. n - s \in T
  BY <1>1
<1>3. T \in SUBSET Nat
  OBVIOUS
<1>4. PICK x \in T : \A y \in T : x <= y
  <2> HIDE DEF T
  <2> QED
    BY Least, <1>2, <1>3
<1>5. \A y \in S : n - y \in T
  OBVIOUS
<1>6. n - x \in S /\ \A y \in S : n - x >= y
  BY <1>4, <1>5
<1>7. \A y \in S : y \in Nat /\ Max(S) = CHOOSE m \in S : \A k \in S : m >= k
  BY DEF Max
<1>8. Max(S) \in S /\ \A y \in S : Max(S) >= y
  <2> HIDE DEF T
  <2> QED
    BY <1>6 DEF Max
<1> QED
  BY <1>7, <1>8

\* A bounded sequence is a sequence of at most that length.
LEMMA BoundedSeqs ==
    ASSUME NEW S, NEW n \in Nat
    PROVE  \A s : s \in BoundedSeq(S, n) <=> s \in Seq(S) /\ Len(s) <= n
<1>1. ASSUME NEW s, s \in BoundedSeq(S, n)
      PROVE  s \in Seq(S) /\ Len(s) <= n
  <2>1. PICK m \in 0 .. n : s \in [1 .. m -> S]
    BY <1>1 DEF BoundedSeq, SeqOf
  <2> QED
    BY <2>1
<1>2. ASSUME NEW s, s \in Seq(S), Len(s) <= n
      PROVE  s \in BoundedSeq(S, n)
  <2>1. s \in [1 .. Len(s) -> S] /\ Len(s) \in 0 .. n
    BY <1>2
  <2> QED
    BY <2>1 DEF BoundedSeq, SeqOf
<1> QED
  BY <1>1, <1>2

\* The empty sequence is within every bound.
LEMMA EmptyIsBounded ==
    ASSUME NEW S, NEW n \in Nat
    PROVE  <<>> \in BoundedSeq(S, n)
<1>1. <<>> \in Seq(S) /\ Len(<<>>) = 0
  OBVIOUS
<1>2. Len(<<>>) <= n
  BY <1>1
<1> QED
  BY <1>1, <1>2, BoundedSeqs

\* An append adds its element.
LEMMA AppendAdds ==
    ASSUME NEW S, NEW s \in Seq(S), NEW i \in S
    PROVE  ToSet(Append(s, i)) = ToSet(s) \cup {i}
<1>1. Append(s, i) \in Seq(S) /\ Len(Append(s, i)) = Len(s) + 1
  OBVIOUS
<1>2. DOMAIN Append(s, i) = 1 .. Len(s) + 1 /\ DOMAIN s = 1 .. Len(s)
  BY <1>1
<1>3. \A k \in 1 .. Len(s) : Append(s, i)[k] = s[k]
  OBVIOUS
<1>4. Append(s, i)[Len(s) + 1] = i
  OBVIOUS
<1>5. 1 .. Len(s) + 1 = 1 .. Len(s) \cup {Len(s) + 1}
  OBVIOUS
<1> QED
  BY <1>2, <1>3, <1>4, <1>5 DEF ToSet

\* The two halves of a sequence hold what it holds.
LEMMA HalvesHold ==
    ASSUME NEW S, NEW s \in Seq(S), NEW n \in 0 .. Len(s)
    PROVE  /\ SubSeq(s, 1, n) \in Seq(S) /\ Len(SubSeq(s, 1, n)) = n
           /\ SubSeq(s, n + 1, Len(s)) \in Seq(S)
           /\ Len(SubSeq(s, n + 1, Len(s))) <= Len(s)
           /\ ToSet(s) = ToSet(SubSeq(s, 1, n)) \cup ToSet(SubSeq(s, n + 1, Len(s)))
<1> DEFINE a == SubSeq(s, 1, n)
           b == SubSeq(s, n + 1, Len(s))
<1>1. a \in Seq(S) /\ Len(a) = n /\ \A k \in 1 .. n : a[k] = s[k]
  OBVIOUS
<1>2. b \in Seq(S) /\ Len(b) = Len(s) - n /\ \A k \in 1 .. Len(s) - n : b[k] = s[n + k]
  OBVIOUS
<1>3. DOMAIN a = 1 .. n /\ DOMAIN b = 1 .. Len(s) - n /\ DOMAIN s = 1 .. Len(s)
  BY <1>1, <1>2
<1> HIDE DEF a, b
<1>4. ASSUME NEW x \in ToSet(s) PROVE x \in ToSet(a) \cup ToSet(b)
  <2>1. PICK k \in 1 .. Len(s) : x = s[k]
    BY <1>3 DEF ToSet
  <2>2. CASE k <= n
    BY <1>1, <1>3, <2>1, <2>2 DEF ToSet
  <2>3. CASE k > n
    <3>1. k - n \in 1 .. Len(s) - n /\ b[k - n] = x
      BY <1>2, <2>1, <2>3
    <3> QED
      BY <1>3, <3>1 DEF ToSet
  <2> QED
    BY <2>2, <2>3
<1>5. ASSUME NEW x \in ToSet(a) PROVE x \in ToSet(s)
  BY <1>1, <1>3 DEF ToSet
<1>6. ASSUME NEW x \in ToSet(b) PROVE x \in ToSet(s)
  <2>1. PICK k \in 1 .. Len(s) - n : x = b[k]
    BY <1>3 DEF ToSet
  <2>2. n + k \in 1 .. Len(s) /\ s[n + k] = x
    BY <1>2, <2>1
  <2> QED
    BY <1>3, <2>2 DEF ToSet
<1>7. ToSet(s) = ToSet(a) \cup ToSet(b)
  BY <1>4, <1>5, <1>6
<1>8. Len(b) <= Len(s)
  BY <1>2
<1> QED
  BY <1>1, <1>2, <1>7, <1>8 DEF a, b

\* The empty sequence holds nothing.
LEMMA EmptyHolds == ToSet(<<>>) = {}
BY DEF ToSet

------------------------------------------------------------------------------
(* The inserts of a batch.                                                 *)

RowStates == Ends \cup {"pending", "reconciled", None}

\* One upsert writes the row of its request, a placeholder only over none.
LEMMA UpsertWrites ==
    ASSUME NEW table \in [Requests -> RowStates], NEW i \in Insert
    PROVE  /\ Upserted(table, i) \in [Requests -> RowStates]
           /\ \A r \in Requests : r # i.request => Upserted(table, i)[r] = table[r]
           /\ i.status # "pending" => Upserted(table, i)[i.request] = i.status
           /\ i.status = "pending" =>
                Upserted(table, i)[i.request] =
                    IF table[i.request] \in {None, "pending"} THEN "pending"
                    ELSE table[i.request]
<1>1. i.request \in Requests /\ i.status \in Ends \cup {"pending"}
  BY DEF Insert
<1> QED
  BY <1>1 DEF Upserted, RowStates, Ends

\* The decisive insert is one of the request, and an end when there is one.
LEMMA DecisiveIsHeld ==
    ASSUME NEW s \in Seq(Insert), NEW r \in Requests, Of(s, r) # {}
    PROVE  /\ Decisive(s, r) \in ToSet(s) /\ Decisive(s, r) \in Insert
           /\ Decisive(s, r).request = r
           /\ (\E k \in Of(s, r) : s[k].status # "pending") =>
                Decisive(s, r).status # "pending"
<1> DEFINE ended == {k \in Of(s, r) : s[k].status # "pending"}
           among == IF ended # {} THEN ended ELSE Of(s, r)
<1>1. DOMAIN s = 1 .. Len(s) /\ Len(s) \in Nat
  OBVIOUS
<1>2. Of(s, r) \in SUBSET (1 .. Len(s))
  BY <1>1 DEF Of
<1>3. among \in SUBSET (1 .. Len(s)) /\ among # {} /\ among \subseteq Of(s, r)
  BY <1>2
<1>4. Max(among) \in among
  <2> HIDE DEF among
  <2> QED
    BY <1>1, <1>3, Greatest
<1>5. Decisive(s, r) = s[Max(among)]
  BY DEF Decisive
<1>6. Max(among) \in 1 .. Len(s) /\ s[Max(among)].request = r
  <2> HIDE DEF among
  <2> QED
    BY <1>3, <1>4 DEF Of
<1>7. s[Max(among)] \in ToSet(s) /\ s[Max(among)] \in Insert
  <2>1. \A k \in 1 .. Len(s) : s[k] \in Insert /\ s[k] \in ToSet(s)
    BY <1>1 DEF ToSet
  <2> HIDE DEF among
  <2> QED
    BY <1>6, <2>1
<1>8. ended # {} => s[Max(among)].status # "pending"
  <2> SUFFICES ASSUME ended # {} PROVE s[Max(among)].status # "pending"
    OBVIOUS
  <2>1. Max(among) \in ended
    BY <1>4
  <2> QED
    BY <2>1
<1>9. (\E k \in Of(s, r) : s[k].status # "pending") => ended # {}
  OBVIOUS
<1> HIDE DEF among, ended
<1> QED
  BY <1>5, <1>6, <1>7, <1>8, <1>9

\* What the decisive insert is, when one more is appended.
LEMMA DecisiveAfterAppend ==
    ASSUME NEW s \in Seq(Insert), NEW i \in Insert, NEW r \in Requests
    PROVE  LET t == Append(s, i)
               ended == {k \in Of(s, r) : s[k].status # "pending"}
           IN  /\ i.request # r => /\ Of(t, r) = Of(s, r)
                                   /\ Of(s, r) # {} => Decisive(t, r) = Decisive(s, r)
               /\ i.request = r => Of(t, r) # {}
               /\ i.request = r /\ (i.status # "pending" \/ ended = {}) => Decisive(t, r) = i
               /\ i.request = r /\ i.status = "pending" /\ ended # {} =>
                    Decisive(t, r) = Decisive(s, r)
<1> DEFINE t == Append(s, i)
           n == Len(s)
           ended == {k \in Of(s, r) : s[k].status # "pending"}
           endedT == {k \in Of(t, r) : t[k].status # "pending"}
           among == IF ended # {} THEN ended ELSE Of(s, r)
           amongT == IF endedT # {} THEN endedT ELSE Of(t, r)
<1>1. n \in Nat /\ DOMAIN s = 1 .. n /\ DOMAIN t = 1 .. n + 1
  OBVIOUS
<1>2. (\A k \in 1 .. n : t[k] = s[k]) /\ t[n + 1] = i
  OBVIOUS
<1>3. 1 .. n + 1 = 1 .. n \cup {n + 1}
  BY <1>1
<1>4. Decisive(s, r) = s[Max(among)] /\ Decisive(t, r) = t[Max(amongT)]
  BY DEF Decisive
<1> HIDE DEF t, n
<1>5. Of(t, r) = Of(s, r) \cup (IF i.request = r THEN {n + 1} ELSE {})
  BY <1>1, <1>2, <1>3 DEF Of
<1>6. Of(s, r) \in SUBSET (1 .. n) /\ Of(t, r) \in SUBSET (1 .. n + 1)
  BY <1>1 DEF Of
<1>7. n + 1 \notin 1 .. n
  BY <1>1
<1>8. endedT = ended \cup (IF i.request = r /\ i.status # "pending" THEN {n + 1} ELSE {})
  BY <1>2, <1>5, <1>6
<1>9. ASSUME NEW S \in SUBSET (1 .. n + 1), n + 1 \in S
      PROVE  Max(S) = n + 1
  <2>0. n + 1 \in Nat /\ S # {}
    BY <1>1, <1>9
  <2>1. Max(S) \in S /\ \A y \in S : y <= Max(S)
    BY <1>9, <2>0, Greatest
  <2>2. n + 1 <= Max(S) /\ Max(S) \in 1 .. n + 1
    BY <1>9, <2>1
  <2> QED
    BY <1>1, <2>2
<1>10. ASSUME i.request = r, i.status # "pending" \/ ended = {}
       PROVE  Decisive(t, r) = i
  <2>1. n + 1 \in amongT
    BY <1>5, <1>8, <1>10
  <2>2. amongT \in SUBSET (1 .. n + 1)
    BY <1>6
  <2>3. Max(amongT) = n + 1
    <3> HIDE DEF amongT
    <3> QED
      BY <1>9, <2>1, <2>2
  <2> HIDE DEF amongT
  <2> QED
    BY <1>2, <1>4, <2>3
<1>11. ASSUME amongT = among, Of(s, r) # {}
       PROVE  Decisive(t, r) = Decisive(s, r)
  <2>1. among # {} /\ among \in SUBSET (1 .. n)
    BY <1>6, <1>11
  <2> HIDE DEF among, amongT
  <2>2. Max(among) \in 1 .. n
    BY <1>1, <2>1, Greatest
  <2> QED
    BY <1>2, <1>4, <1>11, <2>2
<1>12. i.request = r /\ i.status = "pending" /\ ended # {} => amongT = among /\ Of(s, r) # {}
  BY <1>8
<1>13. i.request # r => amongT = among /\ Of(t, r) = Of(s, r)
  BY <1>5, <1>8
<1>14. i.request = r => Of(t, r) # {}
  BY <1>5
<1> HIDE DEF ended, endedT, among, amongT
<1> QED
  BY <1>10, <1>11, <1>12, <1>13, <1>14 DEF t, ended

\* The closed form of the transaction is insert_batch_once going through its items:
\* it starts from the table, and one more item is one more upsert.
THEOREM UpsertedInOrder ==
    ASSUME NEW table \in [Requests -> RowStates]
    PROVE  /\ UpsertedAll(table, <<>>) = table
           /\ \A s \in Seq(Insert), i \in Insert :
                UpsertedAll(table, Append(s, i)) = Upserted(UpsertedAll(table, s), i)
<1>1. UpsertedAll(table, <<>>) = table
  <2>1. \A r \in Requests : Of(<<>>, r) = {}
    BY DEF Of
  <2> QED
    BY <2>1 DEF UpsertedAll
<1>2. ASSUME NEW s \in Seq(Insert), NEW i \in Insert
      PROVE  UpsertedAll(table, Append(s, i)) = Upserted(UpsertedAll(table, s), i)
  <2> DEFINE t == Append(s, i)
             old == UpsertedAll(table, s)
             new == UpsertedAll(table, t)
             ended(r) == {k \in Of(s, r) : s[k].status # "pending"}
  <2>1. ASSUME NEW r \in Requests
        PROVE  /\ Of(s, r) = {} => old[r] = table[r]
               /\ Of(s, r) # {} => old[r] = Upserted(table, Decisive(s, r))[r]
               /\ Of(t, r) = {} => new[r] = table[r]
               /\ Of(t, r) # {} => new[r] = Upserted(table, Decisive(t, r))[r]
    BY DEF UpsertedAll
  <2>2. ASSUME NEW r \in Requests
        PROVE  /\ Of(s, r) # {} => /\ Decisive(s, r) \in Insert
                                   /\ Decisive(s, r).request = r
                                   /\ ended(r) # {} <=> Decisive(s, r).status # "pending"
               /\ Of(s, r) = {} => ended(r) = {}
    <3>1. CASE Of(s, r) = {}
      BY <3>1
    <3>2. CASE Of(s, r) # {}
      <4>1. Decisive(s, r) \in Insert /\ Decisive(s, r).request = r
        BY <3>2, DecisiveIsHeld
      <4>2. ended(r) # {} => Decisive(s, r).status # "pending"
        BY <3>2, DecisiveIsHeld
      <4>3. PICK k \in DOMAIN s : Decisive(s, r) = s[k]
        BY <3>2, DecisiveIsHeld DEF ToSet
      <4>4. Decisive(s, r).status # "pending" => ended(r) # {}
        BY <4>1, <4>3 DEF Of
      <4> QED
        BY <3>2, <4>1, <4>2, <4>4
    <3> QED
      BY <3>1, <3>2
  <2>3. old \in [Requests -> RowStates]
    <3>1. \A r \in Requests : old[r] \in RowStates
      BY <2>1, <2>2, UpsertWrites
    <3>2. old = [r \in Requests |-> old[r]]
      BY DEF UpsertedAll
    <3> HIDE DEF old
    <3> QED
      BY <3>1, <3>2
  <2>4. ASSUME NEW r \in Requests
        PROVE  new[r] = Upserted(old, i)[r]
    <3>1. CASE i.request # r
      <4>1. Upserted(old, i)[r] = old[r]
        BY <2>3, <3>1, UpsertWrites
      <4>2. Of(t, r) = Of(s, r) /\ (Of(s, r) # {} => Decisive(t, r) = Decisive(s, r))
        BY <3>1, DecisiveAfterAppend
      <4> HIDE DEF old, new, t
      <4> QED
        BY <2>1, <4>1, <4>2
    <3>2. CASE i.request = r /\ i.status # "pending"
      <4>1. Of(t, r) # {} /\ Decisive(t, r) = i
        BY <3>2, DecisiveAfterAppend
      <4>2. new[r] = i.status
        BY <2>1, <3>2, <4>1, UpsertWrites
      <4>3. Upserted(old, i)[r] = i.status
        BY <2>3, <3>2, UpsertWrites
      <4> QED
        BY <4>2, <4>3
    <3>3. CASE i.request = r /\ i.status = "pending" /\ ended(r) # {}
      <4>1. Of(t, r) # {} /\ Decisive(t, r) = Decisive(s, r) /\ Of(s, r) # {}
        BY <3>3, <2>2, DecisiveAfterAppend
      <4>2. new[r] = old[r]
        BY <2>1, <4>1
      <4>3. old[r] = Decisive(s, r).status /\ Decisive(s, r).status \in Ends
        BY <2>1, <2>2, <3>3, <4>1, UpsertWrites DEF Insert
      <4>4. old[r] \notin {None, "pending"}
        BY <4>3, RequestLogAssumption DEF RequestLogAssumption, Ends
      <4>5. Upserted(old, i)[r] = old[r]
        BY <2>3, <3>3, <4>4, UpsertWrites
      <4> QED
        BY <4>2, <4>5
    <3>4. CASE i.request = r /\ i.status = "pending" /\ ended(r) = {}
      <4> DEFINE after == IF table[r] \in {None, "pending"} THEN "pending" ELSE table[r]
      <4>1. Of(t, r) # {} /\ Decisive(t, r) = i
        BY <3>4, DecisiveAfterAppend
      <4>2. new[r] = after
        BY <2>1, <3>4, <4>1, UpsertWrites
      <4>3. old[r] = table[r] \/ old[r] = after
        BY <2>1, <2>2, <3>4, UpsertWrites
      <4>4. Upserted(old, i)[r] = IF old[r] \in {None, "pending"} THEN "pending" ELSE old[r]
        BY <2>3, <3>4, UpsertWrites
      <4> HIDE DEF old, new, t
      <4> QED
        BY <4>2, <4>3, <4>4
    <3> QED
      BY <3>1, <3>2, <3>3, <3>4
  <2>5. new = [r \in Requests |-> new[r]]
    BY DEF UpsertedAll
  <2>6. Upserted(old, i) \in [Requests -> RowStates]
    BY <2>3, UpsertWrites
  <2> HIDE DEF old, new, t
  <2>7. new = Upserted(old, i)
    BY <2>4, <2>5, <2>6
  <2> QED
    BY <2>7 DEF old, new, t
<1> QED
  BY <1>1, <1>2

------------------------------------------------------------------------------
(* The ways of an insert to the database.                                  *)

Reasons == {"plugin", "saturated", "backpressure", "cancelled", "failed_write", "crash"}

Queues == [Gateways -> BoundedSeq(Insert, WRITE_BUFFER_CAPACITY)]

\* The step offers the insert of r with status s: it is on its way now, or given up
\* with a reason unless it is a placeholder; everything else stays where it is.
Offers(r, s) ==
    /\ \A q \in Requests, t \in Statuses :
        /\ Carries(q, t) => Carries(q, t)'
        /\ Carries(q, t)' => Carries(q, t) \/ (q = r /\ t = s)
    /\ Carries(r, s)' \/ lost'[r] # None \/ s = "pending"
    /\ \A q \in Requests : lost[q] # None => lost'[q] # None
    /\ queue' \in Queues
    /\ through' \subseteq Insert
    /\ window_count' \in 0 .. WRITE_THROUGH_MAX_PER_SEC + 1
    /\ lost' \in [Requests -> {None} \cup Reasons]

\* The types of what the ways of an insert change.
LEMMA TypesOfPipeline ==
    ASSUME TypeOK
    PROVE  /\ queue \in Queues
           /\ through \subseteq Insert
           /\ window_count \in 0 .. WRITE_THROUGH_MAX_PER_SEC + 1
           /\ lost \in [Requests -> {None} \cup Reasons]
           /\ None \notin Reasons
           /\ WRITE_BUFFER_CAPACITY \in Nat /\ WRITE_THROUGH_MAX_PER_SEC \in Nat
BY RequestLogAssumption DEF TypeOK, RequestLogAssumption, Queues, Reasons

\* The insert of a request is what its request and status say.
LEMMA InsertFields ==
    ASSUME NEW r \in Requests, NEW s \in Statuses
    PROVE  /\ [request |-> r, status |-> s] \in Insert
           /\ \A q \in Requests, t \in Statuses :
                [request |-> q, status |-> t] = [request |-> r, status |-> s]
                    <=> q = r /\ t = s
<1>1. [request |-> r, status |-> s] \in Insert
  BY DEF Insert, Statuses
<1>2. ASSUME NEW q \in Requests, NEW t \in Statuses,
             [request |-> q, status |-> t] = [request |-> r, status |-> s]
      PROVE  q = r /\ t = s
  <2>1. [request |-> q, status |-> t].request = q /\ [request |-> q, status |-> t].status = t
    OBVIOUS
  <2>2. [request |-> r, status |-> s].request = r /\ [request |-> r, status |-> s].status = s
    OBVIOUS
  <2> QED
    BY <1>2, <2>1, <2>2
<1> QED
  BY <1>1, <1>2

\* A free slot takes the insert.
LEMMA SendOffers ==
    ASSUME TypeOK, NEW r \in Requests, NEW s \in Statuses, NEW g \in Gateways,
           Send([request |-> r, status |-> s], g), UNCHANGED batch
    PROVE  Offers(r, s)
<1> DEFINE i == [request |-> r, status |-> s]
<1>1. i \in Insert
  BY InsertFields
<1>2. queue[g] \in Seq(Insert) /\ Len(queue[g]) < WRITE_BUFFER_CAPACITY
  BY TypesOfPipeline, BoundedSeqs DEF Send, Room, Queues
<1>3. queue' = [queue EXCEPT ![g] = Append(queue[g], i)]
      /\ through' = through /\ window_count' = window_count /\ lost' = lost
  BY DEF Send
<1> HIDE DEF i
<1>4. Append(queue[g], i) \in BoundedSeq(Insert, WRITE_BUFFER_CAPACITY)
  <2>1. Append(queue[g], i) \in Seq(Insert) /\ Len(Append(queue[g], i)) = Len(queue[g]) + 1
    BY <1>1, <1>2
  <2>2. Len(Append(queue[g], i)) <= WRITE_BUFFER_CAPACITY
    BY <1>2, <2>1, TypesOfPipeline
  <2> QED
    BY <2>1, <2>2, TypesOfPipeline, BoundedSeqs
<1>5. queue' \in Queues
  BY <1>3, <1>4, TypesOfPipeline DEF Queues
<1>6. /\ ToSet(queue'[g]) = ToSet(queue[g]) \cup {i}
      /\ \A h \in Gateways \ {g} : queue'[h] = queue[h]
  BY <1>1, <1>2, <1>3, AppendAdds, TypesOfPipeline DEF Queues
<1>7. \A j : OnItsWay(j)' <=> OnItsWay(j) \/ j = i
  BY <1>3, <1>6 DEF OnItsWay
<1>8. \A q \in Requests, t \in Statuses : Carries(q, t)' <=> Carries(q, t) \/ (q = r /\ t = s)
  BY <1>7, InsertFields DEF Carries, i
<1> QED
  BY <1>3, <1>5, <1>8, TypesOfPipeline DEF Offers

\* Giving an insert up records why, unless it is a placeholder.
LEMMA GivingUpOffers ==
    ASSUME TypeOK, NEW r \in Requests, NEW s \in Statuses, NEW reason \in Reasons,
           lost' = GivenUp([request |-> r, status |-> s], reason),
           window_count' \in 0 .. WRITE_THROUGH_MAX_PER_SEC + 1,
           UNCHANGED <<queue, through, batch>>
    PROVE  Offers(r, s)
<1>1. lost' = IF s = "pending" THEN lost ELSE [lost EXCEPT ![r] = reason]
  BY DEF GivenUp
<1>2. /\ lost' \in [Requests -> {None} \cup Reasons]
      /\ s # "pending" => lost'[r] = reason
      /\ \A q \in Requests : lost'[q] = lost[q] \/ lost'[q] = reason
  BY <1>1, TypesOfPipeline
<1>3. \A j : OnItsWay(j)' <=> OnItsWay(j)
  BY DEF OnItsWay
<1>4. \A q \in Requests, t \in Statuses : Carries(q, t)' <=> Carries(q, t)
  BY <1>3 DEF Carries
<1>5. reason # None
  BY TypesOfPipeline
<1> QED
  BY <1>2, <1>4, <1>5, TypesOfPipeline DEF Offers

\* A write-through task takes the insert, or there is no permit for one.
LEMMA SpawnWriteThroughOffers ==
    ASSUME TypeOK, NEW r \in Requests, NEW s \in Statuses,
           SpawnWriteThrough([request |-> r, status |-> s]),
           window_count' \in 0 .. WRITE_THROUGH_MAX_PER_SEC + 1, UNCHANGED batch
    PROVE  Offers(r, s)
<1> DEFINE i == [request |-> r, status |-> s]
<1>1. CASE through' = through \cup {i} /\ UNCHANGED <<queue, lost>>
  <2>1. i \in Insert
    BY InsertFields
  <2> HIDE DEF i
  <2>2. \A j : OnItsWay(j)' <=> OnItsWay(j) \/ j = i
    BY <1>1 DEF OnItsWay
  <2>3. \A q \in Requests, t \in Statuses :
           Carries(q, t)' <=> Carries(q, t) \/ (q = r /\ t = s)
    BY <2>2, InsertFields DEF Carries, i
  <2> QED
    BY <1>1, <2>1, <2>3, TypesOfPipeline DEF Offers
<1>2. CASE lost' = GivenUp(i, "saturated") /\ UNCHANGED <<queue, through>>
  <2>1. "saturated" \in Reasons
    BY DEF Reasons
  <2> QED
    BY <1>2, <2>1, GivingUpOffers
<1> QED
  BY <1>1, <1>2 DEF SpawnWriteThrough

\* Past a channel that is closed or full.
LEMMA BypassOffers ==
    ASSUME TypeOK, NEW r \in Requests, NEW s \in Statuses,
           Bypass([request |-> r, status |-> s]), UNCHANGED batch
    PROVE  Offers(r, s)
<1>1. window_count' \in 0 .. WRITE_THROUGH_MAX_PER_SEC + 1
  BY TypesOfPipeline DEF Bypass
<1> QED
  BY <1>1, SpawnWriteThroughOffers DEF Bypass

\* A full channel: important ends are written through, as far as the second allows.
LEMMA OverflowOffers ==
    ASSUME TypeOK, NEW r \in Requests, NEW s \in Statuses,
           Overflow([request |-> r, status |-> s]), UNCHANGED batch
    PROVE  Offers(r, s)
<1> DEFINE i == [request |-> r, status |-> s]
<1>1. window_count' \in 0 .. WRITE_THROUGH_MAX_PER_SEC + 1
  <2>1. window_count' = window_count
        \/ (window_count \leq WRITE_THROUGH_MAX_PER_SEC /\ window_count' = window_count + 1)
    BY TypesOfPipeline DEF Overflow
  <2> QED
    BY <2>1, TypesOfPipeline
<1>2. \/ SpawnWriteThrough(i)
      \/ lost' = GivenUp(i, "backpressure") /\ UNCHANGED <<queue, through>>
  BY DEF Overflow
<1>3. "backpressure" \in Reasons
  BY DEF Reasons
<1> HIDE DEF i
<1>4. CASE SpawnWriteThrough(i)
  BY <1>1, <1>4, SpawnWriteThroughOffers DEF i
<1>5. CASE lost' = GivenUp(i, "backpressure") /\ UNCHANGED <<queue, through>>
  BY <1>1, <1>3, <1>5, GivingUpOffers DEF i
<1> QED
  BY <1>2, <1>4, <1>5

\* An end is enqueued: every branch of the backpressure.
LEMMA EnqueueWithBackpressureOffers ==
    ASSUME TypeOK, NEW r \in Requests, NEW s \in Statuses, NEW g \in Gateways,
           EnqueueWithBackpressure([request |-> r, status |-> s], g), UNCHANGED batch
    PROVE  Offers(r, s)
<1> DEFINE i == [request |-> r, status |-> s]
<1>1. \/ lost' = GivenUp(i, "plugin") /\ UNCHANGED <<queue, through, window_count>>
      \/ Send(i, g) \/ Bypass(i) \/ Overflow(i)
  BY DEF EnqueueWithBackpressure
<1>2. CASE lost' = GivenUp(i, "plugin") /\ UNCHANGED <<queue, through, window_count>>
  <2>1. "plugin" \in Reasons /\ window_count' \in 0 .. WRITE_THROUGH_MAX_PER_SEC + 1
    BY <1>2, TypesOfPipeline DEF Reasons
  <2> QED
    BY <1>2, <2>1, GivingUpOffers
<1> QED
  BY <1>1, <1>2, SendOffers, BypassOffers, OverflowOffers

\* A placeholder is enqueued.
LEMMA EnqueuePlaceholderOffers ==
    ASSUME TypeOK, NEW r \in Requests, NEW s \in Statuses, NEW g \in Gateways,
           EnqueuePlaceholder([request |-> r, status |-> s], g), UNCHANGED batch
    PROVE  Offers(r, s)
<1>1. Send([request |-> r, status |-> s], g) \/ Bypass([request |-> r, status |-> s])
  BY DEF EnqueuePlaceholder
<1> QED
  BY <1>1, SendOffers, BypassOffers

\* Without a way for the insert the pipeline is as it was.
LEMMA NothingOffered ==
    ASSUME TypeOK, UNCHANGED <<queue, batch, through>>
    PROVE  \A q \in Requests, t \in Statuses : Carries(q, t)' <=> Carries(q, t)
BY DEF Carries, OnItsWay

\* A spawned task is to offer the end, or it is offered at once.
LEMMA SpawnEnqueueOffers ==
    ASSUME TypeOK, NEW r \in Requests, NEW s \in Statuses, NEW g \in Gateways,
           SpawnEnqueue([request |-> r, status |-> s], g), UNCHANGED batch
    PROVE  \/ tasks' = tasks \cup {r} /\ UNCHANGED <<queue, through, window_count, lost>>
           \/ UNCHANGED tasks /\ Offers(r, s)
<1> DEFINE i == [request |-> r, status |-> s]
<1>1. \/ tasks' = tasks \cup {r} /\ UNCHANGED <<queue, through, window_count, lost>>
      \/ UNCHANGED tasks /\ (Send(i, g) \/ Bypass(i) \/ Overflow(i))
  BY DEF SpawnEnqueue
<1> QED
  BY <1>1, SendOffers, BypassOffers, OverflowOffers

------------------------------------------------------------------------------
(* A step of one request.                                                  *)

\* What a step of the request r leaves alone of the pipeline, and its types.
PipelineStep(r) ==
    /\ queue' \in Queues
    /\ through' \subseteq Insert
    /\ tasks' \subseteq Requests
    /\ window_count' \in 0 .. WRITE_THROUGH_MAX_PER_SEC + 1
    /\ lost' \in [Requests -> {None} \cup Reasons]
    /\ \A q \in Requests \ {r} :
        /\ q \in tasks' <=> q \in tasks
        /\ lost[q] # None => lost'[q] # None
        /\ \A t \in Statuses : Carries(q, t)' <=> Carries(q, t)

HandlerStep(r) ==
    /\ UNCHANGED <<startup, phase, started, crashes, batch, closed, rows>>
    /\ place' \in [Requests -> Places]
    /\ gateway' \in [Requests -> Gateways \cup {None}]
    /\ end' \in [Requests -> Ends \cup {None}]
    /\ active' \subseteq Requests
    /\ \A q \in Requests \ {r} :
        /\ place'[q] = place[q]
        /\ gateway'[q] = gateway[q]
        /\ end'[q] = end[q]
        /\ q \in active' <=> q \in active
    /\ PipelineStep(r)

\* A request of which nothing changes stays as it should be.
LEMMA UntouchedKeeps ==
    ASSUME NEW q \in Requests, RequestOK(q),
           place'[q] = place[q], gateway'[q] = gateway[q], end'[q] = end[q],
           q \in active' => q \in active,
           q \in tasks' <=> q \in tasks,
           rows'[q] = rows[q], startup' = startup,
           lost[q] # None => lost'[q] # None,
           end[q] \in Ends \cup {None},
           \A t \in Statuses : Carries(q, t)' <=> Carries(q, t)
    PROVE  RequestOK(q)'
<1>1. EndFitsPlace(q)'
  BY DEF RequestOK, EndFitsPlace, Gateways
<1>2. CarriesReport(q)'
  BY DEF RequestOK, CarriesReport
<1>3. RowFitsPlace(q)'
  BY DEF RequestOK, RowFitsPlace
<1>4. Accounted(q)'
  <2>1. end[q] # None => (Carries(q, end[q])' <=> Carries(q, end[q]))
    BY DEF Statuses
  <2> QED
    BY <2>1 DEF RequestOK, Accounted, Carries
<1> QED
  BY <1>1, <1>2, <1>3, <1>4 DEF RequestOK

\* A step of one request concerns that request alone.
LEMMA HandlerKeeps ==
    ASSUME SafetyInvariant, NEW r \in Requests, HandlerStep(r), RequestOK(r)'
    PROVE  SafetyInvariant'
<1>1. TypeOK'
  BY DEF SafetyInvariant, TypeOK, HandlerStep, PipelineStep, Queues, Reasons, Gateways,
         Insert, Ends, Places
<1>2. (phase # "stopped" => started \in Gateways)'
  BY DEF SafetyInvariant, HandlerStep, Gateways
<1>3. ASSUME NEW q \in Requests \ {r} PROVE RequestOK(q)'
  <2>1. RequestOK(q) /\ end[q] \in Ends \cup {None}
    BY DEF SafetyInvariant, TypeOK
  <2>2. /\ place'[q] = place[q] /\ gateway'[q] = gateway[q] /\ end'[q] = end[q]
        /\ q \in active' => q \in active
        /\ rows'[q] = rows[q] /\ startup' = startup
    BY DEF HandlerStep
  <2>3. /\ q \in tasks' <=> q \in tasks
        /\ lost[q] # None => lost'[q] # None
        /\ \A t \in Statuses : Carries(q, t)' <=> Carries(q, t)
    BY DEF HandlerStep, PipelineStep
  <2> QED
    BY <2>1, <2>2, <2>3, UntouchedKeeps
<1>4. \A q \in Requests : RequestOK(q)'
  BY <1>3
<1> QED
  BY <1>1, <1>2, <1>4 DEF SafetyInvariant

\* Nothing is offered.
LEMMA PipelineStays ==
    ASSUME TypeOK, NEW r \in Requests, UNCHANGED pipeline
    PROVE  /\ PipelineStep(r)
           /\ \A t \in Statuses : Carries(r, t)' <=> Carries(r, t)
           /\ UNCHANGED <<batch, closed, tasks, lost>>
<1>1. UNCHANGED <<queue, batch, closed, tasks, through, window_count, lost>>
  BY DEF pipeline
<1>2. \A q \in Requests, t \in Statuses : Carries(q, t)' <=> Carries(q, t)
  BY <1>1, NothingOffered
<1>3. tasks \subseteq Requests
  BY DEF TypeOK
<1> QED
  BY <1>1, <1>2, <1>3, TypesOfPipeline DEF PipelineStep

\* An offer of r touches nothing of other requests.
LEMMA OffersStep ==
    ASSUME TypeOK, NEW r \in Requests, NEW s \in Statuses, Offers(r, s),
           tasks' \subseteq tasks \cup {r}, tasks \ {r} \subseteq tasks'
    PROVE  PipelineStep(r)
<1>1. tasks' \subseteq Requests
  BY DEF TypeOK
<1> QED
  BY <1>1 DEF Offers, PipelineStep

\* A spawned task: nothing but the set of tasks.
LEMMA SpawnStep ==
    ASSUME TypeOK, NEW r \in Requests, tasks' = tasks \cup {r},
           UNCHANGED <<queue, batch, through, window_count, lost>>
    PROVE  PipelineStep(r) /\ \A t \in Statuses : Carries(r, t)' <=> Carries(r, t)
<1>1. \A q \in Requests, t \in Statuses : Carries(q, t)' <=> Carries(q, t)
  BY NothingOffered
<1>2. tasks' \subseteq Requests
  BY DEF TypeOK
<1> QED
  BY <1>1, <1>2, TypesOfPipeline DEF PipelineStep

\* The handler of r is gone and its end e is with a task or was offered: until then
\* only a placeholder of r could be on its way.
LEMMA EndKeeps ==
    ASSUME NEW r \in Requests, NEW e \in Ends, RequestOK(r),
           place[r] \in Places \ {"new", "done", "killed"}, place'[r] = "done",
           end'[r] = e, gateway'[r] = gateway[r], r \notin active',
           rows'[r] = rows[r], startup' = startup,
           \/ r \in tasks' /\ \A t \in Statuses : Carries(r, t)' <=> Carries(r, t)
           \/ (r \in tasks' <=> r \in tasks) /\ Offers(r, e)
    PROVE  RequestOK(r)'
<1>1. e # None /\ e \in Statuses /\ e # "pending"
  BY RequestLogAssumption DEF RequestLogAssumption, Ends, Statuses
<1>2. EndFitsPlace(r)'
  BY <1>1 DEF RequestOK, EndFitsPlace, Unended, Gateways
<1>3. CarriesReport(r)'
  <2>1. \A t \in Statuses : Carries(r, t)' => Carries(r, t) \/ t = e
    BY <1>1 DEF Offers
  <2>2. \A t \in Statuses : Carries(r, t) => t = "pending"
    BY DEF RequestOK, CarriesReport
  <2> QED
    BY <1>1, <2>1, <2>2 DEF CarriesReport, Seeded
<1>4. RowFitsPlace(r)'
  BY <1>1 DEF RequestOK, RowFitsPlace, Seeded
<1>5. Accounted(r)'
  <2>1. r \in tasks' \/ Carries(r, e)' \/ lost'[r] # None
    BY <1>1 DEF Offers
  <2> QED
    BY <2>1 DEF Accounted, Carries
<1> QED
  BY <1>2, <1>3, <1>4, <1>5 DEF RequestOK

------------------------------------------------------------------------------
(* The process and its gateways.                                           *)

\* At first nothing is on its way.
LEMMA InitSafety == Init => SafetyInvariant
<1> SUFFICES ASSUME Init PROVE SafetyInvariant
  OBVIOUS
<1>1. <<>> \in BoundedSeq(Insert, WRITE_BUFFER_CAPACITY)
      /\ <<>> \in BoundedSeq(Insert, WRITE_BATCH_MAX)
  BY EmptyIsBounded, RequestLogAssumption DEF RequestLogAssumption
<1>2. TypeOK
  BY <1>1, RequestLogAssumption DEF Init, TypeOK, Places, RequestLogAssumption
<1>3. \A r \in Requests, t \in Statuses : ~ Carries(r, t)
  BY EmptyHolds DEF Init, Carries, OnItsWay
<1>4. ASSUME NEW r \in Requests PROVE RequestOK(r)
  <2>1. place[r] = "new" /\ end[r] = None /\ rows[r] = None /\ r \notin tasks /\ r \notin active
    BY DEF Init
  <2>2. EndFitsPlace(r)
    BY <2>1 DEF EndFitsPlace
  <2>3. CarriesReport(r)
    BY <1>3 DEF CarriesReport
  <2>4. RowFitsPlace(r)
    BY <2>1, RequestLogAssumption DEF RowFitsPlace, RequestLogAssumption, Ends
  <2>5. Accounted(r)
    BY <2>1 DEF Accounted
  <2> QED
    BY <2>2, <2>3, <2>4, <2>5 DEF RequestOK
<1>5. phase = "stopped"
  BY DEF Init
<1> QED
  BY <1>2, <1>4, <1>5 DEF SafetyInvariant

\* A sweep: what was pending is reconciled, nothing else is written.
LEMMA ReconciledRows ==
    ASSUME TypeOK
    PROVE  /\ Reconciled \in [Requests -> RowStates]
           /\ \A r \in Requests :
                Reconciled[r] = IF rows[r] = "pending" THEN "reconciled" ELSE rows[r]
BY DEF TypeOK, Reconciled, RowStates

\* Rows stay or are swept; requests, pipeline and registry stay, or the registry
\* loses entries.
LEMMA SweepKeeps ==
    ASSUME SafetyInvariant,
           UNCHANGED <<crashes, place, gateway, end, pipeline>>,
           active' \subseteq active,
           startup' \in {"booting", "failed", "ready"},
           phase' \in {"stopped", "running", "stopping"},
           started' \in 0 .. MaxStarts,
           phase' # "stopped" => started' \in Gateways,
           \/ rows' = rows /\ (startup' = "ready" => startup = "ready")
           \/ rows' = Reconciled
    PROVE  SafetyInvariant'
<1>1. TypeOK
  BY DEF SafetyInvariant
<1>2. rows' \in [Requests -> RowStates]
  BY <1>1, ReconciledRows DEF TypeOK, RowStates
<1>3. UNCHANGED <<queue, batch, closed, tasks, through, window_count, lost>>
  BY DEF pipeline
<1>4. TypeOK'
  BY <1>1, <1>2, <1>3 DEF TypeOK, RowStates, Gateways, Ends, Insert
<1>5. \A r \in Requests, t \in Statuses : Carries(r, t)' <=> Carries(r, t)
  BY <1>1, <1>3, NothingOffered
<1>6. ASSUME NEW r \in Requests PROVE RequestOK(r)'
  <2>1. RequestOK(r) /\ end[r] \in Ends \cup {None} /\ "reconciled" \notin Ends
        /\ "pending" \notin Ends /\ None \notin {"pending", "reconciled"}
    BY <1>1, RequestLogAssumption DEF SafetyInvariant, TypeOK, Ends, RequestLogAssumption
  <2>2. \/ rows'[r] = rows[r] /\ (startup' = "ready" => startup = "ready")
        \/ rows'[r] = rows[r] /\ rows[r] # "pending"
        \/ rows[r] = "pending" /\ rows'[r] = "reconciled"
    BY <1>1, ReconciledRows
  <2>3. EndFitsPlace(r)'
    BY <1>3, <2>1 DEF RequestOK, EndFitsPlace, Gateways
  <2>4. CarriesReport(r)'
    BY <1>5, <2>1 DEF RequestOK, CarriesReport
  <2>5. RowFitsPlace(r)'
    BY <2>1, <2>2 DEF RequestOK, RowFitsPlace, Ends
  <2>6. Accounted(r)'
    <3>1. end[r] # None => (Carries(r, end[r])' <=> Carries(r, end[r]))
      BY <1>5, <2>1 DEF Statuses
    <3>2. end[r] # None /\ rows[r] = end[r] => rows'[r] = end[r]
      BY <2>1, <2>2
    <3> QED
      BY <1>3, <2>1, <3>1, <3>2 DEF RequestOK, Accounted, Carries
  <2> QED
    BY <2>3, <2>4, <2>5, <2>6 DEF RequestOK
<1> QED
  BY <1>4, <1>6 DEF SafetyInvariant

\* The sweep of the startup run.
LEMMA StartupRecoveryKeeps == SafetyInvariant /\ StartupRecovery => SafetyInvariant'
<1> SUFFICES ASSUME SafetyInvariant, StartupRecovery PROVE SafetyInvariant'
  OBVIOUS
<1>1. /\ UNCHANGED <<phase, started, crashes, place, gateway, end, active, pipeline>>
      /\ startup' \in {"booting", "failed", "ready"}
      /\ rows' = Reconciled \/ (rows' = rows /\ startup' = "failed")
  BY DEF StartupRecovery
<1>2. /\ phase' \in {"stopped", "running", "stopping"}
      /\ started' \in 0 .. MaxStarts
      /\ phase' # "stopped" => started' \in Gateways
  BY <1>1 DEF SafetyInvariant, TypeOK
<1> QED
  BY <1>1, <1>2, SweepKeeps

\* A gateway starts.
LEMMA StartGatewayKeeps == SafetyInvariant /\ StartGateway => SafetyInvariant'
<1> SUFFICES ASSUME SafetyInvariant, StartGateway PROVE SafetyInvariant'
  OBVIOUS
<1>1. /\ UNCHANGED <<startup, crashes, place, gateway, end, active, rows, pipeline>>
      /\ phase' = "running" /\ started' = started + 1 /\ started < MaxStarts
  BY DEF StartGateway
<1>2. started \in 0 .. MaxStarts /\ startup \in {"booting", "failed", "ready"}
  BY DEF SafetyInvariant, TypeOK
<1>3. started' \in Gateways /\ started' \in 0 .. MaxStarts
  BY <1>1, <1>2, RequestLogAssumption DEF Gateways, RequestLogAssumption
<1> QED
  BY <1>1, <1>2, <1>3, SweepKeeps

\* A gateway stops: its registry is drained.
LEMMA StopGatewayKeeps == SafetyInvariant /\ StopGateway => SafetyInvariant'
<1> SUFFICES ASSUME SafetyInvariant, StopGateway PROVE SafetyInvariant'
  OBVIOUS
<1>1. /\ UNCHANGED <<startup, started, crashes, place, gateway, end, rows, pipeline>>
      /\ phase = "running" /\ phase' = "stopping" /\ active' \subseteq active
  BY DEF StopGateway
<1>2. /\ started \in 0 .. MaxStarts /\ startup \in {"booting", "failed", "ready"}
      /\ started \in Gateways
  BY <1>1 DEF SafetyInvariant, TypeOK
<1> QED
  BY <1>1, <1>2, SweepKeeps

\* The sweep after a stop.
LEMMA ReconcileStoppedKeeps == SafetyInvariant /\ ReconcileStopped => SafetyInvariant'
<1> SUFFICES ASSUME SafetyInvariant, ReconcileStopped PROVE SafetyInvariant'
  OBVIOUS
<1>1. /\ UNCHANGED <<startup, started, crashes, place, gateway, end, active, pipeline>>
      /\ phase' = "stopped" /\ rows' \in {Reconciled, rows}
  BY DEF ReconcileStopped
<1>2. started \in 0 .. MaxStarts /\ startup \in {"booting", "failed", "ready"}
  BY DEF SafetyInvariant, TypeOK
<1> QED
  BY <1>1, <1>2, SweepKeeps

\* The end of the process: what only memory held is written off.
LEMMA CrashKeeps == SafetyInvariant /\ Crash => SafetyInvariant'
<1> SUFFICES ASSUME SafetyInvariant, Crash PROVE SafetyInvariant'
  OBVIOUS
<1>1. TypeOK
  BY DEF SafetyInvariant
<1>2. <<>> \in BoundedSeq(Insert, WRITE_BUFFER_CAPACITY)
      /\ <<>> \in BoundedSeq(Insert, WRITE_BATCH_MAX)
  BY EmptyIsBounded, RequestLogAssumption DEF RequestLogAssumption
<1>3. /\ place' \in [Requests -> Places]
      /\ \A r \in Requests :
            place'[r] = IF place[r] \in {"new", "done"} THEN place[r] ELSE "killed"
  <2>1. "killed" \in Places
    BY DEF Places
  <2> QED
    BY <1>1, <2>1 DEF Crash, TypeOK
<1>4. /\ lost' \in [Requests -> {None} \cup Reasons]
      /\ \A r \in Requests :
            lost'[r] = IF lost[r] = None /\ end[r] # None /\ rows[r] # end[r]
                       THEN "crash" ELSE lost[r]
  <2>1. "crash" \in Reasons
    BY DEF Reasons
  <2> QED
    BY <1>1, <2>1, TypesOfPipeline DEF Crash
<1>5. /\ queue' \in [Gateways -> BoundedSeq(Insert, WRITE_BUFFER_CAPACITY)]
      /\ batch' \in [Gateways -> BoundedSeq(Insert, WRITE_BATCH_MAX)]
      /\ \A g \in Gateways : queue'[g] = <<>> /\ batch'[g] = <<>>
  BY <1>2 DEF Crash
<1>6. /\ startup' = "booting" /\ phase' = "stopped" /\ active' = {}
      /\ tasks' = {} /\ through' = {} /\ window_count' = 0
      /\ UNCHANGED <<started, gateway, end, closed, rows>>
      /\ crashes' = crashes + 1 /\ crashes < MaxCrashes
  BY DEF Crash
<1>7. TypeOK'
  <2>1. /\ crashes' \in 0 .. MaxCrashes
        /\ window_count' \in 0 .. WRITE_THROUGH_MAX_PER_SEC + 1
    BY <1>1, <1>6, RequestLogAssumption DEF TypeOK, RequestLogAssumption
  <2>2. /\ (started \in 0 .. MaxStarts)'
        /\ (gateway \in [Requests -> Gateways \cup {None}])'
        /\ (end \in [Requests -> Ends \cup {None}])'
        /\ (closed \in [Gateways -> BOOLEAN])'
        /\ (rows \in [Requests -> Ends \cup {"pending", "reconciled", None}])'
    BY <1>1, <1>6 DEF TypeOK, Gateways, Ends
  <2>3. /\ (queue \in [Gateways -> BoundedSeq(Insert, WRITE_BUFFER_CAPACITY)])'
        /\ (batch \in [Gateways -> BoundedSeq(Insert, WRITE_BATCH_MAX)])'
    BY <1>5 DEF Gateways, Insert, Ends
  <2> QED
    BY <1>3, <1>4, <1>6, <2>1, <2>2, <2>3 DEF TypeOK, Reasons, Places
<1>8. \A r \in Requests, t \in Statuses : ~ Carries(r, t)'
  BY <1>5, <1>6, EmptyHolds DEF Carries, OnItsWay, Gateways
<1>9. ASSUME NEW r \in Requests PROVE RequestOK(r)'
  <2>1. RequestOK(r)
    BY DEF SafetyInvariant
  <2>2. EndFitsPlace(r)'
    BY <1>3, <1>6, <2>1 DEF RequestOK, EndFitsPlace, Unended, Gateways
  <2>3. CarriesReport(r)'
    BY <1>8 DEF CarriesReport
  <2>4. RowFitsPlace(r)'
    BY <1>3, <1>6, <2>1 DEF RequestOK, RowFitsPlace, Seeded
  <2>5. Accounted(r)'
    <3>1. rows[r] = end[r] \/ end[r] = None \/ lost'[r] # None
      BY <1>4, TypesOfPipeline, <1>1 DEF Reasons
    <3> QED
      BY <1>6, <3>1 DEF Accounted
  <2> QED
    BY <2>2, <2>3, <2>4, <2>5 DEF RequestOK
<1> QED
  BY <1>6, <1>7, <1>9 DEF SafetyInvariant

------------------------------------------------------------------------------
(* The handler of a request.                                               *)

\* Only the place of the request changes.
LEMMA GoesTo ==
    ASSUME TypeOK, NEW r \in Requests, NEW to \in Places, Goes(r, to)
    PROVE  /\ place' \in [Requests -> Places]
           /\ place'[r] = to
           /\ \A q \in Requests \ {r} : place'[q] = place[q]
BY DEF TypeOK, Goes

\* What a step of the handler of r has of the rest, from what it changes.
LEMMA HandlerSteps ==
    ASSUME TypeOK, NEW r \in Requests, NEW to \in Places, Goes(r, to), PipelineStep(r),
           UNCHANGED <<startup, phase, started, crashes, batch, closed, rows>>,
           gateway' = gateway \/ \E g \in Gateways : gateway' = [gateway EXCEPT ![r] = g],
           end' = end \/ \E e \in Ends : end' = [end EXCEPT ![r] = e],
           active' \in {active, active \cup {r}, active \ {r}}
    PROVE  HandlerStep(r)
<1>1. /\ gateway' \in [Requests -> Gateways \cup {None}]
      /\ \A q \in Requests \ {r} : gateway'[q] = gateway[q]
  BY DEF TypeOK
<1>2. /\ end' \in [Requests -> Ends \cup {None}]
      /\ \A q \in Requests \ {r} : end'[q] = end[q]
  BY DEF TypeOK
<1>3. /\ active' \subseteq Requests
      /\ \A q \in Requests \ {r} : q \in active' <=> q \in active
  BY DEF TypeOK
<1> QED
  BY <1>1, <1>2, <1>3, GoesTo DEF HandlerStep

\* The end that is set.
LEMMA EndSet ==
    ASSUME TypeOK, NEW r \in Requests, NEW e, end' = [end EXCEPT ![r] = e]
    PROVE  end'[r] = e
BY DEF TypeOK

\* A connection of the running gateway accepts the request.
LEMMA AcceptKeeps ==
    ASSUME SafetyInvariant, NEW r \in Requests, Accept(r)
    PROVE  SafetyInvariant'
<1>1. TypeOK /\ RequestOK(r) /\ started \in Gateways /\ "entering" \in Places
  BY DEF SafetyInvariant, Accept, Places
<1>2. /\ place[r] = "new" /\ gateway' = [gateway EXCEPT ![r] = started] /\ Goes(r, "entering")
      /\ UNCHANGED <<startup, phase, started, crashes, end, active, rows, pipeline>>
  BY DEF Accept
<1>3. /\ PipelineStep(r) /\ UNCHANGED <<batch, closed, tasks, lost>>
      /\ \A t \in Statuses : Carries(r, t)' <=> Carries(r, t)
  BY <1>1, <1>2, PipelineStays
<1>4. HandlerStep(r)
  BY <1>1, <1>2, <1>3, HandlerSteps
<1>5. place'[r] = "entering" /\ gateway'[r] \in Gateways
  BY <1>1, <1>2, GoesTo DEF TypeOK
<1>6. EndFitsPlace(r)' /\ CarriesReport(r)' /\ RowFitsPlace(r)' /\ Accounted(r)'
  <2>1. EndFitsPlace(r)'
    BY <1>1, <1>2, <1>3, <1>5 DEF RequestOK, EndFitsPlace, Unended, Gateways
  <2>2. CarriesReport(r)'
    BY <1>1, <1>2, <1>3 DEF RequestOK, CarriesReport, Seeded
  <2>3. RowFitsPlace(r)'
    BY <1>1, <1>2, <1>5 DEF RequestOK, RowFitsPlace, Seeded
  <2>4. Accounted(r)'
    BY <1>5 DEF Accounted
  <2> QED
    BY <2>1, <2>2, <2>3, <2>4
<1> QED
  BY <1>4, <1>6, HandlerKeeps DEF RequestOK

\* An end without a guard: a task has it, or the handler waits with it.
LEMMA EarlyErrorKeeps ==
    ASSUME SafetyInvariant, NEW r \in Requests, EarlyError(r)
    PROVE  SafetyInvariant'
<1>1. TypeOK /\ RequestOK(r) /\ "early" \in Places /\ "done" \in Places
      /\ "failed" \in Ends /\ "failed" \in Statuses
  BY DEF SafetyInvariant, Places, Ends, Statuses
<1>2. /\ place[r] = "entering" /\ end' = [end EXCEPT ![r] = "failed"]
      /\ UNCHANGED <<startup, phase, started, crashes, gateway, active, rows>>
  BY DEF EarlyError
<1>3. end'[r] = "failed"
  BY <1>1, <1>2, EndSet
<1>4. r \notin active /\ gateway[r] \in Gateways
  BY <1>1, <1>2 DEF RequestOK, EndFitsPlace
<1>5. CASE /\ Goes(r, "done")
           /\ SpawnEnqueue([request |-> r, status |-> "failed"], gateway[r])
           /\ UNCHANGED <<batch, closed>>
  <2>1. \/ tasks' = tasks \cup {r} /\ UNCHANGED <<queue, through, window_count, lost>>
        \/ UNCHANGED tasks /\ Offers(r, "failed")
    BY <1>1, <1>4, <1>5, SpawnEnqueueOffers
  <2>2. PipelineStep(r)
    BY <1>1, <1>5, <2>1, SpawnStep, OffersStep
  <2>3. \/ r \in tasks' /\ \A t \in Statuses : Carries(r, t)' <=> Carries(r, t)
        \/ (r \in tasks' <=> r \in tasks) /\ Offers(r, "failed")
    BY <1>1, <1>5, <2>1, SpawnStep
  <2>4. HandlerStep(r)
    BY <1>1, <1>2, <1>5, <2>2, HandlerSteps
  <2>5. place'[r] = "done" /\ place[r] \in Places \ {"new", "done", "killed"}
    BY <1>1, <1>2, <1>5, GoesTo DEF Places
  <2>6. RequestOK(r)'
    BY <1>1, <1>2, <1>3, <1>4, <2>3, <2>5, EndKeeps
  <2> QED
    BY <2>4, <2>6, HandlerKeeps
<1>6. CASE Goes(r, "early") /\ UNCHANGED pipeline
  <2>1. /\ PipelineStep(r) /\ UNCHANGED <<batch, closed, tasks, lost>>
        /\ \A t \in Statuses : Carries(r, t)' <=> Carries(r, t)
    BY <1>1, <1>6, PipelineStays
  <2>2. HandlerStep(r)
    BY <1>1, <1>2, <1>6, <2>1, HandlerSteps
  <2>3. place'[r] = "early"
    BY <1>1, <1>6, GoesTo
  <2>4. "failed" # None
    BY RequestLogAssumption DEF RequestLogAssumption
  <2>5. EndFitsPlace(r)'
    BY <1>1, <1>2, <1>3, <1>4, <2>1, <2>3, <2>4 DEF RequestOK, EndFitsPlace, Unended, Gateways
  <2>6. CarriesReport(r)'
    BY <1>1, <1>2, <2>1 DEF RequestOK, CarriesReport, Seeded
  <2>7. RowFitsPlace(r)'
    BY <1>1, <1>2, <2>3 DEF RequestOK, RowFitsPlace, Seeded
  <2>8. Accounted(r)'
    BY <2>3 DEF Accounted
  <2> QED
    BY <2>2, <2>5, <2>6, <2>7, <2>8, HandlerKeeps DEF RequestOK
<1> QED
  BY <1>5, <1>6 DEF EarlyError

\* Without a guard the end of an early error is lost with the client, and said to be.
LEMMA LeaveUnguardedKeeps ==
    ASSUME SafetyInvariant, NEW r \in Requests, LeaveUnguarded(r)
    PROVE  SafetyInvariant'
<1>1. TypeOK /\ RequestOK(r) /\ "done" \in Places /\ "cancelled" \in Reasons
  BY DEF SafetyInvariant, Places, Reasons
<1>2. /\ place[r] \in {"entering", "early"} /\ Goes(r, "done")
      /\ lost' = IF end[r] # None THEN [lost EXCEPT ![r] = "cancelled"] ELSE lost
      /\ UNCHANGED <<startup, phase, started, crashes, gateway, end, active, rows,
                     queue, batch, closed, tasks, through, window_count>>
  BY DEF LeaveUnguarded
<1>3. \A q \in Requests, t \in Statuses : Carries(q, t)' <=> Carries(q, t)
  BY <1>1, <1>2, NothingOffered
<1>4. /\ lost' \in [Requests -> {None} \cup Reasons]
      /\ \A q \in Requests \ {r} : lost'[q] = lost[q]
      /\ end[r] # None => lost'[r] # None
  BY <1>1, <1>2, TypesOfPipeline
<1>5. PipelineStep(r)
  <2>1. tasks' \subseteq Requests
    BY <1>1, <1>2 DEF TypeOK
  <2> QED
    BY <1>1, <1>2, <1>3, <1>4, <2>1, TypesOfPipeline DEF PipelineStep
<1>6. HandlerStep(r)
  BY <1>1, <1>2, <1>5, HandlerSteps
<1>7. place'[r] = "done"
  BY <1>1, <1>2, GoesTo
<1>8. EndFitsPlace(r)'
  BY <1>1, <1>2, <1>7 DEF RequestOK, EndFitsPlace, Unended, Gateways
<1>9. CarriesReport(r)'
  BY <1>1, <1>2, <1>3 DEF RequestOK, CarriesReport, Seeded
<1>10. RowFitsPlace(r)'
  BY <1>1, <1>2, <1>7 DEF RequestOK, RowFitsPlace, Seeded
<1>11. Accounted(r)'
  BY <1>2, <1>4 DEF Accounted
<1> QED
  BY <1>6, <1>8, <1>9, <1>10, <1>11, HandlerKeeps DEF RequestOK

\* The guard is armed and the request registered.
LEMMA RegisterKeeps ==
    ASSUME SafetyInvariant, NEW r \in Requests, Register(r)
    PROVE  SafetyInvariant'
<1>1. TypeOK /\ RequestOK(r) /\ "placing" \in Places /\ "serving" \in Places
  BY DEF SafetyInvariant, Places
<1>2. /\ place[r] = "entering" /\ active' = active \cup {r}
      /\ UNCHANGED <<startup, phase, started, crashes, gateway, end, rows, pipeline>>
  BY DEF Register
<1>3. PICK to \in {"placing", "serving"} : Goes(r, to)
  BY DEF Register
<1>4. /\ PipelineStep(r) /\ UNCHANGED <<batch, closed, tasks, lost>>
      /\ \A t \in Statuses : Carries(r, t)' <=> Carries(r, t)
  BY <1>1, <1>2, PipelineStays
<1>5. HandlerStep(r)
  BY <1>1, <1>2, <1>3, <1>4, HandlerSteps
<1>6. place'[r] = to
  BY <1>1, <1>3, GoesTo
<1>7. EndFitsPlace(r)'
  BY <1>1, <1>2, <1>3, <1>4, <1>6 DEF RequestOK, EndFitsPlace, Unended, Gateways
<1>8. CarriesReport(r)'
  BY <1>1, <1>2, <1>4 DEF RequestOK, CarriesReport, Seeded
<1>9. RowFitsPlace(r)'
  BY <1>1, <1>2, <1>3, <1>6 DEF RequestOK, RowFitsPlace, Seeded
<1>10. Accounted(r)'
  BY <1>3, <1>6 DEF Accounted
<1> QED
  BY <1>5, <1>7, <1>8, <1>9, <1>10, HandlerKeeps DEF RequestOK

\* Before the placeholder nothing of the request is on its way.
LEMMA SeedPlaceholderKeeps ==
    ASSUME SafetyInvariant, NEW r \in Requests, SeedPlaceholder(r)
    PROVE  SafetyInvariant'
<1>1. TypeOK /\ RequestOK(r) /\ "serving" \in Places /\ "pending" \in Statuses
  BY DEF SafetyInvariant, Places, Statuses
<1>2. /\ place[r] = "placing" /\ Goes(r, "serving")
      /\ EnqueuePlaceholder([request |-> r, status |-> "pending"], gateway[r])
      /\ UNCHANGED <<startup, phase, started, crashes, gateway, end, active, rows,
                     batch, closed, tasks>>
  BY DEF SeedPlaceholder, Placeholder
<1>3. gateway[r] \in Gateways
  BY <1>1, <1>2 DEF RequestOK, EndFitsPlace
<1>4. Offers(r, "pending")
  BY <1>1, <1>2, <1>3, EnqueuePlaceholderOffers
<1>5. PipelineStep(r)
  BY <1>1, <1>2, <1>4, OffersStep
<1>6. HandlerStep(r)
  BY <1>1, <1>2, <1>5, HandlerSteps
<1>7. place'[r] = "serving"
  BY <1>1, <1>2, GoesTo
<1>8. EndFitsPlace(r)'
  BY <1>1, <1>2, <1>7 DEF RequestOK, EndFitsPlace, Unended, Gateways
<1>9. CarriesReport(r)'
  <2>1. \A t \in Statuses : Carries(r, t)' => t = "pending"
    BY <1>1, <1>2, <1>4 DEF RequestOK, CarriesReport, Offers, Seeded
  <2> QED
    BY <1>7, <2>1 DEF CarriesReport, Seeded
<1>10. RowFitsPlace(r)'
  BY <1>1, <1>2, <1>7 DEF RequestOK, RowFitsPlace, Seeded
<1>11. Accounted(r)'
  BY <1>7 DEF Accounted
<1> QED
  BY <1>6, <1>8, <1>9, <1>10, <1>11, HandlerKeeps DEF RequestOK

\* The end is reported and the registry entry gone before the row is enqueued.
LEMMA ReportKeeps ==
    ASSUME SafetyInvariant, NEW r \in Requests, Report(r)
    PROVE  SafetyInvariant'
<1>1. TypeOK /\ RequestOK(r) /\ "reporting" \in Places
  BY DEF SafetyInvariant, Places
<1>2. /\ place[r] = "serving" /\ Goes(r, "reporting")
      /\ UNCHANGED <<startup, phase, started, crashes, gateway, rows, pipeline>>
  BY DEF Report
<1>3. PICK e \in {"ok", "failed"} : end' = [end EXCEPT ![r] = e] /\ active' = active \ {r}
  BY DEF Report, ReportEnd
<1>4. e \in Ends /\ e # None
  BY RequestLogAssumption DEF Ends, RequestLogAssumption
<1>5. /\ PipelineStep(r) /\ UNCHANGED <<batch, closed, tasks, lost>>
      /\ \A t \in Statuses : Carries(r, t)' <=> Carries(r, t)
  BY <1>1, <1>2, PipelineStays
<1>6. HandlerStep(r)
  BY <1>1, <1>2, <1>3, <1>4, <1>5, HandlerSteps
<1>7. place'[r] = "reporting" /\ end'[r] = e
  BY <1>1, <1>2, <1>3, GoesTo, EndSet
<1>8. EndFitsPlace(r)'
  BY <1>1, <1>2, <1>3, <1>4, <1>5, <1>7 DEF RequestOK, EndFitsPlace, Unended, Gateways
<1>9. CarriesReport(r)'
  BY <1>1, <1>2, <1>5, <1>7 DEF RequestOK, CarriesReport, Seeded
<1>10. RowFitsPlace(r)'
  BY <1>1, <1>2, <1>7 DEF RequestOK, RowFitsPlace, Seeded
<1>11. Accounted(r)'
  BY <1>7 DEF Accounted
<1> QED
  BY <1>6, <1>8, <1>9, <1>10, <1>11, HandlerKeeps DEF RequestOK

\* The report is enqueued, and the handler is gone.
LEMMA EnqueueReportKeeps ==
    ASSUME SafetyInvariant, NEW r \in Requests, EnqueueReport(r)
    PROVE  SafetyInvariant'
<1>1. TypeOK /\ RequestOK(r) /\ "done" \in Places
  BY DEF SafetyInvariant, Places
<1>2. /\ place[r] \in {"reporting", "early"} /\ Goes(r, "done")
      /\ EnqueueWithBackpressure([request |-> r, status |-> end[r]], gateway[r])
      /\ UNCHANGED <<startup, phase, started, crashes, gateway, end, active, rows,
                     batch, closed, tasks>>
  BY DEF EnqueueReport, Reported
<1>3. end[r] \in Ends /\ end[r] \in Statuses /\ gateway[r] \in Gateways /\ r \notin active
  BY <1>1, <1>2 DEF RequestOK, EndFitsPlace, TypeOK, Statuses
<1>4. Offers(r, end[r])
  BY <1>1, <1>2, <1>3, EnqueueWithBackpressureOffers
<1>5. PipelineStep(r)
  BY <1>1, <1>2, <1>3, <1>4, OffersStep
<1>6. HandlerStep(r)
  BY <1>1, <1>2, <1>5, HandlerSteps
<1>7. place'[r] = "done" /\ place[r] \in Places \ {"new", "done", "killed"}
  BY <1>1, <1>2, GoesTo DEF Places
<1>8. RequestOK(r)'
  BY <1>1, <1>2, <1>3, <1>4, <1>7, EndKeeps
<1> QED
  BY <1>6, <1>8, HandlerKeeps

\* The stream context takes over from the guard.
LEMMA StartStreamKeeps ==
    ASSUME SafetyInvariant, NEW r \in Requests, StartStream(r)
    PROVE  SafetyInvariant'
<1>1. TypeOK /\ RequestOK(r) /\ "streaming" \in Places
  BY DEF SafetyInvariant, Places
<1>2. /\ place[r] = "serving" /\ Goes(r, "streaming")
      /\ UNCHANGED <<startup, phase, started, crashes, gateway, end, active, rows, pipeline>>
  BY DEF StartStream
<1>3. /\ PipelineStep(r) /\ UNCHANGED <<batch, closed, tasks, lost>>
      /\ \A t \in Statuses : Carries(r, t)' <=> Carries(r, t)
  BY <1>1, <1>2, PipelineStays
<1>4. HandlerStep(r)
  BY <1>1, <1>2, <1>3, HandlerSteps
<1>5. place'[r] = "streaming"
  BY <1>1, <1>2, GoesTo
<1>6. EndFitsPlace(r)'
  BY <1>1, <1>2, <1>3, <1>5 DEF RequestOK, EndFitsPlace, Unended, Gateways
<1>7. CarriesReport(r)'
  BY <1>1, <1>2, <1>3, <1>5 DEF RequestOK, CarriesReport, Seeded
<1>8. RowFitsPlace(r)'
  BY <1>1, <1>2, <1>5 DEF RequestOK, RowFitsPlace, Seeded
<1>9. Accounted(r)'
  BY <1>5 DEF Accounted
<1> QED
  BY <1>4, <1>6, <1>7, <1>8, <1>9, HandlerKeeps DEF RequestOK

\* The end that a stream context or an armed guard reports, and its task.
LEMMA ReportAndSpawnKeeps ==
    ASSUME SafetyInvariant, NEW r \in Requests, NEW e \in Ends,
           place[r] \in {"placing", "serving", "reporting", "streaming"},
           ReportEnd(r, e), SpawnEnqueue([request |-> r, status |-> e], gateway[r]),
           Goes(r, "done"),
           UNCHANGED <<startup, phase, started, crashes, gateway, rows, batch, closed>>
    PROVE  SafetyInvariant'
<1>1. TypeOK /\ RequestOK(r) /\ "done" \in Places /\ e \in Statuses
  BY DEF SafetyInvariant, Places, Statuses
<1>2. end' = [end EXCEPT ![r] = e] /\ active' = active \ {r}
  BY DEF ReportEnd
<1>3. end'[r] = e /\ r \notin active'
  BY <1>1, <1>2, EndSet
<1>4. gateway[r] \in Gateways
  BY <1>1 DEF RequestOK, EndFitsPlace
<1>5. \/ tasks' = tasks \cup {r} /\ UNCHANGED <<queue, through, window_count, lost>>
      \/ UNCHANGED tasks /\ Offers(r, e)
  BY <1>1, <1>4, SpawnEnqueueOffers
<1>6. PipelineStep(r)
  BY <1>1, <1>5, SpawnStep, OffersStep
<1>7. \/ r \in tasks' /\ \A t \in Statuses : Carries(r, t)' <=> Carries(r, t)
      \/ (r \in tasks' <=> r \in tasks) /\ Offers(r, e)
  BY <1>1, <1>5, SpawnStep
<1>8. HandlerStep(r)
  BY <1>1, <1>2, <1>6, HandlerSteps
<1>9. place'[r] = "done" /\ place[r] \in Places \ {"new", "done", "killed"}
  BY <1>1, GoesTo DEF Places
<1>10. RequestOK(r)'
  BY <1>1, <1>3, <1>7, <1>9, EndKeeps
<1> QED
  BY <1>8, <1>10, HandlerKeeps

\* The end of a stream.
LEMMA EndStreamKeeps ==
    ASSUME SafetyInvariant, NEW r \in Requests, EndStream(r)
    PROVE  SafetyInvariant'
<1>1. PICK e \in Ends :
         ReportEnd(r, e) /\ SpawnEnqueue([request |-> r, status |-> e], gateway[r])
  BY DEF EndStream
<1>2. /\ place[r] = "streaming" /\ Goes(r, "done")
      /\ UNCHANGED <<startup, phase, started, crashes, gateway, rows, batch, closed>>
  BY DEF EndStream
<1> QED
  BY <1>1, <1>2, ReportAndSpawnKeeps

\* The armed guard of a dropped handler.
LEMMA AbortKeeps ==
    ASSUME SafetyInvariant, NEW r \in Requests, Abort(r)
    PROVE  SafetyInvariant'
<1>1. /\ place[r] \in {"placing", "serving", "reporting"} /\ Goes(r, "done")
      /\ ReportEnd(r, "aborted")
      /\ SpawnEnqueue([request |-> r, status |-> "aborted"], gateway[r])
      /\ UNCHANGED <<startup, phase, started, crashes, gateway, rows, batch, closed>>
  BY DEF Abort
<1>2. "aborted" \in Ends
  BY DEF Ends
<1> QED
  BY <1>1, <1>2, ReportAndSpawnKeeps

------------------------------------------------------------------------------
(* The tasks and the writer threads.                                       *)

\* A spawned task offers the end it was spawned with.
LEMMA RunEnqueueTaskKeeps ==
    ASSUME SafetyInvariant, NEW r \in Requests, RunEnqueueTask(r)
    PROVE  SafetyInvariant'
<1>1. TypeOK /\ RequestOK(r)
  BY DEF SafetyInvariant
<1>2. /\ r \in tasks /\ tasks' = tasks \ {r}
      /\ EnqueueWithBackpressure([request |-> r, status |-> end[r]], gateway[r])
      /\ UNCHANGED <<startup, phase, started, crashes, place, gateway, end, active,
                     batch, closed, rows>>
  BY DEF RunEnqueueTask, Reported, handlers
<1>3. place[r] = "done" /\ end[r] \in Ends /\ end[r] \in Statuses /\ gateway[r] \in Gateways
      /\ end[r] # None /\ end[r] # "pending"
  BY <1>1, <1>2 DEF RequestOK, EndFitsPlace, TypeOK, Statuses, Ends
<1>4. Offers(r, end[r])
  BY <1>1, <1>2, <1>3, EnqueueWithBackpressureOffers
<1>5. PipelineStep(r)
  BY <1>1, <1>2, <1>3, <1>4, OffersStep
<1>6. HandlerStep(r)
  BY <1>1, <1>2, <1>5 DEF HandlerStep, TypeOK
<1>7. EndFitsPlace(r)'
  BY <1>1, <1>2 DEF RequestOK, EndFitsPlace, Gateways
<1>8. CarriesReport(r)'
  <2>1. \A t \in Statuses : Carries(r, t)' => Carries(r, t) \/ t = end[r]
    BY <1>3, <1>4 DEF Offers
  <2> QED
    BY <1>1, <1>2, <1>3, <2>1 DEF RequestOK, CarriesReport, Seeded
<1>9. RowFitsPlace(r)'
  BY <1>1, <1>2 DEF RequestOK, RowFitsPlace
<1>10. Accounted(r)'
  <2>1. Carries(r, end[r])' \/ lost'[r] # None
    BY <1>2, <1>3, <1>4 DEF Offers, Carries
  <2> QED
    BY <1>2, <2>1 DEF Accounted, Carries
<1> QED
  BY <1>6, <1>7, <1>8, <1>9, <1>10, HandlerKeeps DEF RequestOK

\* The writers: what they take off the way is in the row, still on its way, or lost
\* with a reason.
LEMMA WritingKeeps ==
    ASSUME SafetyInvariant, TypeOK', UNCHANGED handlers, UNCHANGED tasks,
           \A q \in Requests :
             /\ \A t \in Statuses : Carries(q, t)' => Carries(q, t)
             /\ lost[q] # None => lost'[q] # None
             /\ \/ rows'[q] = rows[q]
                \/ \E t \in Statuses :
                     /\ Carries(q, t) /\ rows'[q] = t
                     /\ t = "pending" => rows[q] \in {None, "pending"}
             /\ end[q] # None /\ Carries(q, end[q]) =>
                  Carries(q, end[q])' \/ lost'[q] # None \/ rows'[q] = end[q]
    PROVE  SafetyInvariant'
<1>1. UNCHANGED <<startup, phase, started, crashes, place, gateway, end, active, tasks>>
  BY DEF handlers
<1>2. ASSUME NEW q \in Requests PROVE RequestOK(q)'
  <2>1. RequestOK(q) /\ end[q] \in Ends \cup {None}
    BY DEF SafetyInvariant, TypeOK
  <2>2. EndFitsPlace(q)'
    BY <1>1, <2>1 DEF RequestOK, EndFitsPlace, Gateways
  <2>3. CarriesReport(q)'
    BY <1>1, <2>1 DEF RequestOK, CarriesReport
  <2>4. CASE rows'[q] = rows[q]
    <3>1. RowFitsPlace(q)'
      BY <1>1, <2>1, <2>4 DEF RequestOK, RowFitsPlace
    <3>2. Accounted(q)'
      BY <1>1, <2>1, <2>4 DEF RequestOK, Accounted, Carries
    <3> QED
      BY <2>2, <2>3, <3>1, <3>2 DEF RequestOK
  <2>5. CASE rows'[q] # rows[q]
    <3>1. PICK t \in Statuses : /\ Carries(q, t) /\ rows'[q] = t
                                /\ t = "pending" => rows[q] \in {None, "pending"}
      BY <2>5
    <3>2. /\ place[q] \in Seeded
          /\ t # "pending" => place[q] = "done" /\ t = end[q]
          /\ place[q] = "done" => end[q] # None
      BY <2>1, <3>1 DEF RequestOK, CarriesReport
    <3>3. "killed" \notin Seeded /\ "pending" \notin Ends
      BY DEF Seeded, Ends
    <3>4. RowFitsPlace(q)'
      BY <1>1, <3>1, <3>2, <3>3 DEF RowFitsPlace
    <3>5. rows[q] = end[q] /\ end[q] # None => rows'[q] = end[q]
      BY <2>1, <3>1, <3>2, <3>3 DEF RequestOK, RowFitsPlace
    <3>6. Accounted(q)'
      BY <1>1, <2>1, <3>5 DEF RequestOK, Accounted, Carries
    <3> QED
      BY <2>2, <2>3, <3>4, <3>6 DEF RequestOK
  <2> QED
    BY <2>4, <2>5
<1>3. (phase # "stopped" => started \in Gateways)'
  BY <1>1 DEF SafetyInvariant, Gateways
<1> QED
  BY <1>2, <1>3 DEF SafetyInvariant

\* The count of a second begins again.
LEMMA NewSecondKeeps == SafetyInvariant /\ NewSecond => SafetyInvariant'
<1> SUFFICES ASSUME SafetyInvariant, NewSecond PROVE SafetyInvariant'
  OBVIOUS
<1>1. /\ UNCHANGED <<handlers, queue, batch, closed, tasks, through, rows, lost>>
      /\ window_count' = 0
  BY DEF NewSecond
<1>2. TypeOK
  BY DEF SafetyInvariant
<1>3. TypeOK'
  <2>1. window_count' \in 0 .. WRITE_THROUGH_MAX_PER_SEC + 1
    BY <1>1, <1>2, TypesOfPipeline
  <2> QED
    BY <1>1, <1>2, <2>1 DEF TypeOK, handlers, Gateways, Ends, Insert, Places
<1>4. \A q \in Requests, t \in Statuses : Carries(q, t)' <=> Carries(q, t)
  BY <1>1, <1>2, NothingOffered
<1>5. \A q \in Requests : end[q] # None => end[q] \in Statuses
  BY <1>2 DEF TypeOK, Statuses
<1>6. \A q \in Requests : end[q] # None /\ Carries(q, end[q]) => Carries(q, end[q])'
  BY <1>1, <1>4, <1>5 DEF handlers, Carries
<1> QED
  BY <1>1, <1>3, <1>4, <1>6, WritingKeeps

\* What is on its way of a request is an end of it or its placeholder.
LEMMA CarriedEnd ==
    ASSUME SafetyInvariant, NEW q \in Requests, end[q] # None
    PROVE  /\ end[q] \in Ends /\ end[q] \in Statuses /\ end[q] # "pending"
           /\ Reported(q) = [request |-> q, status |-> end[q]]
           /\ Reported(q) \in Insert
           /\ Carries(q, end[q]) <=> OnItsWay(Reported(q))
BY DEF SafetyInvariant, TypeOK, Statuses, Ends, Reported, Carries, Insert

\* What the queue and the batch of a gateway are.
LEMMA TypesOfWriter ==
    ASSUME TypeOK, NEW g \in Gateways
    PROVE  /\ queue[g] \in Seq(Insert) /\ Len(queue[g]) <= WRITE_BUFFER_CAPACITY
           /\ batch[g] \in Seq(Insert) /\ Len(batch[g]) <= WRITE_BATCH_MAX
           /\ WRITE_BUFFER_CAPACITY \in Nat /\ WRITE_BATCH_MAX \in Nat
<1>1. /\ queue[g] \in BoundedSeq(Insert, WRITE_BUFFER_CAPACITY)
      /\ batch[g] \in BoundedSeq(Insert, WRITE_BATCH_MAX)
  BY DEF TypeOK
<1>2. WRITE_BUFFER_CAPACITY \in Nat /\ WRITE_BATCH_MAX \in Nat
  BY RequestLogAssumption DEF RequestLogAssumption
<1> QED
  BY <1>1, <1>2, BoundedSeqs

\* A batch is the beginning of the queue: no insert leaves the way.
LEMMA TakeBatchKeeps ==
    ASSUME SafetyInvariant, NEW g \in Gateways, TakeBatch(g)
    PROVE  SafetyInvariant'
<1> DEFINE n == IF Len(queue[g]) < WRITE_BATCH_MAX THEN Len(queue[g]) ELSE WRITE_BATCH_MAX
           a == SubSeq(queue[g], 1, n)
           b == SubSeq(queue[g], n + 1, Len(queue[g]))
<1>1. TypeOK
  BY DEF SafetyInvariant
<1>2. /\ batch[g] = <<>>
      /\ batch' = [batch EXCEPT ![g] = a] /\ queue' = [queue EXCEPT ![g] = b]
      /\ UNCHANGED <<handlers, closed, tasks, through, window_count, rows, lost>>
  BY DEF TakeBatch
<1>3. n \in 0 .. Len(queue[g]) /\ n <= WRITE_BATCH_MAX
  BY <1>1, TypesOfWriter
<1> HIDE DEF n
<1>4. /\ a \in Seq(Insert) /\ Len(a) = n /\ b \in Seq(Insert)
      /\ Len(b) <= Len(queue[g])
      /\ ToSet(queue[g]) = ToSet(a) \cup ToSet(b)
  BY <1>1, <1>3, TypesOfWriter, HalvesHold
<1> HIDE DEF a, b
<1>5. a \in BoundedSeq(Insert, WRITE_BATCH_MAX) /\ b \in BoundedSeq(Insert, WRITE_BUFFER_CAPACITY)
  <2>1. Len(a) <= WRITE_BATCH_MAX
    BY <1>3, <1>4
  <2>2. Len(b) <= WRITE_BUFFER_CAPACITY
    BY <1>1, <1>4, TypesOfWriter
  <2> QED
    BY <1>1, <1>4, <2>1, <2>2, TypesOfWriter, BoundedSeqs
<1>6. /\ queue' \in [Gateways -> BoundedSeq(Insert, WRITE_BUFFER_CAPACITY)]
      /\ batch' \in [Gateways -> BoundedSeq(Insert, WRITE_BATCH_MAX)]
  BY <1>1, <1>2, <1>5 DEF TypeOK
<1>7. TypeOK'
  <2>1. /\ (queue \in [Gateways -> BoundedSeq(Insert, WRITE_BUFFER_CAPACITY)])'
        /\ (batch \in [Gateways -> BoundedSeq(Insert, WRITE_BATCH_MAX)])'
    BY <1>6 DEF Gateways, Insert, Ends
  <2> QED
    BY <1>1, <1>2, <2>1 DEF TypeOK, handlers, Gateways, Ends, Insert, Places
<1>8. /\ queue'[g] = b /\ batch'[g] = a
      /\ \A h \in Gateways \ {g} : queue'[h] = queue[h] /\ batch'[h] = batch[h]
  BY <1>1, <1>2 DEF TypeOK
<1>9. ToSet(queue[g]) \cup ToSet(batch[g]) = ToSet(queue'[g]) \cup ToSet(batch'[g])
  BY <1>2, <1>4, <1>8, EmptyHolds
<1>10. \A j : OnItsWay(j)' <=> OnItsWay(j)
  BY <1>2, <1>8, <1>9 DEF OnItsWay
<1>11. \A q \in Requests, t \in Statuses : Carries(q, t)' <=> Carries(q, t)
  BY <1>10 DEF Carries
<1>12. \A q \in Requests : end[q] # None /\ Carries(q, end[q]) => Carries(q, end[q])'
  BY <1>2, <1>10 DEF handlers, Carries
<1> QED
  BY <1>2, <1>7, <1>11, <1>12, WritingKeeps

\* A batch that is not written leaves its ends lost with a reason.
LEMMA LostWithEffect ==
    ASSUME TypeOK, NEW s \in Seq(Insert), lost' = LostWith(s)
    PROVE  /\ lost' \in [Requests -> {None} \cup Reasons]
           /\ \A q \in Requests : lost[q] # None => lost'[q] # None
           /\ \A q \in Requests : Reported(q) \in ToSet(s) => lost'[q] # None
<1>1. "failed_write" \in Reasons /\ "failed_write" # None
  BY TypesOfPipeline DEF Reasons
<1>2. \A q \in Requests : lost'[q] = lost[q] \/ lost'[q] = "failed_write"
  BY DEF LostWith
<1>3. \A q \in Requests : Reported(q) \in ToSet(s) => lost'[q] = "failed_write"
  BY DEF LostWith, ToSet
<1>4. lost' = [q \in Requests |-> lost'[q]]
  BY DEF LostWith
<1>5. \A q \in Requests : lost'[q] \in {None} \cup Reasons
  BY <1>1, <1>2, TypesOfPipeline
<1> QED
  BY <1>1, <1>2, <1>3, <1>4, <1>5

\* The rows after a batch: each shows an insert of the batch or what it showed, and
\* an end of the batch is in the row.
LEMMA UpsertedAllEffect ==
    ASSUME NEW table \in [Requests -> RowStates], NEW s \in Seq(Insert)
    PROVE  /\ UpsertedAll(table, s) \in [Requests -> RowStates]
           /\ \A q \in Requests :
                \/ /\ UpsertedAll(table, s)[q] = table[q]
                   /\ \A t \in Ends : [request |-> q, status |-> t] \notin ToSet(s)
                \/ \E t \in Statuses :
                     /\ [request |-> q, status |-> t] \in ToSet(s)
                     /\ UpsertedAll(table, s)[q] = t
                     /\ t = "pending" =>
                          /\ table[q] \in {None, "pending"}
                          /\ \A u \in Ends : [request |-> q, status |-> u] \notin ToSet(s)
<1> DEFINE new == UpsertedAll(table, s)
<1>1. ASSUME NEW q \in Requests
      PROVE  /\ Of(s, q) = {} => new[q] = table[q]
             /\ Of(s, q) # {} => new[q] = Upserted(table, Decisive(s, q))[q]
  BY DEF UpsertedAll
<1>2. ASSUME NEW q \in Requests, NEW t, [request |-> q, status |-> t] \in ToSet(s)
      PROVE  \E k \in Of(s, q) : s[k].status = t
  BY <1>2 DEF Of, ToSet
<1>3. ASSUME NEW q \in Requests
      PROVE  /\ new[q] \in RowStates
             /\ \/ /\ new[q] = table[q]
                   /\ \A t \in Ends : [request |-> q, status |-> t] \notin ToSet(s)
                \/ \E t \in Statuses :
                     /\ [request |-> q, status |-> t] \in ToSet(s)
                     /\ new[q] = t
                     /\ t = "pending" =>
                          /\ table[q] \in {None, "pending"}
                          /\ \A u \in Ends : [request |-> q, status |-> u] \notin ToSet(s)
  <2>1. CASE Of(s, q) = {}
    BY <1>1, <1>2, <2>1
  <2>2. CASE Of(s, q) # {}
    <3> DEFINE d == Decisive(s, q)
    <3>1. /\ d \in Insert /\ d \in ToSet(s) /\ d.request = q
          /\ (\E k \in Of(s, q) : s[k].status # "pending") => d.status # "pending"
      BY <2>2, DecisiveIsHeld
    <3>2. new[q] = Upserted(table, d)[q]
      BY <1>1, <2>2
    <3> HIDE DEF d, new
    <3>3. d = [request |-> q, status |-> d.status] /\ d.status \in Statuses
      BY <3>1 DEF Insert, Statuses
    <3>4. d.status = "pending" =>
            \A u \in Ends : [request |-> q, status |-> u] \notin ToSet(s)
      BY <1>2, <3>1 DEF Ends
    <3>5. new[q] \in RowStates
      BY <3>1, <3>2, UpsertWrites
    <3>6. CASE d.status # "pending"
      <4>1. new[q] = d.status
        BY <3>1, <3>2, <3>6, UpsertWrites
      <4> QED
        BY <3>1, <3>3, <3>5, <3>6, <4>1
    <3>7. CASE d.status = "pending" /\ table[q] \in {None, "pending"}
      <4>1. new[q] = "pending"
        BY <3>1, <3>2, <3>7, UpsertWrites
      <4> QED
        BY <3>1, <3>3, <3>4, <3>5, <3>7, <4>1
    <3>8. CASE d.status = "pending" /\ table[q] \notin {None, "pending"}
      <4>1. new[q] = table[q]
        BY <3>1, <3>2, <3>8, UpsertWrites
      <4> QED
        BY <3>4, <3>5, <3>8, <4>1
    <3> QED
      BY <3>6, <3>7, <3>8
  <2> QED
    BY <2>1, <2>2
<1>4. new = [q \in Requests |-> new[q]]
  BY DEF UpsertedAll
<1> HIDE DEF new
<1>5. new \in [Requests -> RowStates]
  BY <1>3, <1>4
<1> QED
  BY <1>3, <1>5 DEF new

\* A batch is written, or lost as a whole.
LEMMA WriteBatchKeeps ==
    ASSUME SafetyInvariant, NEW g \in Gateways, WriteBatch(g)
    PROVE  SafetyInvariant'
<1>1. TypeOK /\ rows \in [Requests -> RowStates] /\ batch[g] \in Seq(Insert)
  BY TypesOfWriter DEF SafetyInvariant, TypeOK, RowStates
<1>2. /\ batch' = [batch EXCEPT ![g] = <<>>]
      /\ UNCHANGED <<handlers, queue, closed, tasks, through, window_count>>
  BY DEF WriteBatch
<1>3. <<>> \in BoundedSeq(Insert, WRITE_BATCH_MAX)
  BY EmptyIsBounded, RequestLogAssumption DEF RequestLogAssumption
<1>4. /\ batch' \in [Gateways -> BoundedSeq(Insert, WRITE_BATCH_MAX)]
      /\ batch'[g] = <<>> /\ \A h \in Gateways \ {g} : batch'[h] = batch[h]
  BY <1>1, <1>2, <1>3 DEF TypeOK
<1>5. \A j : /\ OnItsWay(j)' => OnItsWay(j)
             /\ OnItsWay(j) => OnItsWay(j)' \/ j \in ToSet(batch[g])
             /\ j \in ToSet(batch[g]) => OnItsWay(j)
  BY <1>2, <1>4, EmptyHolds DEF OnItsWay
<1>6. \A q \in Requests, t \in Statuses : Carries(q, t)' => Carries(q, t)
  BY <1>5 DEF Carries
<1>7. ASSUME rows' \in [Requests -> RowStates], lost' \in [Requests -> {None} \cup Reasons]
      PROVE  TypeOK'
  <2>1. /\ (batch \in [Gateways -> BoundedSeq(Insert, WRITE_BATCH_MAX)])'
        /\ (rows \in [Requests -> Ends \cup {"pending", "reconciled", None}])'
        /\ (lost \in [Requests -> {None, "plugin", "saturated", "backpressure",
                                   "cancelled", "failed_write", "crash"}])'
    BY <1>4, <1>7 DEF RowStates, Reasons, Gateways, Insert, Ends
  <2> QED
    BY <1>1, <1>2, <2>1 DEF TypeOK, handlers, Gateways, Ends, Insert, Places
<1>8. CASE lost' = LostWith(batch[g]) /\ UNCHANGED rows
  <2>1. /\ lost' \in [Requests -> {None} \cup Reasons]
        /\ \A q \in Requests : lost[q] # None => lost'[q] # None
        /\ \A q \in Requests : Reported(q) \in ToSet(batch[g]) => lost'[q] # None
    BY <1>1, <1>8, LostWithEffect
  <2>2. TypeOK'
    BY <1>1, <1>7, <1>8, <2>1
  <2>3. ASSUME NEW q \in Requests, end[q] # None, Carries(q, end[q])
        PROVE  Carries(q, end[q])' \/ lost'[q] # None
    <3>1. OnItsWay(Reported(q)) /\ Reported(q) = [request |-> q, status |-> end[q]]
      BY <2>3, CarriedEnd
    <3>2. CASE Reported(q) \in ToSet(batch[g])
      BY <2>1, <3>2
    <3>3. CASE OnItsWay(Reported(q))'
      BY <1>2, <3>1, <3>3 DEF Carries, handlers, Reported
    <3> QED
      BY <1>2, <1>5, <3>1, <3>2, <3>3 DEF Carries, handlers
  <2> QED
    BY <1>2, <1>6, <1>8, <2>1, <2>2, <2>3, WritingKeeps
<1>9. CASE rows' = UpsertedAll(rows, batch[g]) /\ UNCHANGED lost
  <2>1. rows' \in [Requests -> RowStates]
    BY <1>1, <1>9, UpsertedAllEffect
  <2>2. lost' \in [Requests -> {None} \cup Reasons]
    BY <1>1, <1>9, TypesOfPipeline
  <2>3. TypeOK'
    BY <1>7, <2>1, <2>2
  <2>4. ASSUME NEW q \in Requests, NEW t \in Statuses,
               [request |-> q, status |-> t] \in ToSet(batch[g])
        PROVE  Carries(q, t)
    BY <1>5, <2>4 DEF Carries
  <2>5. ASSUME NEW q \in Requests
        PROVE  \/ /\ rows'[q] = rows[q]
                  /\ \A t \in Ends : [request |-> q, status |-> t] \notin ToSet(batch[g])
               \/ \E t \in Statuses :
                    /\ [request |-> q, status |-> t] \in ToSet(batch[g])
                    /\ rows'[q] = t
                    /\ t = "pending" =>
                         /\ rows[q] \in {None, "pending"}
                         /\ \A u \in Ends : [request |-> q, status |-> u] \notin ToSet(batch[g])
    BY <1>1, <1>9, UpsertedAllEffect
  <2>6. ASSUME NEW q \in Requests
        PROVE  \/ rows'[q] = rows[q]
               \/ \E t \in Statuses : /\ Carries(q, t) /\ rows'[q] = t
                                      /\ t = "pending" => rows[q] \in {None, "pending"}
    BY <2>4, <2>5
  <2>7. ASSUME NEW q \in Requests, end[q] # None, Carries(q, end[q])
        PROVE  Carries(q, end[q])' \/ rows'[q] = end[q]
    <3>1. /\ OnItsWay(Reported(q)) /\ Reported(q) = [request |-> q, status |-> end[q]]
          /\ end[q] \in Ends
      BY <2>7, CarriedEnd
    <3>2. CASE Reported(q) \in ToSet(batch[g])
      <4>1. PICK t \in Statuses : /\ [request |-> q, status |-> t] \in ToSet(batch[g])
                                  /\ rows'[q] = t /\ t # "pending"
        BY <2>5, <3>1, <3>2
      <4>2. t = end[q]
        BY <2>4, <4>1 DEF SafetyInvariant, RequestOK, CarriesReport
      <4> QED
        BY <4>1, <4>2
    <3>3. CASE OnItsWay(Reported(q))'
      BY <1>2, <3>1, <3>3 DEF Carries, handlers, Reported
    <3> QED
      BY <1>2, <1>5, <3>1, <3>2, <3>3 DEF Carries, handlers
  <2> QED
    BY <1>2, <1>6, <1>9, <2>3, <2>6, <2>7, WritingKeeps
<1> QED
  BY <1>8, <1>9 DEF WriteBatch

\* Two sequences one after the other hold what both hold.
LEMMA ConcatHolds ==
    ASSUME NEW S, NEW s \in Seq(S), NEW t \in Seq(S)
    PROVE  s \o t \in Seq(S) /\ ToSet(s \o t) = ToSet(s) \cup ToSet(t)
<1>1. /\ s \o t \in Seq(S) /\ Len(s \o t) = Len(s) + Len(t)
      /\ Len(s) \in Nat /\ Len(t) \in Nat
      /\ \A k \in 1 .. Len(s) : (s \o t)[k] = s[k]
      /\ \A k \in 1 .. Len(t) : (s \o t)[Len(s) + k] = t[k]
  OBVIOUS
<1>2. DOMAIN s = 1 .. Len(s) /\ DOMAIN t = 1 .. Len(t)
      /\ DOMAIN (s \o t) = 1 .. Len(s) + Len(t)
  BY <1>1
<1> DEFINE c == s \o t
<1> HIDE DEF c
<1>3. ASSUME NEW x \in ToSet(c) PROVE x \in ToSet(s) \cup ToSet(t)
  <2>1. PICK k \in 1 .. Len(s) + Len(t) : x = c[k]
    BY <1>2 DEF ToSet, c
  <2>2. CASE k <= Len(s)
    BY <1>1, <1>2, <2>1, <2>2 DEF ToSet, c
  <2>3. CASE k > Len(s)
    <3>1. k - Len(s) \in 1 .. Len(t) /\ k = Len(s) + (k - Len(s))
      BY <1>1, <2>1, <2>3
    <3>2. t[k - Len(s)] = x
      BY <1>1, <2>1, <3>1 DEF c
    <3> QED
      BY <1>2, <3>1, <3>2 DEF ToSet
  <2> QED
    BY <1>1, <2>1, <2>2, <2>3
<1>4. ASSUME NEW x \in ToSet(s) PROVE x \in ToSet(c)
  <2>1. PICK k \in 1 .. Len(s) : x = s[k]
    BY <1>2 DEF ToSet
  <2>2. k \in 1 .. Len(s) + Len(t) /\ c[k] = x
    BY <1>1, <2>1 DEF c
  <2> QED
    BY <1>2, <2>2 DEF ToSet, c
<1>5. ASSUME NEW x \in ToSet(t) PROVE x \in ToSet(c)
  <2>1. PICK k \in 1 .. Len(t) : x = t[k]
    BY <1>2 DEF ToSet
  <2>2. Len(s) + k \in 1 .. Len(s) + Len(t) /\ c[Len(s) + k] = x
    BY <1>1, <2>1 DEF c
  <2> QED
    BY <1>2, <2>2 DEF ToSet, c
<1>6. ToSet(c) = ToSet(s) \cup ToSet(t)
  BY <1>3, <1>4, <1>5
<1> QED
  BY <1>1, <1>6 DEF c

\* The receiver is gone with what it held.
LEMMA WriterPanicsKeeps ==
    ASSUME SafetyInvariant, NEW g \in Gateways, WriterPanics(g)
    PROVE  SafetyInvariant'
<1>1. TypeOK /\ batch[g] \in Seq(Insert) /\ queue[g] \in Seq(Insert)
  BY TypesOfWriter DEF SafetyInvariant
<1>2. /\ batch' = [batch EXCEPT ![g] = <<>>] /\ queue' = [queue EXCEPT ![g] = <<>>]
      /\ closed' = [closed EXCEPT ![g] = TRUE]
      /\ lost' = LostWith(batch[g] \o queue[g])
      /\ UNCHANGED <<handlers, tasks, through, window_count, rows>>
  BY DEF WriterPanics
<1>3. /\ <<>> \in BoundedSeq(Insert, WRITE_BATCH_MAX)
      /\ <<>> \in BoundedSeq(Insert, WRITE_BUFFER_CAPACITY)
  BY EmptyIsBounded, RequestLogAssumption DEF RequestLogAssumption
<1>4. /\ batch' \in [Gateways -> BoundedSeq(Insert, WRITE_BATCH_MAX)]
      /\ queue' \in [Gateways -> BoundedSeq(Insert, WRITE_BUFFER_CAPACITY)]
      /\ closed' \in [Gateways -> BOOLEAN]
      /\ batch'[g] = <<>> /\ \A h \in Gateways \ {g} : batch'[h] = batch[h]
      /\ queue'[g] = <<>> /\ \A h \in Gateways \ {g} : queue'[h] = queue[h]
  BY <1>1, <1>2, <1>3 DEF TypeOK
<1>5. /\ batch[g] \o queue[g] \in Seq(Insert)
      /\ ToSet(batch[g] \o queue[g]) = ToSet(batch[g]) \cup ToSet(queue[g])
  BY <1>1, ConcatHolds
<1>6. /\ lost' \in [Requests -> {None} \cup Reasons]
      /\ \A q \in Requests : lost[q] # None => lost'[q] # None
      /\ \A q \in Requests :
            Reported(q) \in ToSet(batch[g]) \cup ToSet(queue[g]) => lost'[q] # None
  BY <1>1, <1>2, <1>5, LostWithEffect
<1>7. \A j : /\ OnItsWay(j)' => OnItsWay(j)
             /\ OnItsWay(j) => OnItsWay(j)' \/ j \in ToSet(batch[g]) \cup ToSet(queue[g])
  BY <1>2, <1>4, EmptyHolds DEF OnItsWay
<1>8. \A q \in Requests, t \in Statuses : Carries(q, t)' => Carries(q, t)
  BY <1>7 DEF Carries
<1>9. TypeOK'
  <2>1. /\ (batch \in [Gateways -> BoundedSeq(Insert, WRITE_BATCH_MAX)])'
        /\ (queue \in [Gateways -> BoundedSeq(Insert, WRITE_BUFFER_CAPACITY)])'
        /\ (closed \in [Gateways -> BOOLEAN])'
        /\ (lost \in [Requests -> {None, "plugin", "saturated", "backpressure",
                                   "cancelled", "failed_write", "crash"}])'
    BY <1>4, <1>6 DEF Reasons, Gateways, Insert, Ends
  <2> QED
    BY <1>1, <1>2, <2>1 DEF TypeOK, handlers, Gateways, Ends, Insert, Places
<1>10. ASSUME NEW q \in Requests, end[q] # None, Carries(q, end[q])
       PROVE  Carries(q, end[q])' \/ lost'[q] # None
  <2>1. OnItsWay(Reported(q)) /\ Reported(q) = [request |-> q, status |-> end[q]]
    BY <1>10, CarriedEnd
  <2>2. CASE Reported(q) \in ToSet(batch[g]) \cup ToSet(queue[g])
    BY <1>6, <2>2
  <2>3. CASE OnItsWay(Reported(q))'
    BY <1>2, <2>1, <2>3 DEF Carries, handlers, Reported
  <2> QED
    BY <1>2, <1>7, <2>1, <2>2, <2>3 DEF Carries, handlers
<1> QED
  BY <1>2, <1>6, <1>8, <1>9, <1>10, WritingKeeps

\* A write-through task writes its insert, or fails.
LEMMA WriteThroughKeeps ==
    ASSUME SafetyInvariant, NEW i \in Insert, WriteThrough(i)
    PROVE  SafetyInvariant'
<1>1. /\ TypeOK /\ rows \in [Requests -> RowStates]
      /\ i.request \in Requests /\ i.status \in Statuses
      /\ i = [request |-> i.request, status |-> i.status]
  BY DEF SafetyInvariant, TypeOK, RowStates, Insert, Statuses
<1>2. /\ i \in through /\ through' = through \ {i}
      /\ UNCHANGED <<handlers, queue, batch, closed, tasks, window_count>>
  BY DEF WriteThrough
<1>3. \A j : /\ OnItsWay(j)' => OnItsWay(j)
             /\ OnItsWay(j) => OnItsWay(j)' \/ j = i
  BY <1>2 DEF OnItsWay
<1>4. Carries(i.request, i.status)
  BY <1>1, <1>2 DEF Carries, OnItsWay
<1>5. \A q \in Requests, t \in Statuses : Carries(q, t)' => Carries(q, t)
  BY <1>3 DEF Carries
<1>6. ASSUME rows' \in [Requests -> RowStates], lost' \in [Requests -> {None} \cup Reasons]
      PROVE  TypeOK'
  <2>1. /\ (rows \in [Requests -> Ends \cup {"pending", "reconciled", None}])'
        /\ (lost \in [Requests -> {None, "plugin", "saturated", "backpressure",
                                   "cancelled", "failed_write", "crash"}])'
    BY <1>6 DEF RowStates, Reasons, Ends
  <2>2. through' \subseteq Insert
    BY <1>1, <1>2 DEF TypeOK
  <2> QED
    BY <1>1, <1>2, <2>1, <2>2 DEF TypeOK, handlers, Gateways, Ends, Insert, Places
<1>7. ASSUME NEW q \in Requests, end[q] # None, Carries(q, end[q]), Reported(q) # i
      PROVE  Carries(q, end[q])'
  <2>1. OnItsWay(Reported(q)) /\ Reported(q) = [request |-> q, status |-> end[q]]
    BY <1>7, CarriedEnd
  <2>2. OnItsWay(Reported(q))'
    <3>1. Reported(q)' = Reported(q)
      BY <1>2 DEF Reported, handlers
    <3> QED
      BY <1>3, <1>7, <2>1, <3>1
  <2> QED
    BY <1>2, <2>1, <2>2 DEF Carries, handlers, Reported
<1>8. \A q \in Requests : Reported(q) = i => q = i.request /\ end[q] = i.status
  BY DEF Reported
<1>9. CASE lost' = GivenUp(i, "failed_write") /\ UNCHANGED rows
  <2>1. lost' = IF i.status = "pending" THEN lost
                ELSE [lost EXCEPT ![i.request] = "failed_write"]
    BY <1>9 DEF GivenUp
  <2>2. "failed_write" \in Reasons
    BY DEF Reasons
  <2>3. /\ lost' \in [Requests -> {None} \cup Reasons]
        /\ \A q \in Requests : lost[q] # None => lost'[q] # None
        /\ i.status # "pending" => lost'[i.request] # None
    BY <1>1, <2>1, <2>2, TypesOfPipeline
  <2>4. TypeOK'
    BY <1>1, <1>6, <1>9, <2>3
  <2>5. ASSUME NEW q \in Requests, end[q] # None, Carries(q, end[q])
        PROVE  Carries(q, end[q])' \/ lost'[q] # None
    <3>1. end[q] # "pending"
      BY <2>5, CarriedEnd
    <3> QED
      BY <1>7, <1>8, <2>3, <2>5, <3>1
  <2> QED
    BY <1>2, <1>5, <1>9, <2>3, <2>4, <2>5, WritingKeeps
<1>10. CASE rows' = Upserted(rows, i) /\ UNCHANGED lost
  <2>1. /\ rows' \in [Requests -> RowStates]
        /\ \A q \in Requests : q # i.request => rows'[q] = rows[q]
        /\ i.status # "pending" => rows'[i.request] = i.status
        /\ i.status = "pending" =>
             rows'[i.request] = IF rows[i.request] \in {None, "pending"} THEN "pending"
                                ELSE rows[i.request]
    BY <1>1, <1>10, UpsertWrites
  <2>2. TypeOK'
    BY <1>1, <1>6, <1>10, <2>1, TypesOfPipeline
  <2>3. ASSUME NEW q \in Requests
        PROVE  \/ rows'[q] = rows[q]
               \/ \E t \in Statuses : /\ Carries(q, t) /\ rows'[q] = t
                                      /\ t = "pending" => rows[q] \in {None, "pending"}
    BY <1>1, <1>4, <2>1
  <2>4. ASSUME NEW q \in Requests, end[q] # None, Carries(q, end[q])
        PROVE  Carries(q, end[q])' \/ rows'[q] = end[q]
    <3>1. end[q] # "pending"
      BY <2>4, CarriedEnd
    <3> QED
      BY <1>7, <1>8, <2>1, <2>4, <3>1
  <2> QED
    BY <1>2, <1>5, <1>10, <2>2, <2>3, <2>4, WritingKeeps
<1> QED
  BY <1>9, <1>10 DEF WriteThrough

------------------------------------------------------------------------------
(* The theorems.                                                           *)

\* A step that changes nothing.
LEMMA StutterKeeps == SafetyInvariant /\ UNCHANGED vars => SafetyInvariant'
<1> SUFFICES ASSUME SafetyInvariant, UNCHANGED vars PROVE SafetyInvariant'
  OBVIOUS
<1>1. UNCHANGED <<startup, phase, started, crashes, place, gateway, end, active, rows, pipeline>>
  BY DEF vars
<1>2. /\ startup' \in {"booting", "failed", "ready"}
      /\ phase' \in {"stopped", "running", "stopping"}
      /\ started' \in 0 .. MaxStarts
      /\ phase' # "stopped" => started' \in Gateways
  BY <1>1 DEF SafetyInvariant, TypeOK
<1> QED
  BY <1>1, <1>2, SweepKeeps

\* Every step preserves the invariant.
LEMMA NextKeeps == SafetyInvariant /\ [Next]_vars => SafetyInvariant'
<1> SUFFICES ASSUME SafetyInvariant, [Next]_vars PROVE SafetyInvariant'
  OBVIOUS
<1>1. CASE StartupRecovery \/ StartGateway \/ StopGateway \/ ReconcileStopped \/ Crash
  BY <1>1, StartupRecoveryKeeps, StartGatewayKeeps, StopGatewayKeeps, ReconcileStoppedKeeps,
     CrashKeeps
<1>2. ASSUME NEW r \in Requests,
             \/ Accept(r) \/ EarlyError(r) \/ LeaveUnguarded(r) \/ Register(r)
             \/ SeedPlaceholder(r) \/ Report(r)
      PROVE  SafetyInvariant'
  BY <1>2, AcceptKeeps, EarlyErrorKeeps, LeaveUnguardedKeeps, RegisterKeeps,
     SeedPlaceholderKeeps, ReportKeeps
<1>3. ASSUME NEW r \in Requests,
             \/ EnqueueReport(r) \/ StartStream(r) \/ EndStream(r) \/ Abort(r)
             \/ RunEnqueueTask(r)
      PROVE  SafetyInvariant'
  BY <1>3, EnqueueReportKeeps, StartStreamKeeps, EndStreamKeeps, AbortKeeps, RunEnqueueTaskKeeps
<1>4. ASSUME NEW g \in Gateways, TakeBatch(g) \/ WriteBatch(g) \/ WriterPanics(g)
      PROVE  SafetyInvariant'
  BY <1>4, TakeBatchKeeps, WriteBatchKeeps, WriterPanicsKeeps
<1>5. ASSUME NEW i \in Insert, WriteThrough(i) PROVE SafetyInvariant'
  BY <1>5, WriteThroughKeeps
<1>6. CASE NewSecond
  BY <1>6, NewSecondKeeps
<1>7. CASE UNCHANGED vars
  BY <1>7, StutterKeeps
<1> QED
  BY <1>1, <1>2, <1>3, <1>4, <1>5, <1>6, <1>7 DEF Next

\* For any number of requests and gateways and any capacities, through crashes, stops
\* and sweeps: the inductive invariant of the request log.
THEOREM SafetyInvariance == Spec => []SafetyInvariant
<1> QED
  BY InitSafety, NextKeeps, PTL DEF Spec

\* The variables keep their types; the queues and batches keep within their limits.
THEOREM TypeCorrect == Spec => []TypeOK
<1>1. SafetyInvariant => TypeOK
  BY DEF SafetyInvariant
<1> QED
  BY <1>1, SafetyInvariance, PTL

\* A reported end that the row does not show is on its way.
LEMMA CarriedIsInFlight ==
    ASSUME SafetyInvariant, NEW r \in Requests, end[r] # None
    PROVE  r \in tasks \/ Carries(r, end[r]) => InFlight(r)
<1>1. Carries(r, end[r]) => OnItsWay(Reported(r))
  BY CarriedEnd
<1> QED
  BY <1>1 DEF InFlight, OnItsWay

\* Once its handler is gone, the end of a request is in its row, on its way to it, or
\* given up for a named reason.
THEOREM EndsAreAccountedFor == Spec => []EndIsAccountedFor
<1>1. SafetyInvariant => EndIsAccountedFor
  BY CarriedIsInFlight DEF SafetyInvariant, RequestOK, Accounted, EndIsAccountedFor
<1> QED
  BY <1>1, SafetyInvariance, PTL

\* The row of a request that shows an end shows the last one reported.
THEOREM RowsShowLastReport == Spec => []RowShowsLastReport
<1>1. SafetyInvariant => RowShowsLastReport
  BY DEF SafetyInvariant, RequestOK, RowFitsPlace, RowShowsLastReport
<1> QED
  BY <1>1, SafetyInvariance, PTL

\* A pending row belongs to a running request, to an end under way or given up, or
\* waits for the startup run after the death of the process.
THEOREM PendingRowsHaveOwners == Spec => []PendingRowHasAnOwner
<1>1. ASSUME SafetyInvariant, NEW r \in Requests, rows[r] = "pending",
             place[r] \in {"done", "killed"}
      PROVE  InFlight(r) \/ lost[r] # None \/ (place[r] = "killed" /\ startup # "ready")
  <2>1. RequestOK(r) /\ end[r] \in Ends \cup {None} /\ "pending" \notin Ends
        /\ None # "pending"
    BY <1>1, RequestLogAssumption DEF SafetyInvariant, TypeOK, Ends, RequestLogAssumption
  <2>2. CASE place[r] = "killed"
    BY <1>1, <2>1, <2>2 DEF RequestOK, RowFitsPlace
  <2>3. CASE place[r] = "done"
    <3>1. end[r] # None
      BY <1>1, <2>1, <2>3 DEF RequestOK, RowFitsPlace
    <3>2. r \in tasks \/ Carries(r, end[r]) \/ lost[r] # None
      BY <1>1, <2>1, <2>3, <3>1 DEF RequestOK, Accounted
    <3> QED
      BY <1>1, <3>1, <3>2, CarriedIsInFlight
  <2> QED
    BY <1>1, <2>2, <2>3
<1>2. SafetyInvariant => PendingRowHasAnOwner
  BY <1>1 DEF PendingRowHasAnOwner
<1> QED
  BY <1>2, SafetyInvariance, PTL

\* An entry of the registry belongs to a handler or a stream that will remove it.
THEOREM ActiveEntriesAreOwned == Spec => []NoStaleActiveEntry
<1>1. SafetyInvariant => NoStaleActiveEntry
  BY DEF SafetyInvariant, TypeOK, RequestOK, EndFitsPlace, Unended, NoStaleActiveEntry
<1> QED
  BY <1>1, SafetyInvariance, PTL
=============================================================================
