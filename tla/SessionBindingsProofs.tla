------------------------ MODULE SessionBindingsProofs ------------------------
(***************************************************************************)
(* Theorems about SessionBindings: its types and the invariants that its    *)
(* run checks.                                                              *)
(***************************************************************************)
EXTENDS SessionBindings, TLAPS

\* Places of a request before the step that may create its binding.
Early == {"new", "selecting", "binding"}

Planning == {"planned", "dropping"}

\* Places of a request that knows the configured route.
Routed == {"binding", "resolving", "clearing", "snapshot", "deciding"}

\* Requests are numbered as they begin, and commit what they planned.
Orderly ==
    \A r \in Requests :
        /\ r >= next_binding_request => requests[r].place = "new"
        /\ requests[r].place # "new" => requests[r].session \in Sessions
        /\ requests[r].place \in Early => requests[r].commit = None
        /\ requests[r].place \in Planning => ~requests[r].compact
        /\ requests[r].place \in Routed => requests[r].route # None
        /\ requests[r].place = "committed" => requests[r].commit # None

\* A binding, and a commit, is of a request that is past the step that creates
\* bindings, so that its number names one binding.
Born ==
    /\ \A s \in Sessions :
        bindings[s] # None => requests[bindings[s].creation_request].place \notin Early
    /\ \A r \in Requests :
        requests[r].commit # None => requests[requests[r].commit.born].place \notin Early

\* A pending generation is above what was consumed, at the reservation and at the
\* commit, and what a commit replaced is below it.
Generations ==
    /\ \A s \in Sessions : bindings[s] # None => bindings[s].consumed <= bindings[s].completed
    /\ \A s \in Sessions :
        /\ bindings[s] # None
        /\ bindings[s].reservation # None
        /\ bindings[s].reservation.trigger.generation > 0
        => /\ bindings[s].consumed < bindings[s].reservation.trigger.generation
           /\ bindings[s].reservation.trigger.generation <= bindings[s].completed
    /\ \A r \in Requests :
        requests[r].commit # None /\ requests[r].commit.trigger.generation > 0 =>
            requests[r].commit.consumed < requests[r].commit.trigger.generation

\* r has spent a generation of the binding that s has now.
SpentOn(r, s, generation) ==
    /\ Spends(r, generation)
    /\ requests[r].session = s
    /\ requests[r].commit.born = bindings[s].creation_request

\* What was spent stays consumed, or a later compaction has completed since (a rollback
\* that meets a later binding may take consumed back).
SpentIsOver ==
    \A s \in Sessions, r \in Requests, generation \in Nat \ {0} :
        bindings[s] # None /\ SpentOn(r, s, generation) =>
            generation <= bindings[s].consumed \/ generation < bindings[s].completed

\* What is reserved is not spent.
ReservedIsUnspent ==
    \A s \in Sessions, r \in Requests :
        /\ bindings[s] # None
        /\ bindings[s].reservation # None
        /\ bindings[s].reservation.trigger.generation > 0
        => ~SpentOn(r, s, bindings[s].reservation.trigger.generation)

\* CompactionIsSpentOnce for every generation.
SpentOnce ==
    \A q, r \in Requests, generation \in Nat \ {0} :
        /\ q # r
        /\ Spends(q, generation) /\ Spends(r, generation)
        /\ requests[q].session = requests[r].session
        => requests[q].commit.born # requests[r].commit.born

Spending == SpentIsOver /\ ReservedIsUnspent /\ SpentOnce

IInv ==
    /\ TypeOK /\ Orderly /\ Born /\ ReservationHasHolder /\ Generations /\ Spending
    /\ NewestAnswerIsBound

-----------------------------------------------------------------------------
(* Types.                                                                   *)

LEMMA Constants ==
    /\ SESSION_TTL \in Nat /\ TRIGGER_RESERVATION_TTL \in Nat
    /\ MaxRequests \in Nat /\ MaxCompactions \in Nat /\ MaxTime \in Nat
    /\ None \notin Nat /\ None \notin Routes /\ None \notin Fingerprints
    /\ None \notin Providers /\ None \notin Sessions /\ None \notin Requests
    /\ None \notin Binding /\ None \notin Reservation /\ None \notin Commit
BY SessionAssumption, NoneAssumption DEF SessionAssumption, Requests

LEMMA Typed ==
    ASSUME TypeOK
    PROVE  /\ now \in Nat
           /\ bindings \in [Sessions -> Binding \cup {None}]
           /\ requests \in [Requests -> Request]
           /\ \A s \in Sessions : bindings[s] # None => bindings[s] \in Binding
           /\ \A r \in Requests : requests[r] \in Request /\ requests[r].created_at \in Nat
BY DEF TypeOK, Request

\* A binding that still is the one it was.
KeptBinding(b, k) ==
    /\ b \in Binding /\ k \in Binding
    /\ k.creation_request = b.creation_request
    /\ k.consumed = b.consumed /\ k.completed >= b.completed
    /\ k.reservation = b.reservation \/ k.reservation = None

SameAnswer(b, k) ==
    /\ k.creation_request = b.creation_request
    /\ k.provider_id = b.provider_id
    /\ k.last_binding_request = b.last_binding_request

Keeps(b, k) == b # None /\ KeptBinding(b, k) /\ SameAnswer(b, k)

LEMMA KeptUpdates ==
    ASSUME NEW b \in Binding, NEW t \in Nat
    PROVE  /\ Keeps(b, b)
           /\ Keeps(b, [b EXCEPT !.expires_at = t])
           /\ Keeps(b, [b EXCEPT !.reservation = None])
           /\ Keeps(b, [b EXCEPT !.completed = b.completed + 1, !.expires_at = t])
           /\ \A route \in Routes : Keeps(b, [b EXCEPT !.route = route, !.expires_at = t])
<1>1. b.completed \in Nat /\ b.completed + 1 \in Nat /\ b # None
  BY Constants DEF Binding
<1>2. Keeps(b, b)
  BY <1>1 DEF Keeps, KeptBinding, SameAnswer
<1>3. Keeps(b, [b EXCEPT !.expires_at = t])
  <2> DEFINE k == [b EXCEPT !.expires_at = t]
  <2>1. k \in Binding
    BY <1>1 DEF Binding
  <2>2. /\ k.creation_request = b.creation_request /\ k.consumed = b.consumed
        /\ k.provider_id = b.provider_id /\ k.last_binding_request = b.last_binding_request
    BY DEF Binding
  <2>3. k.completed = b.completed /\ k.reservation = b.reservation
    BY DEF Binding
  <2> HIDE DEF k
  <2>4. Keeps(b, k)
    BY <1>1, <2>1, <2>2, <2>3 DEF Keeps, KeptBinding, SameAnswer
  <2> QED
    BY <2>4 DEF k
<1>4. Keeps(b, [b EXCEPT !.reservation = None])
  <2> DEFINE k == [b EXCEPT !.reservation = None]
  <2>1. k \in Binding
    BY <1>1 DEF Binding
  <2>2. /\ k.creation_request = b.creation_request /\ k.consumed = b.consumed
        /\ k.provider_id = b.provider_id /\ k.last_binding_request = b.last_binding_request
    BY DEF Binding
  <2>3. k.completed = b.completed /\ k.reservation = None
    BY DEF Binding
  <2> HIDE DEF k
  <2>4. Keeps(b, k)
    BY <1>1, <2>1, <2>2, <2>3 DEF Keeps, KeptBinding, SameAnswer
  <2> QED
    BY <2>4 DEF k
<1>5. Keeps(b, [b EXCEPT !.completed = b.completed + 1, !.expires_at = t])
  <2> DEFINE k == [b EXCEPT !.completed = b.completed + 1, !.expires_at = t]
  <2>1. k \in Binding
    BY <1>1 DEF Binding
  <2>2. /\ k.creation_request = b.creation_request /\ k.consumed = b.consumed
        /\ k.provider_id = b.provider_id /\ k.last_binding_request = b.last_binding_request
    BY DEF Binding
  <2>3. k.completed = b.completed + 1 /\ k.reservation = b.reservation
    BY DEF Binding
  <2> HIDE DEF k
  <2>4. Keeps(b, k)
    BY <1>1, <2>1, <2>2, <2>3 DEF Keeps, KeptBinding, SameAnswer
  <2> QED
    BY <2>4 DEF k
<1>6. ASSUME NEW route \in Routes
      PROVE  Keeps(b, [b EXCEPT !.route = route, !.expires_at = t])
  <2> DEFINE k == [b EXCEPT !.route = route, !.expires_at = t]
  <2>1. k \in Binding
    BY <1>1 DEF Binding
  <2>2. /\ k.creation_request = b.creation_request /\ k.consumed = b.consumed
        /\ k.provider_id = b.provider_id /\ k.last_binding_request = b.last_binding_request
    BY DEF Binding
  <2>3. k.completed = b.completed /\ k.reservation = b.reservation
    BY DEF Binding
  <2> HIDE DEF k
  <2>4. Keeps(b, k)
    BY <1>1, <2>1, <2>2, <2>3 DEF Keeps, KeptBinding, SameAnswer
  <2> QED
    BY <2>4 DEF k
<1> QED
  BY <1>2, <1>3, <1>4, <1>5, <1>6

KeptBindings ==
    /\ bindings' \in [Sessions -> Binding \cup {None}]
    /\ \A s \in Sessions :
        bindings'[s] # None => bindings[s] # None /\ KeptBinding(bindings[s], bindings'[s])

SameAnswers ==
    \A s \in Sessions :
        bindings'[s] # None =>
            /\ bindings[s] # None
            /\ SameAnswer(bindings[s], bindings'[s])
            /\ successes'[s] = successes[s]

LEMMA ForgetType ==
    ASSUME TypeOK, Forget
    PROVE  /\ successes' \in [Sessions -> SUBSET (Requests \X Providers)]
           /\ \A s \in Sessions : bindings'[s] # None => successes'[s] = successes[s]
BY DEF TypeOK, Forget

\* Every binding goes or keeps what the invariants are about.
LEMMA KeepAll ==
    ASSUME TypeOK, bindings' \in [Sessions -> Binding \cup {None}],
           \A s \in Sessions : bindings'[s] = None \/ Keeps(bindings[s], bindings'[s])
    PROVE  /\ KeptBindings
           /\ (\A s \in Sessions : bindings'[s] # None => successes'[s] = successes[s])
                => SameAnswers
BY DEF KeptBindings, SameAnswers, Keeps

\* One binding is replaced.
LEMMA PutBinding ==
    ASSUME TypeOK, NEW s \in Sessions, NEW k,
           k = None \/ Keeps(bindings[s], k),
           bindings' = [bindings EXCEPT ![s] = k]
    PROVE  /\ bindings' \in [Sessions -> Binding \cup {None}]
           /\ bindings'[s] = k
           /\ KeptBindings
           /\ (\A x \in Sessions : bindings'[x] # None => successes'[x] = successes[x])
                => SameAnswers
<1>1. k \in Binding \cup {None}
  BY DEF Keeps, KeptBinding
<1>2. bindings' \in [Sessions -> Binding \cup {None}]
  BY <1>1 DEF TypeOK
<1>3. bindings'[s] = k /\ \A x \in Sessions \ {s} : bindings'[x] = bindings[x]
  BY DEF TypeOK
<1>4. \A x \in Sessions : bindings[x] = None \/ Keeps(bindings[x], bindings[x])
  BY Typed, KeptUpdates, Constants
<1>5. \A x \in Sessions : bindings'[x] = None \/ Keeps(bindings[x], bindings'[x])
  BY <1>3, <1>4
<1> QED
  BY <1>2, <1>3, <1>5, KeepAll

LEMMA TouchedKeeps ==
    ASSUME TypeOK, NEW s \in Sessions, NEW t \in Nat, bindings' = Touched(s, t), Forget
    PROVE  KeptBindings /\ SameAnswers
<1> DEFINE u == t + SESSION_TTL
           k == IF Live(s, t) THEN [bindings[s] EXCEPT !.expires_at = u] ELSE None
<1>1. u \in Nat
  BY Constants
<1>2. bindings' = [bindings EXCEPT ![s] = k]
  BY DEF Touched
<1> HIDE DEF u
<1>3. k = None \/ Keeps(bindings[s], k)
  <2>1. CASE Live(s, t)
    <3>1. bindings[s] \in Binding
      BY <2>1, Typed DEF Live
    <3>2. Keeps(bindings[s], [bindings[s] EXCEPT !.expires_at = u])
      BY <3>1, <1>1, KeptUpdates
    <3> QED
      BY <2>1, <3>2
  <2>2. CASE ~Live(s, t)
    BY <2>2
  <2> QED
    BY <2>1, <2>2
<1> HIDE DEF k
<1> QED
  BY <1>2, <1>3, PutBinding, ForgetType

LEMMA UnchangedKeeps ==
    ASSUME TypeOK, UNCHANGED <<bindings, successes>>
    PROVE  KeptBindings /\ SameAnswers
<1>1. \A x \in Sessions : bindings[x] = None \/ Keeps(bindings[x], bindings[x])
  BY Typed, KeptUpdates, Constants
<1> QED
  BY <1>1, KeepAll DEF TypeOK

-----------------------------------------------------------------------------
(* What a step does to the requests.                                        *)

\* A commit stays, or is undone.
KeptCommit(c, d) ==
    \/ d = c
    \/ /\ c # None
       /\ d.trigger = c.trigger /\ d.consumed = c.consumed /\ d.born = c.born
       /\ d.undone

QuietRequests ==
    /\ requests' \in [Requests -> Request]
    /\ \A q \in Requests :
        /\ KeptCommit(requests[q].commit, requests'[q].commit)
        /\ requests[q].place # "new" => requests'[q].session = requests[q].session
        /\ requests[q].place \notin Early => requests'[q].place \notin Early

\* Nobody leaves a reservation behind.
HoldersStay ==
    \A q \in Requests, s \in Sessions :
        /\ requests[q].place \in Planning
        /\ requests[q].session = s
        /\ bindings'[s] # None
        /\ bindings'[s].reservation # None
        /\ bindings'[s].reservation.owner = q
        => requests'[q].place \in Planning

\* Request r goes on; what it committed stays.
LEMMA Goes ==
    ASSUME TypeOK, Orderly, NEW r \in Requests, NEW x \in Request,
           requests' = [requests EXCEPT ![r] = x],
           next_binding_request' = next_binding_request,
           x.session = requests[r].session, x.commit = requests[r].commit,
           requests[r].place # "new", x.place \notin {"new", "committed"},
           x.place \in Early => requests[r].place \in Early,
           x.place \in Planning => ~x.compact,
           x.place \in Routed => x.route # None,
           \/ requests[r].place \notin Planning
           \/ x.place \in Planning
           \/ LET s == requests[r].session IN
              bindings'[s] # None /\ bindings'[s].reservation # None
                => bindings'[s].reservation.owner # r
    PROVE  QuietRequests /\ Orderly' /\ HoldersStay
<1>1. requests' \in [Requests -> Request]
  BY DEF TypeOK
<1>2. requests'[r] = x /\ \A q \in Requests \ {r} : requests'[q] = requests[q]
  BY DEF TypeOK
<1>3. QuietRequests
  BY <1>1, <1>2 DEF QuietRequests, KeptCommit
<1>4. Orderly'
  BY <1>2 DEF Orderly
<1>5. HoldersStay
  BY <1>2 DEF HoldersStay
<1> QED
  BY <1>3, <1>4, <1>5

LEMMA MovesType ==
    ASSUME TypeOK, NEW r \in Requests, NEW place \in Places, Moves(r, place)
    PROVE  \E x \in Request :
           /\ requests' = [requests EXCEPT ![r] = x]
           /\ x.session = requests[r].session /\ x.commit = requests[r].commit
           /\ x.place = place /\ x.compact = requests[r].compact
           /\ x.route = requests[r].route
<1> DEFINE x == [requests[r] EXCEPT !.place = place]
<1>1. requests' = [requests EXCEPT ![r] = x]
  BY DEF Moves
<1>2. x \in Request
  BY Typed DEF Request
<1>3. /\ x.session = requests[r].session /\ x.commit = requests[r].commit
      /\ x.place = place /\ x.compact = requests[r].compact
      /\ x.route = requests[r].route
  BY Typed DEF Request
<1> QED
  BY <1>1, <1>2, <1>3

LEMMA SettlesType ==
    ASSUME TypeOK, NEW r \in Requests, NEW place \in Places, Settles(r, place)
    PROVE  \E x \in Request :
           /\ requests' = [requests EXCEPT ![r] = x]
           /\ x.session = requests[r].session /\ x.commit = requests[r].commit
           /\ x.place = place
           /\ x.compact => requests[r].compact
<1> DEFINE x == [NewRequest EXCEPT !.place = place,
                                  !.session = requests[r].session,
                                  !.compact = place # "done" /\ requests[r].compact,
                                  !.commit = requests[r].commit]
<1>1. requests' = [requests EXCEPT ![r] = x]
  BY DEF Settles
<1>2. /\ requests[r].session \in Sessions \cup {None}
      /\ requests[r].compact \in BOOLEAN
      /\ requests[r].commit \in Commit \cup {None}
  BY Typed DEF Request
<1>3. (place # "done" /\ requests[r].compact) \in BOOLEAN
  OBVIOUS
<1>4. NewRequest \in Request
  BY DEF NewRequest, Request, Places
<1>5. x \in Request
  BY <1>2, <1>3, <1>4 DEF Request
<1>6. /\ x.session = requests[r].session /\ x.commit = requests[r].commit /\ x.place = place
      /\ x.compact = (place # "done" /\ requests[r].compact)
  BY DEF NewRequest
<1> QED
  BY <1>1, <1>5, <1>6

LEMMA StepType ==
    ASSUME TypeOK, UNCHANGED <<now, next_binding_request, compact_requests>>,
           bindings' \in [Sessions -> Binding \cup {None}],
           requests' \in [Requests -> Request],
           successes' \in [Sessions -> SUBSET (Requests \X Providers)]
    PROVE  TypeOK'
BY DEF TypeOK

\* A step that changes no answer of a binding and forgets no other.
LEMMA NewestKept ==
    ASSUME NewestAnswerIsBound, SameAnswers
    PROVE  NewestAnswerIsBound'
BY DEF NewestAnswerIsBound, SameAnswers, SameAnswer, Bound, Counted

\* The binding of s goes, or still is the one it was.
KeptAt(s) ==
    bindings'[s] # None =>
        /\ bindings[s] # None
        /\ bindings[s] \in Binding /\ bindings'[s] \in Binding
        /\ bindings'[s].creation_request = bindings[s].creation_request
        /\ bindings'[s].consumed <= bindings[s].consumed
        /\ bindings'[s].completed >= bindings[s].completed

\* What is known of a commit, and that it stays.
LEMMA CommitsStay ==
    ASSUME TypeOK, Orderly, QuietRequests
    PROVE  \A r \in Requests :
            /\ requests'[r].commit # None =>
                  /\ requests[r].commit # None
                  /\ requests'[r].commit.trigger = requests[r].commit.trigger
                  /\ requests'[r].commit.consumed = requests[r].commit.consumed
                  /\ requests'[r].commit.born = requests[r].commit.born
                  /\ ~requests'[r].commit.undone => ~requests[r].commit.undone
                  /\ requests[r].commit.born \in Requests
                  /\ requests'[r].session = requests[r].session
            /\ requests[r].place \notin Early => requests'[r].place \notin Early
<1>1. ASSUME NEW r \in Requests, requests[r].commit # None
      PROVE  requests[r].commit.born \in Requests /\ requests[r].place # "new"
  <2>1. requests[r].commit \in Commit
    BY <1>1, Typed DEF Request
  <2> QED
    BY <1>1, <2>1 DEF Commit, Orderly, Early
<1> QED
  BY <1>1 DEF QuietRequests, KeptCommit

LEMMA SpendsStay ==
    ASSUME TypeOK, Orderly, QuietRequests
    PROVE  /\ \A r \in Requests, g \in Nat : Spends(r, g)' => Spends(r, g)
           /\ \A s \in Sessions, r \in Requests, g \in Nat :
                KeptAt(s) /\ bindings'[s] # None /\ SpentOn(r, s, g)' => SpentOn(r, s, g)
<1>1. \A r \in Requests, g \in Nat : Spends(r, g)' => Spends(r, g)
  BY CommitsStay DEF Spends
<1> QED
  BY <1>1, CommitsStay DEF SpentOn, Spends, KeptAt

\* The facts about commits.
LEMMA CommitStep ==
    ASSUME TypeOK, Born, Generations, Spending, Orderly, QuietRequests
    PROVE  /\ SpentOnce'
           /\ \A r \in Requests :
                requests'[r].commit # None =>
                    /\ requests'[requests'[r].commit.born].place \notin Early
                    /\ requests'[r].commit.trigger.generation > 0 =>
                        requests'[r].commit.consumed < requests'[r].commit.trigger.generation
<1>1. SpentOnce'
  <2> SUFFICES ASSUME NEW q \in Requests, NEW r \in Requests, NEW g \in Nat \ {0},
                      q # r, Spends(q, g)', Spends(r, g)',
                      requests'[q].session = requests'[r].session
               PROVE  requests'[q].commit.born # requests'[r].commit.born
    BY DEF SpentOnce
  <2>1. Spends(q, g) /\ Spends(r, g)
    BY SpendsStay
  <2>2. requests'[q].commit # None /\ requests'[r].commit # None
    BY DEF Spends
  <2>3. requests[q].session = requests[r].session
    BY <2>2, CommitsStay
  <2> QED
    BY <2>1, <2>2, <2>3, CommitsStay DEF Spending, SpentOnce
<1>2. \A r \in Requests :
        requests'[r].commit # None => requests'[requests'[r].commit.born].place \notin Early
  BY CommitsStay DEF Born
<1>3. \A r \in Requests :
        requests'[r].commit # None /\ requests'[r].commit.trigger.generation > 0 =>
            requests'[r].commit.consumed < requests'[r].commit.trigger.generation
  BY CommitsStay DEF Generations
<1> QED
  BY <1>1, <1>2, <1>3

\* The facts about the binding of a session and its two generations.
LEMMA CounterStep ==
    ASSUME TypeOK, Born, Generations, Spending, Orderly, QuietRequests,
           NEW s \in Sessions, bindings'[s] # None, KeptAt(s)
    PROVE  /\ requests'[bindings'[s].creation_request].place \notin Early
           /\ bindings'[s].consumed <= bindings'[s].completed
           /\ bindings'[s].consumed = bindings[s].consumed =>
                \A r \in Requests, g \in Nat \ {0} :
                    SpentOn(r, s, g)' => g <= bindings'[s].consumed \/ g < bindings'[s].completed
<1>1. /\ bindings[s].creation_request \in Requests
      /\ bindings[s].completed \in Nat /\ bindings[s].consumed \in Nat
      /\ bindings'[s].completed \in Nat /\ bindings'[s].consumed \in Nat
  BY DEF KeptAt, Binding
<1>2. requests'[bindings'[s].creation_request].place \notin Early
  BY <1>1, CommitsStay DEF Born, KeptAt
<1>3. bindings'[s].consumed <= bindings'[s].completed
  <2>1. bindings[s].consumed <= bindings[s].completed
    BY DEF Generations, KeptAt
  <2> QED
    BY <1>1, <2>1 DEF KeptAt
<1>4. ASSUME bindings'[s].consumed = bindings[s].consumed,
             NEW r \in Requests, NEW g \in Nat \ {0}, SpentOn(r, s, g)'
      PROVE  g <= bindings'[s].consumed \/ g < bindings'[s].completed
  <2>1. bindings[s] # None /\ SpentOn(r, s, g)
    BY <1>4, SpendsStay DEF KeptAt
  <2>2. g <= bindings[s].consumed \/ g < bindings[s].completed
    BY <2>1 DEF Spending, SpentIsOver
  <2> QED
    BY <1>1, <1>4, <2>2 DEF KeptAt
<1> QED
  BY <1>2, <1>3, <1>4

\* What a reservation that stays, in a binding that stays, goes on to be.
LEMMA ReservationStays ==
    ASSUME TypeOK, ReservationHasHolder, Generations, Spending, Orderly,
           QuietRequests, HoldersStay,
           NEW s \in Sessions, KeptAt(s), bindings'[s] # None, bindings'[s].reservation # None,
           bindings'[s].reservation = bindings[s].reservation
    PROVE  /\ requests'[bindings'[s].reservation.owner].session = s
           /\ requests'[bindings'[s].reservation.owner].place \in Planning
           /\ bindings'[s].reservation.trigger.generation > 0 =>
                /\ bindings'[s].consumed < bindings'[s].reservation.trigger.generation
                /\ bindings'[s].reservation.trigger.generation <= bindings'[s].completed
           /\ \A r \in Requests, g \in Nat :
                g > 0 /\ g = bindings'[s].reservation.trigger.generation => ~SpentOn(r, s, g)'
<1> DEFINE q == bindings[s].reservation.owner
<1>1. /\ bindings[s] # None /\ q \in Requests
      /\ bindings[s].reservation.trigger.generation \in Nat
      /\ bindings[s].completed \in Nat /\ bindings'[s].completed \in Nat
      /\ bindings[s].consumed \in Nat /\ bindings'[s].consumed \in Nat
  BY DEF KeptAt, Binding, Reservation, Trigger
<1>2. requests[q].session = s /\ requests[q].place \in Planning
  BY <1>1 DEF ReservationHasHolder, Bound, Planning
<1>3. requests'[q].session = s
  BY <1>1, <1>2 DEF QuietRequests, Planning
<1>4. requests'[q].place \in Planning
  BY <1>1, <1>2 DEF HoldersStay
<1>5. ASSUME bindings'[s].reservation.trigger.generation > 0
      PROVE  /\ bindings'[s].consumed < bindings'[s].reservation.trigger.generation
             /\ bindings'[s].reservation.trigger.generation <= bindings'[s].completed
  <2>1. /\ bindings[s].consumed < bindings[s].reservation.trigger.generation
        /\ bindings[s].reservation.trigger.generation <= bindings[s].completed
    BY <1>1, <1>5 DEF Generations
  <2> QED
    BY <1>1, <2>1 DEF KeptAt
<1>6. ASSUME NEW r \in Requests, NEW g \in Nat,
             g > 0, g = bindings'[s].reservation.trigger.generation, SpentOn(r, s, g)'
      PROVE  FALSE
  <2>1. SpentOn(r, s, g)
    BY <1>6, SpendsStay
  <2> QED
    BY <1>1, <1>6, <2>1 DEF Spending, ReservedIsUnspent
<1> QED
  BY <1>3, <1>4, <1>5, <1>6

\* What the invariant says of a session after the step, and of the commits.
SessionIsSound(s) ==
    bindings'[s] # None =>
        /\ requests'[bindings'[s].creation_request].place \notin Early
        /\ bindings'[s].consumed <= bindings'[s].completed
        /\ \A r \in Requests, g \in Nat \ {0} :
              SpentOn(r, s, g)' => g <= bindings'[s].consumed \/ g < bindings'[s].completed
        /\ bindings'[s].reservation # None =>
              /\ requests'[bindings'[s].reservation.owner].session = s
              /\ requests'[bindings'[s].reservation.owner].place \in Planning
              /\ bindings'[s].reservation.trigger.generation > 0 =>
                    /\ bindings'[s].consumed < bindings'[s].reservation.trigger.generation
                    /\ bindings'[s].reservation.trigger.generation <= bindings'[s].completed
              /\ \A r \in Requests, g \in Nat :
                    g > 0 /\ g = bindings'[s].reservation.trigger.generation
                    => ~SpentOn(r, s, g)'

LEMMA Gathered ==
    ASSUME bindings' \in [Sessions -> Binding \cup {None}],
           \A s \in Sessions : SessionIsSound(s),
           SpentOnce',
           \A r \in Requests :
              requests'[r].commit # None =>
                /\ requests'[requests'[r].commit.born].place \notin Early
                /\ requests'[r].commit.trigger.generation > 0 =>
                      requests'[r].commit.consumed < requests'[r].commit.trigger.generation
    PROVE  Born' /\ ReservationHasHolder' /\ Generations' /\ Spending'
<1>1. Born'
  BY DEF Born, SessionIsSound
<1>2. ReservationHasHolder'
  BY DEF ReservationHasHolder, Bound, Planning, SessionIsSound
<1>3. Generations'
  BY DEF Generations, SessionIsSound
<1>4. SpentIsOver'
  BY DEF SpentIsOver, SpentOn, Spends, SessionIsSound
<1>5. ReservedIsUnspent'
  <2>1. ASSUME NEW s \in Sessions, bindings'[s] # None, bindings'[s].reservation # None
        PROVE  bindings'[s].reservation.trigger.generation \in Nat
    <3>1. bindings'[s] \in Binding
      BY <2>1
    <3> QED
      BY <2>1, <3>1 DEF Binding, Reservation, Trigger
  <2> QED
    BY <2>1 DEF ReservedIsUnspent, SpentOn, Spends, SessionIsSound
<1> QED
  BY <1>1, <1>2, <1>3, <1>4, <1>5 DEF Spending

LEMMA KeptIsSound ==
    ASSUME TypeOK, Born, ReservationHasHolder, Generations, Spending,
           QuietRequests, HoldersStay, Orderly,
           NEW s \in Sessions, KeptAt(s),
           bindings'[s] # None =>
              /\ bindings'[s].consumed = bindings[s].consumed
              /\ bindings'[s].reservation # None =>
                    bindings'[s].reservation = bindings[s].reservation
    PROVE  SessionIsSound(s)
BY CounterStep, ReservationStays DEF SessionIsSound

LEMMA QuietStep ==
    ASSUME TypeOK, Born, ReservationHasHolder, Generations, Spending,
           KeptBindings, QuietRequests, HoldersStay, Orderly
    PROVE  Born' /\ ReservationHasHolder' /\ Generations' /\ Spending'
<1>1. ASSUME NEW s \in Sessions
      PROVE  SessionIsSound(s)
  <2>1. bindings'[s] # None => KeptBinding(bindings[s], bindings'[s]) /\ bindings[s] # None
    BY DEF KeptBindings
  <2>2. KeptAt(s)
    BY <2>1 DEF KeptBinding, KeptAt, Binding
  <2>3. bindings'[s] # None =>
          /\ bindings'[s].consumed = bindings[s].consumed
          /\ bindings'[s].reservation # None =>
                bindings'[s].reservation = bindings[s].reservation
    BY <2>1 DEF KeptBinding
  <2> QED
    BY <2>2, <2>3, KeptIsSound
<1> QED
  BY <1>1, CommitStep, Gathered DEF KeptBindings

LEMMA QuietInv ==
    ASSUME IInv, UNCHANGED <<now, next_binding_request, compact_requests>>,
           KeptBindings, SameAnswers, QuietRequests, Orderly', HoldersStay,
           successes' \in [Sessions -> SUBSET (Requests \X Providers)]
    PROVE  IInv'
<1>1. TypeOK'
  BY StepType DEF IInv, KeptBindings, QuietRequests
<1>2. NewestAnswerIsBound'
  BY NewestKept DEF IInv
<1>3. Born' /\ ReservationHasHolder' /\ Generations' /\ Spending'
  BY QuietStep DEF IInv
<1> QED
  BY <1>1, <1>2, <1>3 DEF IInv

\* Who a step of r is about.
LEMMA Session ==
    ASSUME TypeOK, Orderly, NEW r \in Requests, requests[r].place # "new"
    PROVE  /\ requests[r].session \in Sessions
           /\ requests[r].created_at \in Nat
BY Typed DEF Orderly

-----------------------------------------------------------------------------
(* The steps that keep every fact about the bindings.                       *)

LEMMA SelectProvidersInv ==
    ASSUME IInv, NEW r \in Requests, NEW route \in Routes, SelectProviders(r, route)
    PROVE  IInv'
<1> DEFINE s == requests[r].session
           t == requests[r].created_at
           place == IF Live(s, t) THEN "resolving" ELSE "binding"
           changed == Live(s, t) /\ bindings[s].route # route
           x == [requests[r] EXCEPT !.place = place, !.route = route, !.route_changed = changed]
<1>1. s \in Sessions /\ t \in Nat /\ requests[r].place = "selecting"
  BY Session DEF SelectProviders, IInv
<1>2. requests' = [requests EXCEPT ![r] = x]
  BY DEF SelectProviders
<1>3. bindings' = Touched(s, t) /\ Forget
  BY DEF SelectProviders
<1>4. UNCHANGED <<now, next_binding_request, compact_requests>>
  BY DEF SelectProviders
<1> HIDE DEF s, t
<1>5. place \in {"resolving", "binding"} /\ changed \in BOOLEAN
  BY Zenon
<1> HIDE DEF place, changed
<1>6. x \in Request
  BY <1>5, Typed DEF Request, Places, IInv
<1>7. /\ x.session = requests[r].session /\ x.commit = requests[r].commit /\ x.place = place
      /\ x.route # None
  BY Constants, Typed DEF Request, IInv
<1> HIDE DEF x
<1>8. KeptBindings /\ SameAnswers
  BY <1>1, <1>3, TouchedKeeps DEF IInv
<1>9. QuietRequests /\ Orderly' /\ HoldersStay
  BY <1>1, <1>2, <1>4, <1>5, <1>6, <1>7, Goes DEF IInv, Early, Planning
<1> QED
  BY <1>3, <1>4, <1>8, <1>9, ForgetType, QuietInv DEF IInv

LEMMA GetBoundProviderInv ==
    ASSUME IInv, NEW r \in Requests, GetBoundProvider(r)
    PROVE  IInv'
<1> DEFINE s == requests[r].session
           t == requests[r].created_at
<1>1. /\ s \in Sessions /\ t \in Nat
      /\ requests[r].place = "resolving" /\ requests[r].route # None
  BY Session DEF GetBoundProvider, Orderly, Routed, IInv
<1>2. bindings' = Touched(s, t) /\ Forget
  BY DEF GetBoundProvider
<1>3. UNCHANGED <<now, next_binding_request, compact_requests>>
  BY DEF GetBoundProvider
<1>4. PICK x \in Request :
        /\ requests' = [requests EXCEPT ![r] = x]
        /\ x.session = requests[r].session /\ x.commit = requests[r].commit
        /\ x.place \in {"snapshot", "clearing"} /\ x.route = requests[r].route
  <2>1. CASE Moves(r, "snapshot")
    BY <2>1, MovesType DEF Places, IInv
  <2>2. CASE Moves(r, "clearing")
    BY <2>2, MovesType DEF Places, IInv
  <2>3. CASE requests' = [requests EXCEPT ![r].place = "snapshot", ![r].stable = TRUE]
    <3> DEFINE x == [requests[r] EXCEPT !.place = "snapshot", !.stable = TRUE]
    <3>1. requests' = [requests EXCEPT ![r] = x]
      BY <2>3, Typed DEF IInv
    <3>2. x \in Request
      BY Typed DEF Request, Places, IInv
    <3>3. /\ x.session = requests[r].session /\ x.commit = requests[r].commit
          /\ x.place = "snapshot" /\ x.route = requests[r].route
      BY Typed DEF Request, IInv
    <3> QED
      BY <3>1, <3>2, <3>3
  <2> QED
    BY <2>1, <2>2, <2>3 DEF GetBoundProvider
<1> HIDE DEF s, t
<1>5. KeptBindings /\ SameAnswers
  BY <1>1, <1>2, TouchedKeeps DEF IInv
<1>6. QuietRequests /\ Orderly' /\ HoldersStay
  BY <1>1, <1>3, <1>4, Goes DEF IInv, Early, Planning
<1> QED
  BY <1>2, <1>3, <1>5, <1>6, ForgetType, QuietInv DEF IInv

LEMMA ClearBoundProviderInv ==
    ASSUME IInv, NEW r \in Requests, ClearBoundProvider(r)
    PROVE  IInv'
<1> DEFINE s == requests[r].session
<1>1. s \in Sessions /\ requests[r].place = "clearing" /\ requests[r].route # None
  BY Session DEF ClearBoundProvider, Orderly, Routed, IInv
<1>2. bindings' = [bindings EXCEPT ![s] = None] /\ Forget
  BY DEF ClearBoundProvider
<1>3. UNCHANGED <<now, next_binding_request, compact_requests>>
  BY DEF ClearBoundProvider
<1>4. PICK x \in Request :
        /\ requests' = [requests EXCEPT ![r] = x]
        /\ x.session = requests[r].session /\ x.commit = requests[r].commit
        /\ x.place = "snapshot" /\ x.route = requests[r].route
  BY MovesType DEF ClearBoundProvider, Places, IInv
<1> HIDE DEF s
<1>5. KeptBindings /\ SameAnswers
  BY <1>1, <1>2, PutBinding, ForgetType DEF IInv
<1>6. QuietRequests /\ Orderly' /\ HoldersStay
  BY <1>1, <1>3, <1>4, Goes DEF IInv, Early, Planning
<1> QED
  BY <1>2, <1>3, <1>5, <1>6, ForgetType, QuietInv DEF IInv

LEMMA PlanRequestFailbackInv ==
    ASSUME IInv, NEW r \in Requests, PlanRequestFailback(r)
    PROVE  IInv'
<1> DEFINE s == requests[r].session
           t == requests[r].created_at
           b == bindings[s]
           fingerprint == requests[r].fingerprint
           generation == IF Live(s, t) /\ b.completed > b.consumed THEN b.completed ELSE 0
           pending == fingerprint # None /\ (Live(s, t) => b.fingerprint # fingerprint)
           x == [requests[r] EXCEPT !.place = "deciding", !.generation = generation,
                                    !.codex_pending = pending]
<1>1. /\ s \in Sessions /\ t \in Nat
      /\ requests[r].place = "snapshot" /\ requests[r].route # None
  BY Session DEF PlanRequestFailback, Orderly, Routed, IInv
<1>2. requests' = [requests EXCEPT ![r] = x]
  BY DEF PlanRequestFailback
<1>3. bindings' = Touched(s, t) /\ Forget
  BY DEF PlanRequestFailback
<1>4. UNCHANGED <<now, next_binding_request, compact_requests>>
  BY DEF PlanRequestFailback
<1> HIDE DEF s, t
<1>5. generation \in Nat
  BY <1>1, Typed DEF Live, Binding, IInv
<1>6. pending \in BOOLEAN
  BY Zenon
<1> HIDE DEF b, fingerprint, generation, pending
<1>7. x \in Request
  BY <1>5, <1>6, Typed DEF Request, Places, IInv
<1>8. /\ x.session = requests[r].session /\ x.commit = requests[r].commit
      /\ x.place = "deciding" /\ x.route = requests[r].route
  BY Typed DEF Request, IInv
<1> HIDE DEF x
<1>9. KeptBindings /\ SameAnswers
  BY <1>1, <1>3, TouchedKeeps DEF IInv
<1>10. QuietRequests /\ Orderly' /\ HoldersStay
  BY <1>1, <1>2, <1>4, <1>7, <1>8, Goes DEF IInv, Early, Planning
<1> QED
  BY <1>3, <1>4, <1>9, <1>10, ForgetType, QuietInv DEF IInv

LEMMA ServeWithoutReservationInv ==
    ASSUME IInv, NEW r \in Requests, ServeWithoutReservation(r)
    PROVE  IInv'
<1>1. /\ requests[r].place = "deciding"
      /\ UNCHANGED <<now, next_binding_request, compact_requests>>
      /\ UNCHANGED <<bindings, successes>>
  BY DEF ServeWithoutReservation
<1>2. PICK x \in Request :
        /\ requests' = [requests EXCEPT ![r] = x]
        /\ x.session = requests[r].session /\ x.commit = requests[r].commit
        /\ x.place = "serving"
  BY SettlesType DEF ServeWithoutReservation, Places, IInv
<1>3. KeptBindings /\ SameAnswers
  BY <1>1, UnchangedKeeps DEF IInv
<1>4. QuietRequests /\ Orderly' /\ HoldersStay
  BY <1>1, <1>2, Goes DEF IInv, Early, Planning, Routed
<1> QED
  BY <1>1, <1>3, <1>4, QuietInv DEF IInv, TypeOK

LEMMA ConfirmRouteInv ==
    ASSUME IInv, NEW r \in Requests, ConfirmRoute(r)
    PROVE  IInv'
<1> DEFINE s == requests[r].session
           t == requests[r].created_at
           u == t + SESSION_TTL
           route == requests[r].route
           k == IF Live(s, t) THEN [bindings[s] EXCEPT !.route = route, !.expires_at = u]
                ELSE None
<1>1. s \in Sessions /\ t \in Nat /\ requests[r].place = "deciding" /\ route \in Routes
  BY Session, Typed DEF ConfirmRoute, Orderly, Routed, Request, IInv
<1>2. bindings' = [bindings EXCEPT ![s] = k] /\ Forget
  BY DEF ConfirmRoute
<1>3. UNCHANGED <<now, next_binding_request, compact_requests>>
  BY DEF ConfirmRoute
<1>4. PICK x \in Request :
        /\ requests' = [requests EXCEPT ![r] = x]
        /\ x.session = requests[r].session /\ x.commit = requests[r].commit
        /\ x.place = "serving"
  BY SettlesType DEF ConfirmRoute, Places, IInv
<1>5. u \in Nat
  BY <1>1, Constants
<1> HIDE DEF s, t, u, route
<1>6. k = None \/ Keeps(bindings[s], k)
  <2>1. CASE Live(s, t)
    <3>1. bindings[s] \in Binding
      BY <1>1, <2>1, Typed DEF Live, IInv
    <3>2. Keeps(bindings[s], [bindings[s] EXCEPT !.route = route, !.expires_at = u])
      BY <1>1, <1>5, <3>1, KeptUpdates
    <3> QED
      BY <2>1, <3>2
  <2>2. CASE ~Live(s, t)
    BY <2>2
  <2> QED
    BY <2>1, <2>2
<1> HIDE DEF k
<1>7. KeptBindings /\ SameAnswers
  BY <1>1, <1>2, <1>6, PutBinding, ForgetType DEF IInv
<1>8. QuietRequests /\ Orderly' /\ HoldersStay
  BY <1>1, <1>3, <1>4, Goes DEF IInv, Early, Planning, Routed
<1> QED
  BY <1>2, <1>3, <1>7, <1>8, ForgetType, QuietInv DEF IInv

LEMMA LoseTriggerReservationInv ==
    ASSUME IInv, NEW r \in Requests, LoseTriggerReservation(r)
    PROVE  IInv'
<1> DEFINE s == requests[r].session
           b == bindings[s]
           mine == b.reservation # None /\ b.reservation.owner = r
           k == IF ~Live(s, now) THEN None
                ELSE IF mine THEN [b EXCEPT !.reservation = None] ELSE b
<1>1. s \in Sessions /\ requests[r].place = "planned"
  BY Session DEF LoseTriggerReservation, IInv
<1>2. bindings' = [bindings EXCEPT ![s] = k] /\ Forget
  BY DEF LoseTriggerReservation
<1>3. UNCHANGED <<now, next_binding_request, compact_requests>>
  BY DEF LoseTriggerReservation
<1>4. PICK x \in Request :
        /\ requests' = [requests EXCEPT ![r] = x]
        /\ x.session = requests[r].session /\ x.commit = requests[r].commit
        /\ x.place = "serving"
  BY MovesType DEF LoseTriggerReservation, Places, IInv
<1> HIDE DEF s
<1>5. /\ k = None \/ Keeps(b, k)
      /\ k # None /\ k.reservation # None => k.reservation.owner # r
  <2>1. CASE Live(s, now)
    <3>1. b \in Binding /\ b # None
      BY <1>1, <2>1, Typed DEF Live, IInv
    <3>2. Keeps(b, b) /\ Keeps(b, [b EXCEPT !.reservation = None])
      BY <3>1, KeptUpdates, Constants
    <3>3. [b EXCEPT !.reservation = None].reservation = None
      BY <3>1 DEF Binding
    <3>4. CASE mine
      BY <2>1, <3>2, <3>3, <3>4
    <3>5. CASE ~mine
      BY <2>1, <3>2, <3>5
    <3> QED
      BY <3>4, <3>5
  <2>2. CASE ~Live(s, now)
    BY <2>2
  <2> QED
    BY <2>1, <2>2
<1> HIDE DEF k
<1>6. KeptBindings /\ SameAnswers /\ bindings'[s] = k
  BY <1>1, <1>2, <1>5, PutBinding, ForgetType DEF IInv
<1>7. QuietRequests /\ Orderly' /\ HoldersStay
  BY <1>1, <1>3, <1>4, <1>5, <1>6, Goes DEF IInv, Early, Planning, Routed, s
<1> QED
  BY <1>2, <1>3, <1>6, <1>7, ForgetType, QuietInv DEF IInv

LEMMA DispatchInv ==
    ASSUME IInv, NEW r \in Requests, Dispatch(r)
    PROVE  IInv'
<1>1. /\ requests[r].place = "committed"
      /\ UNCHANGED <<now, next_binding_request, compact_requests>>
      /\ UNCHANGED <<bindings, successes>>
  BY DEF Dispatch
<1>2. PICK x \in Request :
        /\ requests' = [requests EXCEPT ![r] = x]
        /\ x.session = requests[r].session /\ x.commit = requests[r].commit
        /\ x.place = "serving"
  BY MovesType DEF Dispatch, Places, IInv
<1>3. KeptBindings /\ SameAnswers
  BY <1>1, UnchangedKeeps DEF IInv
<1>4. QuietRequests /\ Orderly' /\ HoldersStay
  BY <1>1, <1>2, Goes DEF IInv, Early, Planning, Routed
<1> QED
  BY <1>1, <1>3, <1>4, QuietInv DEF IInv, TypeOK

LEMMA EndUnboundInv ==
    ASSUME IInv, NEW r \in Requests, EndUnbound(r)
    PROVE  IInv'
<1>1. /\ requests[r].place = "serving"
      /\ UNCHANGED <<now, next_binding_request, compact_requests>>
      /\ UNCHANGED <<bindings, successes>>
  BY DEF EndUnbound
<1>2. PICK x \in Request :
        /\ requests' = [requests EXCEPT ![r] = x]
        /\ x.session = requests[r].session /\ x.commit = requests[r].commit
        /\ x.place \in {"done", "compacting"}
  BY SettlesType DEF EndUnbound, Places, IInv
<1>3. KeptBindings /\ SameAnswers
  BY <1>1, UnchangedKeeps DEF IInv
<1>4. QuietRequests /\ Orderly' /\ HoldersStay
  BY <1>1, <1>2, Goes DEF IInv, Early, Planning, Routed
<1> QED
  BY <1>1, <1>3, <1>4, QuietInv DEF IInv, TypeOK

LEMMA MarkCompactionCompletedInv ==
    ASSUME IInv, NEW r \in Requests, MarkCompactionCompleted(r)
    PROVE  IInv'
<1> DEFINE s == requests[r].session
           b == bindings[s]
           u == now + SESSION_TTL
           k == IF Live(s, now)
                THEN [b EXCEPT !.completed = b.completed + 1, !.expires_at = u] ELSE None
<1>1. s \in Sessions /\ requests[r].place = "compacting"
  BY Session DEF MarkCompactionCompleted, IInv
<1>2. bindings' = [bindings EXCEPT ![s] = k] /\ Forget
  BY DEF MarkCompactionCompleted
<1>3. UNCHANGED <<now, next_binding_request, compact_requests>>
  BY DEF MarkCompactionCompleted
<1>4. PICK x \in Request :
        /\ requests' = [requests EXCEPT ![r] = x]
        /\ x.session = requests[r].session /\ x.commit = requests[r].commit
        /\ x.place = "done"
  BY SettlesType DEF MarkCompactionCompleted, Places, IInv
<1>5. u \in Nat
  BY Constants, Typed DEF IInv
<1> HIDE DEF s, u
<1>6. k = None \/ Keeps(b, k)
  <2>1. CASE Live(s, now)
    <3>1. b \in Binding
      BY <1>1, <2>1, Typed DEF Live, IInv
    <3>2. Keeps(b, [b EXCEPT !.completed = b.completed + 1, !.expires_at = u])
      BY <1>5, <3>1, KeptUpdates
    <3> QED
      BY <2>1, <3>2
  <2>2. CASE ~Live(s, now)
    BY <2>2
  <2> QED
    BY <2>1, <2>2
<1> HIDE DEF k
<1>7. KeptBindings /\ SameAnswers
  BY <1>1, <1>2, <1>6, PutBinding, ForgetType DEF IInv
<1>8. QuietRequests /\ Orderly' /\ HoldersStay
  BY <1>1, <1>3, <1>4, Goes DEF IInv, Early, Planning, Routed
<1> QED
  BY <1>2, <1>3, <1>7, <1>8, ForgetType, QuietInv DEF IInv

LEMMA ReleaseTriggerReservationInv ==
    ASSUME IInv, NEW r \in Requests, ReleaseTriggerReservation(r)
    PROVE  IInv'
<1> DEFINE s == requests[r].session
           b == bindings[s]
           mine == b # None /\ b.reservation # None /\ b.reservation.owner = r
           k == IF mine THEN [b EXCEPT !.reservation = None] ELSE b
<1>1. s \in Sessions /\ requests[r].place \in Planning
  BY Session DEF ReleaseTriggerReservation, Planning, IInv
<1>2. bindings' = [bindings EXCEPT ![s] = k]
  BY DEF ReleaseTriggerReservation
<1>3. UNCHANGED <<now, next_binding_request, compact_requests, successes>>
  BY DEF ReleaseTriggerReservation
<1>4. PICK x \in Request :
        /\ requests' = [requests EXCEPT ![r] = x]
        /\ x.session = requests[r].session /\ x.commit = requests[r].commit
        /\ x.place = "done"
  BY SettlesType DEF ReleaseTriggerReservation, Places, IInv
<1> HIDE DEF s
<1>5. /\ k = None \/ Keeps(b, k)
      /\ k # None /\ k.reservation # None => k.reservation.owner # r
  <2>1. CASE b # None
    <3>1. b \in Binding
      BY <1>1, <2>1, Typed DEF IInv
    <3>2. Keeps(b, b) /\ Keeps(b, [b EXCEPT !.reservation = None])
      BY <3>1, KeptUpdates, Constants
    <3>3. [b EXCEPT !.reservation = None].reservation = None
      BY <3>1 DEF Binding
    <3>4. CASE mine
      BY <3>2, <3>3, <3>4
    <3>5. CASE ~mine
      BY <2>1, <3>2, <3>5
    <3> QED
      BY <3>4, <3>5
  <2>2. CASE b = None
    BY <2>2
  <2> QED
    BY <2>1, <2>2
<1> HIDE DEF k
<1>6. KeptBindings /\ SameAnswers /\ bindings'[s] = k
  BY <1>1, <1>2, <1>3, <1>5, PutBinding DEF IInv
<1>7. QuietRequests /\ Orderly' /\ HoldersStay
  BY <1>1, <1>3, <1>4, <1>5, <1>6, Goes DEF IInv, Early, Planning, Routed, s
<1> QED
  BY <1>3, <1>6, <1>7, QuietInv DEF IInv, TypeOK

-----------------------------------------------------------------------------
(* The reservation.                                                         *)

LEMMA PlannedTriggerType ==
    ASSUME TypeOK, NEW r \in Requests
    PROVE  /\ PlannedTrigger(r) \in Trigger
           /\ PlannedTrigger(r).generation > 0 => PlannedTrigger(r).route = None
BY Typed DEF PlannedTrigger, RouteChangedTrigger, CompactionTrigger, Trigger, Request

\* A generation that is reserved is the one that completed last, and is not consumed.
LEMMA ValidGeneration ==
    ASSUME NEW trigger \in Trigger, NEW b \in Binding, ValidTrigger(trigger, b),
           trigger.generation > 0, trigger.route = None
    PROVE  trigger.generation = b.completed /\ b.consumed < trigger.generation
BY DEF ValidTrigger, GenerationIsPending, Trigger, Binding

LEMMA TryReserveProbeTriggerInv ==
    ASSUME IInv, NEW r \in Requests, TryReserveProbeTrigger(r)
    PROVE  IInv'
<1> DEFINE s == requests[r].session
           t == requests[r].created_at
           b == bindings[s]
           trigger == PlannedTrigger(r)
           granted == Live(s, t) /\ ~HoldsReservation(b, t) /\ ValidTrigger(trigger, b)
           u == t + SESSION_TTL
           v == t + TRIGGER_RESERVATION_TTL
           reservation == [owner |-> r, trigger |-> trigger, expires_at |-> v]
           kept == [b EXCEPT !.reservation = IF HoldsReservation(b, t) THEN @ ELSE None]
           given == [b EXCEPT !.reservation = reservation, !.expires_at = u]
           k == IF ~Live(s, t) THEN None ELSE IF granted THEN given ELSE kept
<1>1. /\ s \in Sessions /\ t \in Nat
      /\ requests[r].place = "deciding" /\ ~requests[r].compact
  BY Session DEF TryReserveProbeTrigger, IInv
<1>2. bindings' = [bindings EXCEPT ![s] = k] /\ Forget
  BY DEF TryReserveProbeTrigger
<1>3. UNCHANGED <<now, next_binding_request, compact_requests>>
  BY DEF TryReserveProbeTrigger
<1>4. u \in Nat /\ v \in Nat
  BY <1>1, Constants
<1>5. PICK x \in Request :
        /\ requests' = [requests EXCEPT ![r] = x]
        /\ x.session = requests[r].session /\ x.commit = requests[r].commit
        /\ x.place = IF granted THEN "planned" ELSE "serving"
        /\ ~x.compact
  <2>1. Settles(r, IF granted THEN "planned" ELSE "serving")
    BY DEF TryReserveProbeTrigger
  <2>2. CASE granted
    <3>1. Settles(r, "planned")
      BY <2>1, <2>2
    <3> QED
      BY <1>1, <2>2, <3>1, SettlesType DEF Places, IInv
  <2>3. CASE ~granted
    <3>1. Settles(r, "serving")
      BY <2>1, <2>3
    <3> QED
      BY <1>1, <2>3, <3>1, SettlesType DEF Places, IInv
  <2> QED
    BY <2>2, <2>3
<1> HIDE DEF s, t, u, v
<1>6. x.place \in {"planned", "serving"}
  BY <1>5
<1>7. QuietRequests /\ Orderly' /\ HoldersStay
  BY <1>1, <1>3, <1>5, <1>6, Goes DEF IInv, Early, Planning, Routed
<1>8. /\ successes' \in [Sessions -> SUBSET (Requests \X Providers)]
      /\ \A y \in Sessions : bindings'[y] # None => successes'[y] = successes[y]
  BY <1>2, ForgetType DEF IInv
<1>9. CASE ~granted
  <2>1. k = None \/ Keeps(b, k)
    <3>1. CASE Live(s, t)
      <4>1. b \in Binding
        BY <1>1, <3>1, Typed DEF Live, IInv
      <4>2. kept = b \/ kept = [b EXCEPT !.reservation = None]
        BY <4>1 DEF Binding
      <4>3. Keeps(b, b) /\ Keeps(b, [b EXCEPT !.reservation = None])
        BY <4>1, KeptUpdates, Constants
      <4> QED
        BY <1>9, <3>1, <4>2, <4>3
    <3>2. CASE ~Live(s, t)
      BY <3>2
    <3> QED
      BY <3>1, <3>2
  <2> HIDE DEF k
  <2>2. KeptBindings /\ SameAnswers
    BY <1>1, <1>2, <2>1, PutBinding, ForgetType DEF IInv
  <2> QED
    BY <1>3, <1>7, <1>8, <2>2, QuietInv
<1>10. CASE granted
  <2>1. b \in Binding /\ b # None
    BY <1>1, <1>10, Typed DEF Live, IInv
  <2>2. trigger \in Trigger
    BY PlannedTriggerType DEF IInv
  <2>3. reservation \in Reservation
    BY <1>4, <2>2 DEF Reservation
  <2>4. given \in Binding
    BY <1>4, <2>1, <2>3 DEF Binding
  <2>5. /\ given.creation_request = b.creation_request
        /\ given.provider_id = b.provider_id
        /\ given.last_binding_request = b.last_binding_request
        /\ given.consumed = b.consumed /\ given.completed = b.completed
    BY <2>1 DEF Binding
  <2>6. given.reservation = reservation
    BY <2>1 DEF Binding
  <2>7. reservation.owner = r /\ reservation.trigger = trigger
    OBVIOUS
  <2>8. trigger.generation > 0 => trigger.generation = b.completed /\ b.consumed < trigger.generation
    BY <1>10, <2>1, <2>2, PlannedTriggerType, ValidGeneration DEF IInv
  <2> HIDE DEF reservation, trigger
  <2>9. k = given
    BY <1>10
  <2>16. requests'[r].session = s /\ requests'[r].place \in Planning
    <3>1. x.place = "planned" /\ x.session = s
      BY <1>5, <1>10 DEF s
    <3>2. requests'[r] = x
      BY <1>5 DEF IInv, TypeOK
    <3> QED
      BY <3>1, <3>2 DEF Planning
  <2> HIDE DEF k, given, granted, kept
  <2>10. /\ bindings' \in [Sessions -> Binding \cup {None}]
         /\ bindings'[s] = given
         /\ \A y \in Sessions \ {s} : bindings'[y] = bindings[y]
    BY <1>1, <1>2, <2>4, <2>9 DEF IInv, TypeOK
  <2>11. ASSUME NEW y \in Sessions
         PROVE  KeptAt(y) /\ (bindings'[y] # None => bindings'[y].consumed = bindings[y].consumed)
    <3>1. CASE y # s
      BY <2>10, <3>1, Typed DEF KeptAt, Binding, IInv
    <3>2. CASE y = s
      BY <2>1, <2>4, <2>5, <2>10, <3>2 DEF KeptAt, Binding
    <3> QED
      BY <3>1, <3>2
  <2>12. SameAnswers
    BY <1>8, <2>1, <2>5, <2>10 DEF SameAnswers, SameAnswer
  <2>13. NewestAnswerIsBound'
    BY <2>12, NewestKept DEF IInv
  <2>14. TypeOK'
    BY <1>3, <1>7, <1>8, <2>10, StepType DEF IInv, QuietRequests
  <2>15. ASSUME NEW z \in Sessions, z = s,
                NEW q \in Requests, NEW g \in Nat, g > 0, g = trigger.generation,
                SpentOn(q, z, g)'
         PROVE  FALSE
    <3>0. bindings'[s] # None /\ g \in Nat \ {0}
      BY <2>4, <2>10, <2>15, Constants
    <3>5. \A w \in Sessions, y \in Requests, h \in Nat :
            bindings'[w] # None /\ SpentOn(y, w, h)' => SpentOn(y, w, h)
      BY <1>7, <2>11, SpendsStay DEF IInv
    <3>1. SpentOn(q, z, g) /\ g \in Nat \ {0}
      BY <2>15, <3>0, <3>5
    <3>2. g <= b.consumed \/ g < b.completed
      BY <2>1, <2>15, <3>1 DEF IInv, Spending, SpentIsOver
    <3>3. g = b.completed /\ b.consumed < g
      BY <2>8, <2>15
    <3>4. b.completed \in Nat /\ b.consumed \in Nat
      BY <2>1 DEF Binding
    <3> QED
      BY <3>1, <3>2, <3>3, <3>4
  <2>17. b.completed \in Nat
    BY <2>1 DEF Binding
  <2>18. ASSUME NEW y \in Sessions
         PROVE  SessionIsSound(y)
    <3>1. CASE y = s
      <4>1. /\ bindings'[y].reservation.owner = r /\ bindings'[y].reservation.trigger = trigger
            /\ bindings'[y] # None
        BY <2>4, <2>6, <2>7, <2>10, <3>1, Constants
      <4>2. trigger.generation > 0 =>
              given.consumed < trigger.generation /\ trigger.generation <= given.completed
        BY <2>5, <2>8, <2>17
      <4>3. \A q \in Requests, g \in Nat :
              g > 0 /\ g = bindings'[y].reservation.trigger.generation => ~SpentOn(q, y, g)'
        BY <2>15, <3>1, <4>1
      <4>4. /\ requests'[bindings'[y].creation_request].place \notin Early
            /\ bindings'[y].consumed <= bindings'[y].completed
            /\ \A q \in Requests, g \in Nat \ {0} :
                SpentOn(q, y, g)' => g <= bindings'[y].consumed \/ g < bindings'[y].completed
        BY <1>7, <2>11, <4>1, CounterStep DEF IInv
      <4> QED
        BY <2>10, <2>16, <3>1, <4>1, <4>2, <4>3, <4>4 DEF SessionIsSound
    <3>2. CASE y # s
      <4>1. bindings'[y].reservation = bindings[y].reservation
        BY <2>10, <3>2
      <4> QED
        BY <1>7, <2>11, <4>1, KeptIsSound DEF IInv
    <3> QED
      BY <3>1, <3>2
  <2>19. Born' /\ ReservationHasHolder' /\ Generations' /\ Spending'
    BY <1>7, <2>10, <2>18, CommitStep, Gathered DEF IInv
  <2> QED
    BY <1>7, <2>13, <2>14, <2>19 DEF IInv
<1> QED
  BY <1>9, <1>10

-----------------------------------------------------------------------------
(* The other actors.                                                        *)

LEMMA SomeBindingsGo ==
    ASSUME IInv, Forget,
           UNCHANGED <<now, next_binding_request, compact_requests, requests>>,
           bindings' \in [Sessions -> Binding \cup {None}],
           \A s \in Sessions : bindings'[s] = None \/ bindings'[s] = bindings[s]
    PROVE  IInv'
<1>1. \A s \in Sessions : bindings[s] = None \/ Keeps(bindings[s], bindings[s])
  BY Typed, KeptUpdates, Constants DEF IInv
<1>2. KeptBindings /\ SameAnswers
  BY <1>1, KeepAll, ForgetType DEF IInv
<1>3. QuietRequests /\ Orderly' /\ HoldersStay
  BY DEF QuietRequests, KeptCommit, Orderly, HoldersStay, IInv, TypeOK
<1> QED
  BY <1>2, <1>3, ForgetType, QuietInv DEF IInv

LEMMA ClearCliBindingsInv ==
    ASSUME IInv, NEW cli, ClearCliBindings(cli)
    PROVE  IInv'
<1>1. /\ bindings' \in [Sessions -> Binding \cup {None}]
      /\ \A s \in Sessions : bindings'[s] = None \/ bindings'[s] = bindings[s]
  BY DEF ClearCliBindings, IInv, TypeOK
<1> QED
  BY <1>1, SomeBindingsGo DEF ClearCliBindings

LEMMA ClearAllBindingsInv ==
    ASSUME IInv, ClearAllBindings
    PROVE  IInv'
<1>1. /\ bindings' \in [Sessions -> Binding \cup {None}]
      /\ \A s \in Sessions : bindings'[s] = None \/ bindings'[s] = bindings[s]
  BY DEF ClearAllBindings
<1> QED
  BY <1>1, SomeBindingsGo DEF ClearAllBindings

LEMMA ListActiveInv ==
    ASSUME IInv, ListActive
    PROVE  IInv'
<1>1. /\ bindings' \in [Sessions -> Binding \cup {None}]
      /\ \A s \in Sessions : bindings'[s] = None \/ bindings'[s] = bindings[s]
  BY DEF ListActive, Unexpired, IInv, TypeOK
<1> QED
  BY <1>1, SomeBindingsGo DEF ListActive

LEMMA Kept ==
    ASSUME IInv, UNCHANGED <<next_binding_request, compact_requests, bindings, requests>>,
           UNCHANGED <<successes>>, now' \in 0 .. MaxTime
    PROVE  IInv'
<1>1. TypeOK'
  BY DEF IInv, TypeOK
<1>2. Orderly' /\ ReservationHasHolder' /\ NewestAnswerIsBound'
  BY DEF IInv, Orderly, ReservationHasHolder, NewestAnswerIsBound, Bound, Counted
<1>3. Born' /\ Generations'
  BY DEF IInv, Born, Generations
<1>4. Spending'
  BY DEF IInv, Spending, SpentIsOver, ReservedIsUnspent, SpentOnce, SpentOn, Spends
<1> QED
  BY <1>1, <1>2, <1>3, <1>4 DEF IInv

LEMMA TickInv ==
    ASSUME IInv, Tick
    PROVE  IInv'
<1>1. now' \in 0 .. MaxTime
  BY Constants DEF Tick, IInv, TypeOK
<1> QED
  BY <1>1, Kept DEF Tick

LEMMA BeginBindingRequestInv ==
    ASSUME IInv, NEW s \in Sessions, NEW compact \in BOOLEAN,
           NEW fingerprint \in Fingerprints \cup {None},
           BeginBindingRequest(s, compact, fingerprint)
    PROVE  IInv'
<1> DEFINE n == next_binding_request
           x == [NewRequest EXCEPT !.place = "selecting", !.session = s, !.created_at = now,
                                   !.compact = compact, !.fingerprint = fingerprint]
<1>1. n \in Requests /\ requests[n].place = "new" /\ requests[n].commit = None
  BY DEF BeginBindingRequest, IInv, Orderly, Requests, Early
<1>2. requests' = [requests EXCEPT ![n] = x] /\ UNCHANGED <<now, bindings, successes>>
  BY DEF BeginBindingRequest
<1>3. next_binding_request' = n + 1
  BY DEF BeginBindingRequest
<1>4. x \in Request
  BY Typed DEF NewRequest, Request, Places, IInv
<1>5. x.place = "selecting" /\ x.session = s /\ x.commit = None
  BY DEF NewRequest
<1>6. compact_requests' \in 0 .. MaxCompactions
  <2>1. CASE compact
    BY <2>1, Constants DEF BeginBindingRequest, IInv, TypeOK
  <2>2. CASE ~compact
    BY <2>2 DEF BeginBindingRequest, IInv, TypeOK
  <2> QED
    BY <2>1, <2>2
<1> HIDE DEF x
<1>7. /\ requests' \in [Requests -> Request]
      /\ requests'[n] = x /\ \A q \in Requests \ {n} : requests'[q] = requests[q]
  BY <1>1, <1>2, <1>4 DEF IInv, TypeOK
<1>8. TypeOK'
  BY <1>1, <1>2, <1>3, <1>6, <1>7, Constants DEF IInv, TypeOK, Requests
<1>9. QuietRequests
  BY <1>1, <1>5, <1>7 DEF QuietRequests, KeptCommit, Early
<1>10. HoldersStay
  BY <1>1, <1>7 DEF HoldersStay, Planning
<1>11. Orderly'
  <2> SUFFICES ASSUME NEW q \in Requests
               PROVE  /\ q >= n + 1 => requests'[q].place = "new"
                      /\ requests'[q].place # "new" => requests'[q].session \in Sessions
                      /\ requests'[q].place \in Early => requests'[q].commit = None
                      /\ requests'[q].place \in Planning => ~requests'[q].compact
                      /\ requests'[q].place \in Routed => requests'[q].route # None
                      /\ requests'[q].place = "committed" => requests'[q].commit # None
    BY <1>3 DEF Orderly
  <2>1. CASE q = n
    BY <1>1, <1>5, <1>7, <2>1 DEF Planning, Routed, Requests
  <2>2. CASE q # n
    <3>1. requests'[q] = requests[q] /\ (q >= n + 1 => q >= n)
      BY <1>1, <1>7, <2>2 DEF Requests
    <3> QED
      BY <3>1 DEF IInv, Orderly
  <2> QED
    BY <2>1, <2>2
<1>12. KeptBindings /\ SameAnswers
  BY <1>2, UnchangedKeeps DEF IInv
<1> QED
  BY <1>8, <1>9, <1>10, <1>11, <1>12, QuietStep, NewestKept DEF IInv

-----------------------------------------------------------------------------
(* The answer.                                                              *)

LEMMA BindSuccessInv ==
    ASSUME IInv, NEW r \in Requests, NEW provider \in Providers, BindSuccess(r, provider)
    PROVE  IInv'
<1> DEFINE s == requests[r].session
           b == bindings[s]
           u == now + SESSION_TTL
           newer == NewerSuccess(b, r, provider)
           bound == [b EXCEPT !.provider_id = provider, !.last_binding_request = r,
                              !.expires_at = u]
           k == IF ~Live(s, now) THEN None ELSE IF newer THEN b ELSE bound
           place == IF requests[r].compact THEN "compacting"
                    ELSE IF requests[r].place = "planned" THEN "dropping" ELSE "done"
<1>1. s \in Sessions /\ requests[r].place \in {"serving", "planned"} /\ u \in Nat
  BY Session, Constants, Typed DEF BindSuccess, IInv
<1>2. bindings' = [bindings EXCEPT ![s] = k]
  BY DEF BindSuccess
<1>3. /\ successes' = [x \in Sessions |->
            IF bindings'[x] = None THEN {}
            ELSE IF x = s THEN successes[s] \cup {<<r, provider>>} ELSE successes[x]]
      /\ UNCHANGED <<now, next_binding_request, compact_requests>>
  BY DEF BindSuccess
<1>4. PICK x \in Request :
        /\ requests' = [requests EXCEPT ![r] = x]
        /\ x.session = requests[r].session /\ x.commit = requests[r].commit
        /\ x.place = place /\ (x.compact => requests[r].compact)
  BY SettlesType DEF BindSuccess, Places, IInv
<1>5. QuietRequests /\ Orderly' /\ HoldersStay
  <2>1. requests[r].place = "planned" => ~requests[r].compact
    BY DEF IInv, Orderly, Planning
  <2>2. x.place \in {"compacting", "dropping", "done"}
    BY <1>4
  <2>3. x.place = "dropping" => ~x.compact
    BY <1>4
  <2>4. requests[r].place = "planned" => x.place = "dropping"
    BY <1>4, <2>1
  <2> HIDE DEF place
  <2> QED
    BY <1>1, <1>3, <1>4, <2>2, <2>3, <2>4, Goes DEF IInv, Early, Planning, Routed
<1>6. successes' \in [Sessions -> SUBSET (Requests \X Providers)]
  BY <1>3 DEF IInv, TypeOK
<1> HIDE DEF s, u
<1>7. k # None => b \in Binding /\ b # None
  BY <1>1, Typed DEF Live, IInv
<1>8. ASSUME b \in Binding
      PROVE  /\ KeptBinding(b, bound)
             /\ bound.provider_id = provider /\ bound.last_binding_request = r
  <2>1. bound \in Binding
    BY <1>1, <1>8 DEF Binding
  <2>2. /\ bound.creation_request = b.creation_request
        /\ bound.consumed = b.consumed /\ bound.completed = b.completed
        /\ bound.reservation = b.reservation
    BY <1>8 DEF Binding
  <2>3. bound.provider_id = provider /\ bound.last_binding_request = r
    BY <1>8 DEF Binding
  <2>4. b.completed \in Nat
    BY <1>8 DEF Binding
  <2> HIDE DEF bound
  <2> QED
    BY <1>8, <2>1, <2>2, <2>3, <2>4 DEF KeptBinding
<1>9. k # None => KeptBinding(b, k)
  <2>1. b \in Binding => KeptBinding(b, b)
    BY KeptUpdates, Constants DEF Keeps
  <2> HIDE DEF bound
  <2> QED
    BY <1>7, <1>8, <2>1
<1>10. /\ k # None /\ newer => k = b
       /\ k # None /\ ~newer => k = bound
  OBVIOUS
<1> HIDE DEF k, bound
<1>11. /\ bindings' \in [Sessions -> Binding \cup {None}]
       /\ bindings'[s] = k /\ \A y \in Sessions \ {s} : bindings'[y] = bindings[y]
  BY <1>1, <1>2, <1>9 DEF IInv, TypeOK, KeptBinding
<1>12. KeptBindings
  <2>1. \A y \in Sessions : bindings[y] # None => KeptBinding(bindings[y], bindings[y])
    BY Typed, KeptUpdates, Constants DEF Keeps, IInv
  <2> QED
    BY <1>7, <1>9, <1>11, <2>1 DEF KeptBindings
<1>13. NewestAnswerIsBound'
  <2> SUFFICES ASSUME NEW y \in Sessions, bindings'[y] # None,
                      NEW C, C = {f \in successes'[y] : f[1] >= bindings'[y].creation_request}
               PROVE  IF C = {}
                      THEN bindings'[y].provider_id = None /\ bindings'[y].last_binding_request = None
                      ELSE /\ <<bindings'[y].last_binding_request, bindings'[y].provider_id>> \in C
                           /\ \A f \in C : f[1] <= bindings'[y].last_binding_request
    BY DEF NewestAnswerIsBound, Bound, Counted
  <2>1. CASE y # s
    <3>1. bindings'[y] = bindings[y] /\ successes'[y] = successes[y]
      BY <1>3, <1>11, <2>1
    <3> QED
      BY <3>1 DEF IInv, NewestAnswerIsBound, Bound, Counted
  <2>2. CASE y = s
    <3>1. /\ bindings'[y] = k /\ k # None /\ b \in Binding /\ b # None /\ b = bindings[y]
          /\ successes'[y] = successes[y] \cup {<<r, provider>>}
      BY <1>3, <1>7, <1>11, <2>2
    <3> DEFINE D == {f \in successes[y] : f[1] >= b.creation_request}
    <3>2. IF D = {} THEN b.provider_id = None /\ b.last_binding_request = None
          ELSE /\ <<b.last_binding_request, b.provider_id>> \in D
               /\ \A f \in D : f[1] <= b.last_binding_request
      BY <3>1 DEF IInv, NewestAnswerIsBound, Bound, Counted
    <3>3. k.creation_request = b.creation_request
      BY <1>9, <3>1 DEF KeptBinding
    <3>4. C = {f \in successes[y] \cup {<<r, provider>>} : f[1] >= b.creation_request}
      BY <3>1, <3>3
    <3>5. /\ r < b.creation_request => C = D
          /\ r >= b.creation_request => C = D \cup {<<r, provider>>}
      <4>1. r \in Nat /\ b.creation_request \in Nat
        BY <3>1 DEF Binding, Requests
      <4>2. <<r, provider>>[1] = r
        OBVIOUS
      <4> QED
        BY <3>4, <4>1, <4>2
    <3>6. \A f \in D : f[1] \in Nat
      BY DEF IInv, TypeOK, Requests
    <3>7. /\ r \in Nat /\ b.creation_request \in Nat
          /\ b.last_binding_request # None => b.last_binding_request \in Nat
      BY <3>1 DEF Binding, Requests
    <3>8. b.last_binding_request = None => D = {}
      <4> SUFFICES ASSUME b.last_binding_request = None, D # {} PROVE FALSE
        OBVIOUS
      <4>1. <<None, b.provider_id>> \in D
        BY <3>2
      <4>2. <<None, b.provider_id>>[1] = None
        OBVIOUS
      <4> QED
        BY <3>6, <4>1, <4>2, Constants
    <3>9. CASE newer
      <4>1. k = b
        BY <1>10, <3>1, <3>9
      <4>2. CASE r < b.creation_request
        BY <3>1, <3>2, <3>5, <4>1, <4>2
      <4>3. CASE r >= b.creation_request
        <5>1. b.last_binding_request # None /\ r <= b.last_binding_request
          BY <3>7, <3>9, <4>3 DEF NewerSuccess
        <5>2. D # {}
          BY <3>2, <5>1
        <5>3. C = D \cup {<<r, provider>>}
          BY <3>5, <4>3
        <5>4. <<r, provider>>[1] = r
          OBVIOUS
        <5> HIDE DEF D
        <5> QED
          BY <3>1, <3>2, <4>1, <5>1, <5>2, <5>3, <5>4
      <4> QED
        BY <3>7, <4>2, <4>3
    <3>10. CASE ~newer
      <4>1. k = bound /\ k.provider_id = provider /\ k.last_binding_request = r
        BY <1>8, <1>10, <3>1, <3>10
      <4>2. r >= b.creation_request
        BY <3>7, <3>10 DEF NewerSuccess
      <4>3. b.last_binding_request = None \/ b.last_binding_request <= r
        BY <3>7, <3>10 DEF NewerSuccess
      <4>4. C = D \cup {<<r, provider>>}
        BY <3>5, <4>2
      <4>5. <<r, provider>>[1] = r
        OBVIOUS
      <4>6. ASSUME NEW f \in D PROVE f[1] <= r
        <5>1. b.last_binding_request # None
          BY <3>8
        <5>2. f[1] <= b.last_binding_request /\ f[1] \in Nat /\ b.last_binding_request \in Nat
          BY <3>2, <3>6, <3>7, <5>1
        <5> QED
          BY <3>7, <4>3, <5>1, <5>2
      <4> HIDE DEF D
      <4> QED
        BY <3>1, <3>7, <4>1, <4>4, <4>5, <4>6
    <3> QED
      BY <3>9, <3>10
  <2> QED
    BY <2>1, <2>2
<1>14. TypeOK'
  BY <1>3, <1>5, <1>6, <1>11, StepType DEF IInv, QuietRequests
<1> QED
  BY <1>5, <1>12, <1>13, <1>14, QuietStep DEF IInv

-----------------------------------------------------------------------------
(* The creation of a binding.                                               *)

LEMMA RoomIsMade ==
    ASSUME TypeOK, NEW t, NEW room \in MadeRoom(t)
    PROVE  /\ room \in [Sessions -> Binding \cup {None}]
           /\ \A s \in Sessions : room[s] = None \/ room[s] = bindings[s]
<1>1. /\ Unexpired(t) \in [Sessions -> Binding \cup {None}]
      /\ \A s \in Sessions : Unexpired(t)[s] = None \/ Unexpired(t)[s] = bindings[s]
  BY DEF Unexpired, TypeOK
<1>2. CASE room = bindings
  BY <1>2 DEF TypeOK
<1>3. CASE room = Unexpired(t)
  BY <1>1, <1>3
<1>4. CASE \E S \in OldestQuarters(Unexpired(t)) :
             room = [s \in Sessions |-> IF s \in S THEN None ELSE Unexpired(t)[s]]
  BY <1>1, <1>4
<1>5. CASE Cardinality(Bound(bindings)) < MAX_BINDINGS
  BY <1>2, <1>5 DEF MadeRoom
<1>6. CASE ~(Cardinality(Bound(bindings)) < MAX_BINDINGS)
  BY <1>3, <1>4, <1>6 DEF MadeRoom
<1> QED
  BY <1>5, <1>6

LEMMA BindSortModeInv ==
    ASSUME IInv, NEW r \in Requests, BindSortMode(r)
    PROVE  IInv'
<1>1. PICK s \in Sessions, t \in Nat : s = requests[r].session /\ t = requests[r].created_at
  BY Session DEF BindSortMode, IInv
<1>2. PICK room \in MadeRoom(t) :
        bindings' = [room EXCEPT ![s] =
            IF @ = None \/ @.expires_at <= t THEN NewBinding(r, t)
            ELSE IF r < @.creation_request THEN @
            ELSE [@ EXCEPT !.expires_at = t + SESSION_TTL]]
  BY <1>1 DEF BindSortMode
<1>3. /\ room \in [Sessions -> Binding \cup {None}]
      /\ \A y \in Sessions : room[y] = None \/ room[y] = bindings[y]
  BY RoomIsMade DEF IInv
<1>4. /\ requests[r].place = "binding" /\ requests[r].route \in Routes
      /\ UNCHANGED <<now, next_binding_request, compact_requests>>
  BY Typed DEF BindSortMode, IInv, Orderly, Routed, Request
<1>5. /\ successes' = [x \in Sessions |->
            IF bindings'[x] = None \/ (x = s /\ bindings'[s].creation_request = r)
            THEN {} ELSE successes[x]]
  BY <1>1 DEF BindSortMode
<1>6. /\ successes' \in [Sessions -> SUBSET (Requests \X Providers)]
  BY <1>5 DEF IInv, TypeOK
<1>7. PICK x \in Request :
        /\ requests' = [requests EXCEPT ![r] = x]
        /\ x.session = requests[r].session /\ x.commit = requests[r].commit
        /\ x.place = "resolving" /\ x.route = requests[r].route
  BY MovesType DEF BindSortMode, Places, IInv
<1>8. QuietRequests /\ Orderly' /\ HoldersStay
  BY <1>4, <1>7, Goes, Constants DEF IInv, Early, Planning
<1>9. requests'[r].place \notin Early
  BY <1>7 DEF Early, IInv, TypeOK
<1> DEFINE u == t + SESSION_TTL
           new == NewBinding(r, t)
           kept == [room[s] EXCEPT !.expires_at = u]
           isNew == room[s] = None \/ room[s].expires_at <= t
           k == IF isNew THEN new ELSE IF r < room[s].creation_request THEN room[s] ELSE kept
<1>10. u \in Nat
  BY Constants
<1>11. bindings' = [room EXCEPT ![s] = k]
  BY <1>2
<1>12. CASE ~isNew
  <2>1. room[s] = bindings[s] /\ bindings[s] \in Binding
    BY <1>3, <1>12, Typed DEF IInv
  <2>2. Keeps(bindings[s], bindings[s]) /\ Keeps(bindings[s], [bindings[s] EXCEPT !.expires_at = u])
    BY <1>10, <2>1, KeptUpdates
  <2> HIDE DEF u
  <2>3. Keeps(bindings[s], k)
    BY <1>12, <2>1, <2>2
  <2> HIDE DEF isNew, new, kept, k
  <2>4. \A y \in Sessions : bindings[y] = None \/ Keeps(bindings[y], bindings[y])
    BY Typed, KeptUpdates, Constants DEF IInv
  <2>5. k \in Binding
    BY <2>3 DEF Keeps, KeptBinding
  <2>6. /\ bindings' \in [Sessions -> Binding \cup {None}]
        /\ bindings'[s] = k /\ \A y \in Sessions \ {s} : bindings'[y] = room[y]
    BY <1>3, <1>11, <2>5
  <2>7. \A y \in Sessions : bindings'[y] = None \/ Keeps(bindings[y], bindings'[y])
    BY <1>3, <2>3, <2>4, <2>6
  <2>8. bindings'[s].creation_request # r
    <3>1. bindings'[s].creation_request = bindings[s].creation_request /\ bindings[s] # None
      BY <2>3, <2>6 DEF Keeps, KeptBinding
    <3>2. requests[bindings[s].creation_request].place \notin Early
      BY <3>1 DEF IInv, Born
    <3> QED
      BY <1>4, <3>1, <3>2 DEF Early
  <2>9. \A y \in Sessions : bindings'[y] # None => successes'[y] = successes[y]
    BY <1>5, <2>8
  <2>10. KeptBindings /\ SameAnswers
    BY <2>6, <2>7, <2>9, KeepAll DEF IInv
  <2> QED
    BY <1>4, <1>6, <1>8, <2>10, QuietInv
<1>13. CASE isNew
  <2>1. k = new
    BY <1>13
  <2>2. new = [provider_id |-> None, route |-> requests[r].route, creation_request |-> r,
               last_binding_request |-> None, expires_at |-> u,
               completed |-> 0, consumed |-> 0, fingerprint |-> None, reservation |-> None]
    BY DEF NewBinding
  <2> HIDE DEF new, isNew, kept, k, u
  <2>3. new \in Binding
    BY <1>4, <1>10, <2>2 DEF Binding
  <2>4. /\ new.provider_id = None /\ new.last_binding_request = None
        /\ new.creation_request = r /\ new.completed = 0 /\ new.consumed = 0
        /\ new.reservation = None
    BY <2>2
  <2>5. /\ bindings' \in [Sessions -> Binding \cup {None}]
        /\ bindings'[s] = new /\ \A y \in Sessions \ {s} : bindings'[y] = room[y]
    BY <1>3, <1>11, <2>1, <2>3
  <2>6. TypeOK'
    BY <1>4, <1>6, <1>8, <2>5, StepType DEF IInv, QuietRequests
  <2>7. NewestAnswerIsBound'
    <3> SUFFICES ASSUME NEW y \in Sessions, bindings'[y] # None
                 PROVE  LET b == bindings'[y]
                            C == {f \in successes'[y] : f[1] >= b.creation_request} IN
                        IF C = {} THEN b.provider_id = None /\ b.last_binding_request = None
                        ELSE /\ <<b.last_binding_request, b.provider_id>> \in C
                             /\ \A f \in C : f[1] <= b.last_binding_request
      BY DEF NewestAnswerIsBound, Bound, Counted
    <3>1. CASE y = s
      <4>1. successes'[y] = {}
        BY <1>5, <2>4, <2>5, <3>1
      <4> QED
        BY <2>4, <2>5, <3>1, <4>1
    <3>2. CASE y # s
      <4>1. bindings'[y] = bindings[y] /\ successes'[y] = successes[y]
        BY <1>3, <1>5, <2>5, <3>2
      <4> QED
        BY <4>1 DEF IInv, NewestAnswerIsBound, Bound, Counted
    <3> QED
      BY <3>1, <3>2
  <2>8. ASSUME NEW y \in Sessions PROVE SessionIsSound(y)
    <3>1. CASE y = s
      <4>1. ASSUME NEW q \in Requests, NEW g \in Nat, SpentOn(q, y, g)'
            PROVE  FALSE
        <5>1. requests'[q].commit # None /\ requests'[q].commit.born = r
          BY <2>4, <2>5, <3>1, <4>1 DEF SpentOn, Spends
        <5>2. requests[q].commit # None /\ requests[q].commit.born = r
          BY <1>8, <5>1, CommitsStay DEF IInv
        <5> QED
          BY <1>4, <5>2 DEF IInv, Born, Early
      <4> QED
        BY <1>9, <2>4, <2>5, <3>1, <4>1 DEF SessionIsSound
    <3>2. CASE y # s
      <4>1. bindings'[y] # None => bindings'[y] = bindings[y] /\ bindings[y] \in Binding
        BY <1>3, <2>5, <3>2, Typed DEF IInv
      <4>2. KeptAt(y)
        BY <4>1 DEF KeptAt, Binding
      <4> QED
        BY <1>8, <4>1, <4>2, KeptIsSound DEF IInv
    <3> QED
      BY <3>1, <3>2
  <2>9. Born' /\ ReservationHasHolder' /\ Generations' /\ Spending'
    BY <1>8, <2>5, <2>8, CommitStep, Gathered DEF IInv
  <2> QED
    BY <1>8, <2>6, <2>7, <2>9 DEF IInv
<1> QED
  BY <1>12, <1>13

-----------------------------------------------------------------------------
(* The commit and its rollback.                                             *)

LEMMA AppliedType ==
    ASSUME NEW b \in Binding, NEW trigger \in Trigger
    PROVE  LET k == Applied(b, trigger) IN
           /\ k \in Binding
           /\ k.creation_request = b.creation_request
           /\ k.provider_id = b.provider_id
           /\ k.last_binding_request = b.last_binding_request
           /\ k.completed = b.completed
           /\ k.reservation = None
           /\ k.consumed = IF trigger.generation > b.consumed THEN trigger.generation ELSE b.consumed
<1> DEFINE consumed == IF trigger.generation > b.consumed THEN trigger.generation ELSE b.consumed
           fingerprint == IF trigger.fingerprint # None THEN trigger.fingerprint ELSE b.fingerprint
           route == IF trigger.route # None THEN trigger.route ELSE b.route
           k == [b EXCEPT !.consumed = consumed, !.fingerprint = fingerprint,
                          !.route = route, !.reservation = None]
<1>1. Applied(b, trigger) = k
  BY DEF Applied, Binding
<1>2. consumed \in Nat /\ fingerprint \in Fingerprints \cup {None} /\ route \in Routes
  BY DEF Binding, Trigger
<1> HIDE DEF consumed, fingerprint, route
<1>3. k \in Binding
  BY <1>2 DEF Binding
<1>4. /\ k.creation_request = b.creation_request
      /\ k.provider_id = b.provider_id
      /\ k.last_binding_request = b.last_binding_request
      /\ k.completed = b.completed
      /\ k.reservation = None
      /\ k.consumed = consumed
  BY DEF Binding
<1> HIDE DEF k
<1> QED
  BY <1>1, <1>3, <1>4 DEF consumed

LEMMA CommitTriggerReservationInv ==
    ASSUME IInv, NEW r \in Requests, CommitTriggerReservation(r)
    PROVE  IInv'
<1>1. PICK s \in Sessions : s = requests[r].session
  BY Session DEF CommitTriggerReservation, IInv
<1>2. PICK b \in Binding : b = bindings[s] /\ b # None /\ Commits(r, b)
  BY <1>1, Typed DEF CommitTriggerReservation, Live, IInv
<1>3. PICK trigger \in Trigger, g \in Nat :
        /\ trigger = b.reservation.trigger /\ g = trigger.generation
        /\ b.reservation # None /\ b.reservation.owner = r
  BY <1>2 DEF Commits, Binding, Reservation, Trigger
<1>4. PICK k \in Binding :
        /\ bindings' = [bindings EXCEPT ![s] = k]
        /\ k.creation_request = b.creation_request
        /\ k.provider_id = b.provider_id
        /\ k.last_binding_request = b.last_binding_request
        /\ k.completed = b.completed
        /\ k.reservation = None
        /\ k.consumed = IF g > b.consumed THEN g ELSE b.consumed
  <2>1. bindings' = [bindings EXCEPT ![s] = Applied(b, trigger)]
    BY <1>1, <1>2, <1>3 DEF CommitTriggerReservation
  <2> QED
    BY <1>3, <2>1, AppliedType
<1> DEFINE c == [trigger |-> trigger, consumed |-> b.consumed, fingerprint |-> b.fingerprint,
                 route |-> b.route, born |-> b.creation_request, undone |-> FALSE]
           x == [requests[r] EXCEPT !.place = "committed", !.commit = c]
<1>6. c \in Commit /\ c # None
  <2>1. c \in Commit
    BY DEF Commit, Binding
  <2> HIDE DEF c
  <2> QED
    BY <2>1, Constants
<1>5. requests' = [requests EXCEPT ![r] = x]
  <2>1. requests' = [requests EXCEPT ![r].place = "committed", ![r].commit = c]
    BY <1>1, <1>2, <1>3 DEF CommitTriggerReservation
  <2> HIDE DEF c
  <2>2. requests[r] \in Request /\ requests \in [Requests -> Request]
    BY Typed DEF IInv
  <2>3. x \in Request
    BY <1>6, <2>2 DEF Request, Places
  <2>4. requests' \in [Requests -> Request]
    BY <1>6, <2>1, <2>2 DEF Request, Places
  <2>5. requests'[r] = x /\ \A q \in Requests \ {r} : requests'[q] = requests[q]
    BY <1>6, <2>1, <2>2 DEF Request
  <2> HIDE DEF x
  <2> QED
    BY <2>2, <2>3, <2>4, <2>5
<1>7. c.trigger = trigger /\ c.consumed = b.consumed /\ c.born = b.creation_request
  OBVIOUS
<1> HIDE DEF c
<1>8. /\ x \in Request
      /\ x.place = "committed" /\ x.commit = c /\ x.session = s
      /\ x.compact = requests[r].compact
  BY <1>1, <1>6, Typed DEF Request, Places, IInv
<1> HIDE DEF x
<1>9. /\ requests[r].place = "planned"
      /\ UNCHANGED <<now, next_binding_request, compact_requests, successes>>
  BY <1>1 DEF CommitTriggerReservation
<1>10. /\ requests' \in [Requests -> Request]
       /\ requests'[r] = x /\ \A q \in Requests \ {r} : requests'[q] = requests[q]
  BY <1>5, <1>8 DEF IInv, TypeOK
<1>11. /\ bindings' \in [Sessions -> Binding \cup {None}]
       /\ bindings'[s] = k /\ \A y \in Sessions \ {s} : bindings'[y] = bindings[y]
  BY <1>4 DEF IInv, TypeOK
<1>12. TypeOK'
  BY <1>9, <1>10, <1>11, StepType DEF IInv, TypeOK
<1>13. Orderly'
  BY <1>6, <1>8, <1>9, <1>10 DEF IInv, Orderly, Early, Planning, Routed
<1>14. NewestAnswerIsBound'
  <2>1. \A y \in Sessions : bindings'[y] # None =>
          /\ bindings[y] # None /\ SameAnswer(bindings[y], bindings'[y])
          /\ successes'[y] = successes[y]
    BY <1>2, <1>4, <1>9, <1>11 DEF SameAnswer
  <2> QED
    BY <2>1, NewestKept DEF SameAnswers, IInv
<1>15. \A q \in Requests : requests[q].place \notin Early => requests'[q].place \notin Early
  BY <1>8, <1>10 DEF Early
<1>16. /\ b.creation_request \in Requests /\ b.completed \in Nat /\ b.consumed \in Nat
       /\ requests[b.creation_request].place \notin Early
       /\ b.consumed <= b.completed
       /\ g > 0 => b.consumed < g /\ g <= b.completed
  BY <1>2, <1>3 DEF IInv, Born, Generations, Binding
<1>17. /\ \A q \in Requests \ {r}, h \in Nat : Spends(q, h)' <=> Spends(q, h)
       /\ \A h \in Nat : Spends(r, h)' => h = g
  BY <1>3, <1>7, <1>8, <1>10 DEF Spends
<1>18. ASSUME NEW y \in Sessions PROVE SessionIsSound(y)
  <2>1. CASE y = s
    <3>1. ASSUME NEW q \in Requests, NEW h \in Nat \ {0}, SpentOn(q, y, h)'
          PROVE  h <= k.consumed \/ h < k.completed
      <4>1. CASE q = r
        <5>1. h = g
          BY <1>17, <3>1, <4>1 DEF SpentOn
        <5> QED
          BY <1>4, <1>16, <5>1
      <4>2. CASE q # r
        <5>1. SpentOn(q, y, h)
          BY <1>2, <1>4, <1>10, <1>11, <1>17, <2>1, <3>1, <4>2 DEF SpentOn
        <5>2. h <= b.consumed \/ h < b.completed
          BY <1>2, <2>1, <5>1 DEF IInv, Spending, SpentIsOver
        <5> QED
          BY <1>4, <1>16, <5>2
      <4> QED
        BY <4>1, <4>2
    <3>2. requests'[k.creation_request].place \notin Early
      BY <1>4, <1>15, <1>16
    <3>3. k.consumed <= k.completed
      BY <1>4, <1>16
    <3> QED
      BY <1>4, <1>11, <2>1, <3>1, <3>2, <3>3 DEF SessionIsSound
  <2>2. CASE y # s
    <3> SUFFICES ASSUME bindings[y] # None, bindings'[y] = bindings[y], bindings[y] \in Binding
                 PROVE  SessionIsSound(y)
      BY <1>11, <2>2, Typed DEF SessionIsSound, IInv
    <3>1. \A q \in Requests, h \in Nat : SpentOn(q, y, h)' => SpentOn(q, y, h)
      <4>1. \A q \in Requests : requests'[q].session = requests[q].session
        BY <1>1, <1>8, <1>10
      <4>2. \A q \in Requests, h \in Nat : SpentOn(q, y, h)' => q # r
        BY <1>8, <1>10, <2>2 DEF SpentOn
      <4> QED
        BY <1>10, <1>17, <4>1, <4>2 DEF SpentOn
    <3>2. \A q \in Requests, h \in Nat \ {0} :
            SpentOn(q, y, h)' => h <= bindings'[y].consumed \/ h < bindings'[y].completed
      BY <3>1 DEF IInv, Spending, SpentIsOver
    <3>3. /\ requests'[bindings'[y].creation_request].place \notin Early
          /\ bindings'[y].consumed <= bindings'[y].completed
      BY <1>15 DEF IInv, Born, Generations, Binding
    <3>4. ASSUME bindings[y].reservation # None
          PROVE  /\ requests'[bindings'[y].reservation.owner].session = y
                 /\ requests'[bindings'[y].reservation.owner].place \in Planning
      <4> DEFINE q == bindings[y].reservation.owner
      <4>1. q \in Requests
        BY <3>4 DEF Binding, Reservation
      <4>2. requests[q].session = y /\ requests[q].place \in Planning
        BY <3>4 DEF IInv, ReservationHasHolder, Bound, Planning
      <4>3. requests'[q] = requests[q]
        BY <1>1, <1>10, <2>2, <4>1, <4>2
      <4> QED
        BY <4>2, <4>3
    <3>5. ASSUME bindings[y].reservation # None
          PROVE  /\ bindings'[y].reservation.trigger.generation > 0 =>
                     /\ bindings'[y].consumed < bindings'[y].reservation.trigger.generation
                     /\ bindings'[y].reservation.trigger.generation <= bindings'[y].completed
                 /\ \A q \in Requests, h \in Nat :
                     h > 0 /\ h = bindings'[y].reservation.trigger.generation
                     => ~SpentOn(q, y, h)'
      BY <3>1, <3>5 DEF IInv, Generations, Spending, ReservedIsUnspent
    <3> QED
      BY <3>2, <3>3, <3>4, <3>5 DEF SessionIsSound
  <2> QED
    BY <2>1, <2>2
<1>19. \A q \in Requests :
        requests'[q].commit # None =>
          /\ requests'[requests'[q].commit.born].place \notin Early
          /\ requests'[q].commit.trigger.generation > 0 =>
                requests'[q].commit.consumed < requests'[q].commit.trigger.generation
  <2> SUFFICES ASSUME NEW q \in Requests, requests'[q].commit # None
               PROVE  /\ requests'[requests'[q].commit.born].place \notin Early
                      /\ requests'[q].commit.trigger.generation > 0 =>
                            requests'[q].commit.consumed < requests'[q].commit.trigger.generation
    OBVIOUS
  <2>1. CASE q = r
    BY <1>3, <1>7, <1>8, <1>10, <1>15, <1>16, <2>1
  <2>2. CASE q # r
    <3>1. requests'[q] = requests[q] /\ requests[q].commit.born \in Requests
      BY <1>10, <2>2, Typed DEF IInv, Request, Commit
    <3> QED
      BY <1>15, <3>1 DEF IInv, Born, Generations
  <2> QED
    BY <2>1, <2>2
<1>20. SpentOnce'
  <2>1. ASSUME NEW q \in Requests \ {r}, NEW h \in Nat \ {0}, Spends(q, h)', Spends(r, h)',
               requests'[q].session = requests'[r].session
        PROVE  requests'[q].commit.born # requests'[r].commit.born
    <3>1. h = g /\ Spends(q, g) /\ requests[q].session = s
      BY <1>8, <1>10, <1>17, <2>1
    <3>2. ~SpentOn(q, s, g)
      BY <1>2, <1>3, <2>1, <3>1 DEF IInv, Spending, ReservedIsUnspent
    <3> QED
      BY <1>2, <1>7, <1>8, <1>10, <3>1, <3>2 DEF SpentOn
  <2>2. ASSUME NEW q \in Requests \ {r}, NEW p \in Requests \ {r}, NEW h \in Nat \ {0},
               q # p, Spends(q, h)', Spends(p, h)',
               requests'[q].session = requests'[p].session
        PROVE  requests'[q].commit.born # requests'[p].commit.born
    BY <1>10, <1>17, <2>2 DEF IInv, Spending, SpentOnce
  <2>3. ASSUME NEW q \in Requests, NEW p \in Requests, NEW h \in Nat \ {0},
               q # p, Spends(q, h)', Spends(p, h)',
               requests'[q].session = requests'[p].session
        PROVE  requests'[q].commit.born # requests'[p].commit.born
    <3>1. CASE q = r
      BY <2>1, <2>3, <3>1
    <3>2. CASE p = r
      BY <2>1, <2>3, <3>2
    <3>3. CASE q # r /\ p # r
      BY <2>2, <2>3, <3>3
    <3> QED
      BY <3>1, <3>2, <3>3
  <2> QED
    BY <2>3 DEF SpentOnce
<1>21. Born' /\ ReservationHasHolder' /\ Generations' /\ Spending'
  BY <1>11, <1>18, <1>19, <1>20, Gathered
<1> QED
  BY <1>12, <1>13, <1>14, <1>21 DEF IInv

LEMMA UndoneType ==
    ASSUME NEW q \in Request, q.commit # None
    PROVE  /\ LET x == [q EXCEPT !.commit.undone = TRUE] IN
              /\ x \in Request
              /\ x.place = q.place /\ x.session = q.session
              /\ x.compact = q.compact /\ x.route = q.route
              /\ KeptCommit(q.commit, x.commit) /\ x.commit # None /\ x.commit.undone
           /\ LET x == [q EXCEPT !.place = "serving", !.commit.undone = TRUE] IN
              /\ x \in Request
              /\ x.place = "serving" /\ x.session = q.session
              /\ x.compact = q.compact /\ x.route = q.route
              /\ KeptCommit(q.commit, x.commit) /\ x.commit # None /\ x.commit.undone
<1> DEFINE c == [q.commit EXCEPT !.undone = TRUE]
           x == [q EXCEPT !.commit = c]
           y == [q EXCEPT !.place = "serving", !.commit = c]
<1>1. q.commit \in Commit
  BY DEF Request
<1>2. c \in Commit
  BY <1>1 DEF Commit
<1>3. KeptCommit(q.commit, c) /\ c.undone
  BY <1>1 DEF KeptCommit, Commit
<1>4. c # None
  <2> HIDE DEF c
  <2> QED
    BY <1>2, Constants
<1>5. [q EXCEPT !.commit.undone = TRUE] = x
  BY DEF Request
<1>6. [q EXCEPT !.place = "serving", !.commit.undone = TRUE] = y
  BY DEF Request
<1> HIDE DEF c
<1>7. /\ x \in Request
      /\ x.place = q.place /\ x.session = q.session
      /\ x.compact = q.compact /\ x.route = q.route /\ x.commit = c
  BY <1>2 DEF Request
<1>8. /\ y \in Request
      /\ y.place = "serving" /\ y.session = q.session
      /\ y.compact = q.compact /\ y.route = q.route /\ y.commit = c
  BY <1>2 DEF Request, Places
<1> HIDE DEF x, y
<1> QED
  BY <1>3, <1>4, <1>5, <1>6, <1>7, <1>8

LEMMA RolledBackType ==
    ASSUME NEW b \in Binding, NEW c \in Commit
    PROVE  LET k == RolledBack(c, b) IN
           /\ k \in Binding
           /\ k.creation_request = b.creation_request
           /\ k.provider_id = b.provider_id
           /\ k.last_binding_request = b.last_binding_request
           /\ k.completed = b.completed
           /\ k.reservation = b.reservation
           /\ k.consumed = IF c.trigger.generation > 0 /\ b.consumed = c.trigger.generation
                           THEN c.consumed ELSE b.consumed
<1> DEFINE consumed == IF c.trigger.generation > 0 /\ b.consumed = c.trigger.generation
                       THEN c.consumed ELSE b.consumed
           fingerprint == IF c.trigger.fingerprint # None THEN c.fingerprint ELSE b.fingerprint
           route == IF c.trigger.route # None THEN c.route ELSE b.route
           k == [b EXCEPT !.route = route, !.fingerprint = fingerprint, !.consumed = consumed]
<1>1. RolledBack(c, b) = k
  BY DEF RolledBack, Binding
<1>2. consumed \in Nat /\ fingerprint \in Fingerprints \cup {None} /\ route \in Routes
  BY DEF Binding, Commit
<1> HIDE DEF consumed, fingerprint, route
<1>3. k \in Binding
  BY <1>2 DEF Binding
<1>4. /\ k.creation_request = b.creation_request
      /\ k.provider_id = b.provider_id
      /\ k.last_binding_request = b.last_binding_request
      /\ k.completed = b.completed
      /\ k.reservation = b.reservation
      /\ k.consumed = consumed
  BY DEF Binding
<1> HIDE DEF k
<1> QED
  BY <1>1, <1>3, <1>4 DEF consumed

LEMMA RollbackInv ==
    ASSUME IInv, NEW r \in Requests, Rollback(r)
    PROVE  IInv'
<1>1. PICK s \in Sessions : s = requests[r].session
  BY Session DEF Rollback, IInv
<1>2. PICK c \in Commit : c = requests[r].commit /\ requests[r].commit # None
  BY Typed DEF Rollback, IInv, Orderly, Request
<1> DEFINE applies == bindings[s] # None /\ RollbackApplies(c, bindings[s])
           gave_back == /\ applies
                        /\ c.trigger.generation > 0
                        /\ bindings[s].consumed = c.trigger.generation
           undone(q) == /\ gave_back
                        /\ requests[q].session = s
                        /\ requests[q].commit # None
                        /\ requests[q].commit.trigger.generation = c.trigger.generation
<1>3. /\ requests[r].place = "committed"
      /\ bindings' = IF applies THEN [bindings EXCEPT ![s] = RolledBack(c, bindings[s])]
                     ELSE bindings
      /\ requests' = [q \in Requests |->
            IF q = r THEN [requests[q] EXCEPT !.place = "serving", !.commit.undone = TRUE]
            ELSE IF undone(q) THEN [requests[q] EXCEPT !.commit.undone = TRUE]
            ELSE requests[q]]
      /\ UNCHANGED <<now, next_binding_request, compact_requests, successes>>
  BY <1>1, <1>2 DEF Rollback
<1>4. c.trigger \in Trigger /\ c.trigger.generation \in Nat /\ c.consumed \in Nat
  BY DEF Commit, Trigger
<1> HIDE DEF applies
<1>5. ASSUME NEW q \in Requests
      PROVE  /\ requests'[q] \in Request
             /\ requests'[q].session = requests[q].session
             /\ requests'[q].compact = requests[q].compact
             /\ requests'[q].route = requests[q].route
             /\ KeptCommit(requests[q].commit, requests'[q].commit)
             /\ requests'[q].place = IF q = r THEN "serving" ELSE requests[q].place
             /\ undone(q) => requests'[q].commit.undone
  <2>1. requests[q] \in Request
    BY Typed DEF IInv
  <2> HIDE DEF gave_back
  <2>2. CASE q = r
    <3>1. requests'[q] = [requests[q] EXCEPT !.place = "serving", !.commit.undone = TRUE]
      BY <1>3, <2>2
    <3>2. requests[q].commit # None
      BY <1>2, <2>2
    <3>3. LET x == [requests[q] EXCEPT !.place = "serving", !.commit.undone = TRUE] IN
          /\ x \in Request
          /\ x.place = "serving" /\ x.session = requests[q].session
          /\ x.compact = requests[q].compact /\ x.route = requests[q].route
          /\ KeptCommit(requests[q].commit, x.commit) /\ x.commit # None /\ x.commit.undone
      BY <2>1, <3>2, UndoneType
    <3>4. /\ requests'[q] \in Request
          /\ requests'[q].place = "serving" /\ requests'[q].session = requests[q].session
          /\ requests'[q].compact = requests[q].compact /\ requests'[q].route = requests[q].route
          /\ KeptCommit(requests[q].commit, requests'[q].commit) /\ requests'[q].commit.undone
      BY <3>1, <3>3, Zenon
    <3> HIDE DEF undone
    <3> QED
      BY <2>2, <3>4
  <2>3. CASE q # r /\ undone(q)
    <3>1. requests'[q] = [requests[q] EXCEPT !.commit.undone = TRUE]
      BY <1>3, <2>3
    <3> QED
      BY <2>1, <2>3, <3>1, UndoneType
  <2>4. CASE q # r /\ ~undone(q)
    <3>1. requests'[q] = requests[q]
      BY <1>3, <2>4
    <3> HIDE DEF undone
    <3> QED
      BY <2>1, <2>4, <3>1 DEF KeptCommit
  <2> QED
    BY <2>2, <2>3, <2>4
<1>6. QuietRequests
  <2>1. requests' \in [Requests -> Request]
    BY <1>3, <1>5
  <2>2. ASSUME NEW q \in Requests
        PROVE  /\ KeptCommit(requests[q].commit, requests'[q].commit)
               /\ requests'[q].session = requests[q].session
               /\ requests[q].place \notin Early => requests'[q].place \notin Early
    <3> HIDE DEF undone
    <3> QED
      BY <1>5 DEF Early
  <2> QED
    BY <2>1, <2>2 DEF QuietRequests
<1>7. HoldersStay
  BY <1>3, <1>5 DEF HoldersStay, Planning
<1>8. Orderly'
  <2> SUFFICES ASSUME NEW q \in Requests
               PROVE  /\ q >= next_binding_request => requests'[q].place = "new"
                      /\ requests'[q].place # "new" => requests'[q].session \in Sessions
                      /\ requests'[q].place \in Early => requests'[q].commit = None
                      /\ requests'[q].place \in Planning => ~requests'[q].compact
                      /\ requests'[q].place \in Routed => requests'[q].route # None
                      /\ requests'[q].place = "committed" => requests'[q].commit # None
    BY <1>3 DEF Orderly
  <2>1. CASE q = r
    <3>1. requests'[q].place = "serving" /\ requests'[q].session \in Sessions
      BY <1>1, <1>5, <2>1
    <3>2. ~(q >= next_binding_request)
      BY <1>3, <2>1 DEF IInv, Orderly
    <3> QED
      BY <3>1, <3>2 DEF Early, Planning, Routed
  <2>2. CASE q # r
    <3>1. /\ requests'[q].place = requests[q].place
          /\ requests'[q].session = requests[q].session
          /\ requests'[q].compact = requests[q].compact
          /\ requests'[q].route = requests[q].route
      BY <1>5, <2>2
    <3>2. requests[q].commit = None => requests'[q].commit = None
      BY <1>5 DEF KeptCommit
    <3>3. requests[q].place = "committed" => requests'[q].commit # None
      <4>1. requests[q].place = "committed" => requests[q].commit # None
        BY DEF IInv, Orderly
      <4>2. requests[q].commit # None => requests'[q].commit # None
        <5> HIDE DEF gave_back
        <5>1. CASE undone(q)
          <6>1. requests'[q] = [requests[q] EXCEPT !.commit.undone = TRUE]
            BY <1>3, <2>2, <5>1
          <6> QED
            BY <5>1, <6>1, UndoneType, Typed DEF IInv
        <5>2. CASE ~undone(q)
          <6>1. requests'[q] = requests[q]
            BY <1>3, <2>2, <5>2
          <6> QED
            BY <6>1
        <5> QED
          BY <5>1, <5>2
      <4> QED
        BY <4>1, <4>2
    <3> QED
      BY <3>1, <3>2, <3>3 DEF IInv, Orderly
  <2> QED
    BY <2>1, <2>2
<1>9. ASSUME NEW y \in Sessions, bindings'[y] # None
      PROVE  /\ bindings[y] # None /\ bindings[y] \in Binding /\ bindings'[y] \in Binding
             /\ SameAnswer(bindings[y], bindings'[y])
             /\ bindings'[y].completed = bindings[y].completed
             /\ bindings'[y].reservation = bindings[y].reservation
             /\ \/ bindings'[y].consumed = bindings[y].consumed
                \/ y = s /\ gave_back /\ bindings'[y].consumed = c.consumed
  <2>1. CASE y = s /\ applies
    <3>1. bindings[s] # None /\ bindings[s] \in Binding
      BY <2>1, Typed DEF applies, IInv
    <3>2. bindings'[s] = RolledBack(c, bindings[s])
      BY <1>3, <2>1 DEF IInv, TypeOK
    <3>3. /\ RolledBack(c, bindings[s]) \in Binding
          /\ SameAnswer(bindings[s], RolledBack(c, bindings[s]))
          /\ RolledBack(c, bindings[s]).completed = bindings[s].completed
          /\ RolledBack(c, bindings[s]).reservation = bindings[s].reservation
          /\ RolledBack(c, bindings[s]).consumed =
                IF c.trigger.generation > 0 /\ bindings[s].consumed = c.trigger.generation
                THEN c.consumed ELSE bindings[s].consumed
      BY <3>1, RolledBackType DEF SameAnswer
    <3> QED
      BY <2>1, <3>1, <3>2, <3>3
  <2>2. CASE ~(y = s /\ applies)
    <3>1. bindings'[y] = bindings[y]
      BY <1>3, <2>2 DEF IInv, TypeOK
    <3> QED
      BY <1>9, <3>1, Typed DEF SameAnswer, IInv
  <2> QED
    BY <2>1, <2>2
<1>10. bindings' \in [Sessions -> Binding \cup {None}]
  <2>1. CASE applies
    <3>1. bindings[s] \in Binding
      BY <2>1, Typed DEF applies, IInv
    <3>2. RolledBack(c, bindings[s]) \in Binding
      BY <3>1, RolledBackType
    <3> QED
      BY <1>3, <2>1, <3>2 DEF IInv, TypeOK
  <2>2. CASE ~applies
    BY <1>3, <2>2 DEF IInv, TypeOK
  <2> QED
    BY <2>1, <2>2
<1>11. TypeOK'
  BY <1>3, <1>6, <1>10, StepType DEF IInv, TypeOK, QuietRequests
<1>12. NewestAnswerIsBound'
  BY <1>3, <1>9, NewestKept DEF IInv, SameAnswers
<1>13. gave_back => c.consumed < c.trigger.generation
  BY <1>2 DEF IInv, Generations
<1>14. ASSUME NEW y \in Sessions PROVE SessionIsSound(y)
  <2> SUFFICES ASSUME bindings'[y] # None PROVE SessionIsSound(y)
    BY DEF SessionIsSound
  <2>1. bindings[y].completed \in Nat /\ bindings[y].consumed \in Nat /\ bindings'[y].consumed \in Nat
    BY <1>9 DEF Binding
  <2>2. KeptAt(y)
    BY <1>4, <1>9, <1>13, <2>1 DEF KeptAt, SameAnswer
  <2>3. CASE bindings'[y].consumed = bindings[y].consumed
    BY <1>6, <1>7, <1>9, <2>2, <2>3, KeptIsSound DEF IInv
  <2>4. CASE bindings'[y].consumed # bindings[y].consumed
    <3>1. y = s /\ gave_back
      BY <1>9, <2>4
    <3>2. bindings[y].consumed = c.trigger.generation /\ bindings[y].consumed <= bindings[y].completed
      BY <1>9, <3>1 DEF IInv, Generations
    <3>3. ASSUME NEW q \in Requests, NEW h \in Nat \ {0}, SpentOn(q, y, h)'
          PROVE  h < bindings'[y].completed
      <4>1. SpentOn(q, y, h) /\ ~requests'[q].commit.undone
        BY <1>6, <2>2, <3>3, SpendsStay DEF IInv, SpentOn, Spends
      <4>2. requests[q].session = s /\ requests[q].commit # None
            /\ requests[q].commit.trigger.generation = h
        BY <3>1, <4>1 DEF SpentOn, Spends
      <4>3. ~undone(q)
        BY <1>5, <4>1
      <4>4. h # c.trigger.generation
        BY <3>1, <4>2, <4>3
      <4>5. h <= bindings[y].consumed \/ h < bindings[y].completed
        BY <1>9, <4>1 DEF IInv, Spending, SpentIsOver
      <4> QED
        BY <1>4, <1>9, <2>1, <3>2, <4>4, <4>5
    <3>4. /\ requests'[bindings'[y].creation_request].place \notin Early
          /\ bindings'[y].consumed <= bindings'[y].completed
      BY <1>6, <2>2, CounterStep DEF IInv
    <3>5. bindings'[y].reservation # None =>
            /\ requests'[bindings'[y].reservation.owner].session = y
            /\ requests'[bindings'[y].reservation.owner].place \in Planning
            /\ bindings'[y].reservation.trigger.generation > 0 =>
                  /\ bindings'[y].consumed < bindings'[y].reservation.trigger.generation
                  /\ bindings'[y].reservation.trigger.generation <= bindings'[y].completed
            /\ \A q \in Requests, g \in Nat :
                  g > 0 /\ g = bindings'[y].reservation.trigger.generation
                  => ~SpentOn(q, y, g)'
      BY <1>6, <1>7, <1>9, <2>2, ReservationStays DEF IInv
    <3> QED
      BY <3>3, <3>4, <3>5 DEF SessionIsSound
  <2> QED
    BY <2>3, <2>4
<1>15. Born' /\ ReservationHasHolder' /\ Generations' /\ Spending'
  BY <1>6, <1>10, <1>14, CommitStep, Gathered DEF IInv
<1> QED
  BY <1>8, <1>11, <1>12, <1>15 DEF IInv

-----------------------------------------------------------------------------
(* The theorems.                                                            *)

LEMMA InitInv == Init => IInv
<1> SUFFICES ASSUME Init PROVE IInv
  OBVIOUS
<1>1. NewRequest \in Request /\ NewRequest.place = "new" /\ NewRequest.commit = None
  BY DEF NewRequest, Request, Places
<1>2. TypeOK
  BY <1>1, Constants DEF Init, TypeOK
<1>3. Orderly /\ Born
  BY <1>1 DEF Init, Orderly, Born, Planning, Routed
<1>4. ReservationHasHolder /\ Generations /\ NewestAnswerIsBound
  BY <1>1 DEF Init, ReservationHasHolder, Generations, NewestAnswerIsBound, Bound
<1>5. Spending
  BY <1>1 DEF Init, Spending, SpentIsOver, ReservedIsUnspent, SpentOnce, Spends
<1> QED
  BY <1>2, <1>3, <1>4, <1>5 DEF IInv

LEMMA NextInv == IInv /\ [Next]_vars => IInv'
<1> SUFFICES ASSUME IInv, [Next]_vars PROVE IInv'
  OBVIOUS
<1>1. ASSUME NEW r \in Requests, RequestStep(r) PROVE IInv'
  BY <1>1, SelectProvidersInv, BindSortModeInv, GetBoundProviderInv, ClearBoundProviderInv,
     PlanRequestFailbackInv, ServeWithoutReservationInv, ConfirmRouteInv,
     TryReserveProbeTriggerInv, CommitTriggerReservationInv, LoseTriggerReservationInv,
     DispatchInv, RollbackInv, BindSuccessInv, EndUnboundInv, MarkCompactionCompletedInv,
     ReleaseTriggerReservationInv
  DEF RequestStep
<1>2. ASSUME NEW s \in Sessions, NEW compact \in BOOLEAN,
             NEW fingerprint \in Fingerprints \cup {None},
             BeginBindingRequest(s, compact, fingerprint)
      PROVE  IInv'
  BY <1>2, BeginBindingRequestInv
<1>3. ASSUME NEW s \in Sessions, ClearCliBindings(CliOf[s]) PROVE IInv'
  BY <1>3, ClearCliBindingsInv
<1>4. CASE ClearAllBindings
  BY <1>4, ClearAllBindingsInv
<1>5. CASE ListActive
  BY <1>5, ListActiveInv
<1>6. CASE Tick
  BY <1>6, TickInv
<1>7. CASE UNCHANGED vars
  BY <1>7, Kept DEF vars, IInv, TypeOK
<1> QED
  BY <1>1, <1>2, <1>3, <1>4, <1>5, <1>6, <1>7 DEF Next

LEMMA Invariance == Spec => []IInv
BY InitInv, NextInv, PTL DEF Spec

\* The types of the variables.
THEOREM TypeCorrect == Spec => []TypeOK
<1>1. IInv => TypeOK
  BY DEF IInv
<1> QED
  BY <1>1, Invariance, PTL

\* A reservation of a session always has a request under way that will commit or
\* release it (reserve_probe_trigger, bind_success, release_trigger_reservation).
THEOREM ReservationsHaveHolders == Spec => []ReservationHasHolder
<1>1. IInv => ReservationHasHolder
  BY DEF IInv
<1> QED
  BY <1>1, Invariance, PTL

\* The consumed generation of a binding never runs ahead of the completed one,
\* through any commit and any rollback (commit_trigger_reservation, rollback).
THEOREM ConsumedIsCompleted == Spec => []ConsumedWasCompleted
<1>1. IInv => ConsumedWasCompleted
  BY DEF IInv, Generations, ConsumedWasCompleted, Bound
<1> QED
  BY <1>1, Invariance, PTL

\* A completed compaction is spent by one request only in one life of the
\* binding, unless it was given back (try_reserve_probe_trigger and the commit).
THEOREM CompactionsAreSpentOnce == Spec => []CompactionIsSpentOnce
<1>1. IInv => CompactionIsSpentOnce
  <2>1. \A g \in 1 .. MaxRequests : g \in Nat \ {0}
    BY Constants
  <2> QED
    BY <2>1 DEF IInv, Spending, SpentOnce, CompactionIsSpentOnce
<1> QED
  BY <1>1, Invariance, PTL

\* In whatever order requests finish, the session is bound to the provider that
\* answered its newest finished request (bind_success).
THEOREM NewestAnswersAreBound == Spec => []NewestAnswerIsBound
<1>1. IInv => NewestAnswerIsBound
  BY DEF IInv
<1> QED
  BY <1>1, Invariance, PTL

=============================================================================
