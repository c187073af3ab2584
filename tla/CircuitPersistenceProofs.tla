---------------------- MODULE CircuitPersistenceProofs ----------------------
(***************************************************************************)
(* Theorems about CircuitPersistence: the inductive invariant, what the    *)
(* runs check, and the refinement of CircuitStore.                         *)
(***************************************************************************)
EXTENDS CircuitPersistence, TLAPS

-----------------------------------------------------------------------------
(* Types.                                                                   *)

\* None is neither a revision nor an upsert.
LEMMA NoneIsNothing == None \notin Nat /\ None \notin Upsert
BY PersistenceAssumption DEF PersistenceAssumption, Upsert

\* An upsert is put together from its provider and its revision.
LEMMA ItemFields ==
    ASSUME NEW p \in Providers, NEW r \in Nat
    PROVE  /\ item_of(p, r) \in Upsert
           /\ item_of(p, r).provider_id = p
           /\ item_of(p, r).state_revision = r
BY DEF item_of, Upsert

\* Two upserts with equal fields are equal.
LEMMA ItemIsItsFields ==
    ASSUME NEW u \in Upsert
    PROVE  /\ u = item_of(u.provider_id, u.state_revision)
           /\ u.provider_id \in Providers
           /\ u.state_revision \in Nat
BY DEF item_of, Upsert

\* What a caller that is not idle carries.
LEMMA CallerItem ==
    ASSUME TypeOK, NEW c \in Callers, callers[c].pc # "idle"
    PROVE  /\ callers[c].item \in Upsert
           /\ callers[c].item.provider_id \in Providers
           /\ callers[c].item.state_revision \in Nat
<1>1. callers[c] \in CallerStates /\ callers[c].item # None
  BY DEF TypeOK, IsConsistent, Idle
<1>2. callers[c].item \in Upsert
  BY <1>1 DEF CallerStates
<1> QED
  BY <1>2, ItemIsItsFields

\* Moving a caller to another busy place keeps it well typed.
LEMMA GotoType ==
    ASSUME TypeOK, NEW c \in Callers, callers[c].pc # "idle",
           NEW pc \in {"persist", "flushing", "sending", "queueing", "scheduling"},
           Goto(c, pc)
    PROVE  /\ callers' \in [Callers -> CallerStates]
           /\ \A d \in Callers : IsConsistent(callers'[d])
           /\ callers'[c] = [callers[c] EXCEPT !.pc = pc]
           /\ \A d \in Callers \ {c} : callers'[d] = callers[d]
<1>1. callers \in [Callers -> CallerStates]
  BY DEF TypeOK
<1>2. /\ callers'[c] = [callers[c] EXCEPT !.pc = pc]
      /\ \A d \in Callers \ {c} : callers'[d] = callers[d]
      /\ callers' = [callers EXCEPT ![c] = [callers[c] EXCEPT !.pc = pc]]
  BY <1>1 DEF Goto
<1>3. [callers[c] EXCEPT !.pc = pc] \in CallerStates
  BY <1>1 DEF CallerStates
<1>4. callers' \in [Callers -> CallerStates]
  BY <1>1, <1>2, <1>3
<1>5. callers'[c].item = callers[c].item /\ callers'[c].pc = pc
  BY <1>1, <1>2 DEF CallerStates
<1>6. \A d \in Callers : IsConsistent(callers'[d])
  <2>1. callers[c].item # None
    BY DEF TypeOK, IsConsistent, Idle
  <2> QED
    BY <1>2, <1>5, <2>1 DEF TypeOK, IsConsistent
<1> QED
  BY <1>2, <1>4, <1>6

\* What a caller looks like after try_persist: done, or at its next upsert.
LEMMA ReturnEffect ==
    ASSUME TypeOK, NEW c \in Callers, callers[c].pc # "idle", Return(c)
    PROVE  /\ callers' \in [Callers -> CallerStates]
           /\ \A d \in Callers : IsConsistent(callers'[d])
           /\ \A d \in Callers \ {c} : callers'[d] = callers[d]
           /\ \/ callers[c].rest = {} /\ callers'[c] = Idle
              \/ \E i \in callers[c].rest :
                    callers'[c] = [pc |-> "persist", item |-> i,
                                   rest |-> callers[c].rest \ {i}]
<1>1. callers \in [Callers -> CallerStates]
  BY DEF TypeOK
<1>2. callers[c].rest \in SUBSET Upsert
  BY <1>1 DEF CallerStates
<1>3. Idle \in CallerStates
  BY DEF Idle, CallerStates
<1>4. CASE callers[c].rest = {}
  <2>1. callers' = [callers EXCEPT ![c] = Idle]
    BY <1>4 DEF Return
  <2>2. callers' \in [Callers -> CallerStates]
    BY <1>1, <1>3, <2>1
  <2>3. callers'[c] = Idle /\ \A d \in Callers \ {c} : callers'[d] = callers[d]
    BY <1>1, <2>1
  <2>4. callers'[c].item = None /\ callers'[c].pc = "idle"
    BY <2>3 DEF Idle
  <2>5. \A d \in Callers : IsConsistent(callers'[d])
    BY <2>3, <2>4 DEF TypeOK, IsConsistent, Idle
  <2> QED
    BY <1>4, <2>2, <2>3, <2>5
<1>5. CASE callers[c].rest # {}
  <2>1. PICK i \in callers[c].rest :
           callers' = [callers EXCEPT
              ![c] = [pc |-> "persist", item |-> i, rest |-> callers[c].rest \ {i}]]
    BY <1>5, <1>1 DEF Return
  <2>2. [pc |-> "persist", item |-> i, rest |-> callers[c].rest \ {i}]
           \in CallerStates
    BY <1>2 DEF CallerStates
  <2>3. callers' \in [Callers -> CallerStates]
    BY <1>1, <2>1, <2>2
  <2>4. /\ callers'[c] = [pc |-> "persist", item |-> i, rest |-> callers[c].rest \ {i}]
        /\ \A d \in Callers \ {c} : callers'[d] = callers[d]
    BY <1>1, <2>1
  <2>5. i # None
    BY <1>2, NoneIsNothing
  <2>6. callers'[c].item # None /\ callers'[c].pc = "persist"
    BY <2>4, <2>5
  <2>7. \A d \in Callers : IsConsistent(callers'[d])
    BY <2>4, <2>6 DEF TypeOK, IsConsistent
  <2> QED
    BY <2>3, <2>4, <2>7
<1> QED
  BY <1>4, <1>5

\* The revision the writer stores of a provider is one of the batch, or none.
LEMMA LatestType ==
    ASSUME NEW p \in Providers, NEW S \in SUBSET Upsert
    PROVE  /\ latest_by_provider(p, S) \in Nat
           /\ latest_by_provider(p, S) # 0 =>
                 item_of(p, latest_by_provider(p, S)) \in S
<1> DEFINE newest == {r \in revisions_of(p, S) :
                         \A other \in revisions_of(p, S) : other <= r}
<1>1. CASE newest = {}
  BY <1>1 DEF latest_by_provider
<1>2. CASE newest # {}
  <2>1. latest_by_provider(p, S) \in newest
    BY <1>2 DEF latest_by_provider
  <2>2. PICK u \in S : u.provider_id = p /\ u.state_revision = latest_by_provider(p, S)
    BY <2>1 DEF revisions_of
  <2>3. u = item_of(p, latest_by_provider(p, S)) /\ u.state_revision \in Nat
    BY <2>2, ItemIsItsFields
  <2> QED
    BY <2>2, <2>3
<1> QED
  BY <1>1, <1>2

\* A batch that holds the newest upsert of a provider stores that one.
LEMMA LatestIsNewest ==
    ASSUME NEW p \in Providers, NEW S \in SUBSET Upsert, NEW r \in Nat,
           item_of(p, r) \in S,
           \A u \in S : u.provider_id = p => u.state_revision <= r
    PROVE  latest_by_provider(p, S) = r
<1> DEFINE newest == {q \in revisions_of(p, S) :
                         \A other \in revisions_of(p, S) : other <= q}
<1>1. \A q \in revisions_of(p, S) : q \in Nat /\ q <= r
  BY ItemIsItsFields DEF revisions_of
<1>2. r \in revisions_of(p, S)
  BY ItemFields DEF revisions_of
<1>3. r \in newest
  BY <1>1, <1>2
<1>4. \A q \in newest : q = r
  BY <1>1, <1>2
<1> QED
  BY <1>3, <1>4 DEF latest_by_provider

\* A batch is made of upserts.
LEMMA ReceivedType ==
    ASSUME TypeOK
    PROVE  /\ writer.buffer \in Seq(Upsert)
           /\ Received \in SUBSET Upsert
BY DEF TypeOK, WriterStates, Received

-----------------------------------------------------------------------------
(* What is under way.                                                       *)

\* Every upsert a caller holds, also those that need no more storing.
HeldBy(c) ==
    callers[c].rest
       \cup (IF callers[c].item = None THEN {} ELSE {callers[c].item})

\* Those a caller has not handed over yet.
WaitingAt(c) ==
    callers[c].rest
       \cup (IF callers[c].pc \in {"persist", "flushing", "sending", "queueing"}
             THEN {callers[c].item} ELSE {})

Queued == {item_of(p, persist_backlog[p]) : p \in Backlogged}

Sent == {channel[i] : i \in DOMAIN channel}

HandedOver == Queued \cup Sent \cup Received

NotAhead(u) == u.state_revision <= health[u.provider_id]

\* The upserts under way are those that wait at a caller or were handed over.
LEMMA OnItsWayIsSomewhere ==
    ASSUME NEW u
    PROVE  OnItsWay(u) <=> (\E c \in Callers : u \in WaitingAt(c)) \/ u \in HandedOver
BY DEF OnItsWay, WaitingAt, HandedOver, Queued, Sent, Received

\* Whatever is under way is made of upserts.
LEMMA HandedOverType ==
    ASSUME TypeOK
    PROVE  /\ Queued \in SUBSET Upsert
           /\ Sent \in SUBSET Upsert
           /\ Received \in SUBSET Upsert
           /\ \A c \in Callers : HeldBy(c) \in SUBSET Upsert
<1>1. Queued \in SUBSET Upsert
  <2> SUFFICES ASSUME NEW p \in Backlogged
               PROVE  item_of(p, persist_backlog[p]) \in Upsert
    BY DEF Queued
  <2>1. p \in Providers /\ persist_backlog[p] \in Nat
    BY DEF Backlogged, TypeOK
  <2> QED
    BY <2>1, ItemFields
<1>2. Sent \in SUBSET Upsert
  BY DEF Sent, TypeOK
<1>3. \A c \in Callers : HeldBy(c) \in SUBSET Upsert
  BY DEF HeldBy, TypeOK, CallerStates
<1> QED
  BY <1>1, <1>2, <1>3, ReceivedType

\* NothingIsAhead in terms of these sets.
LEMMA NothingIsAheadOfHealth ==
    ASSUME TypeOK
    PROVE  NothingIsAhead <=>
              /\ \A c \in Callers : \A u \in HeldBy(c) : NotAhead(u)
              /\ \A u \in HandedOver : NotAhead(u)
<1>1. (\A u \in Queued : NotAhead(u)) <=>
         \A p \in Backlogged : persist_backlog[p] <= health[p]
  <2>1. \A p \in Backlogged : p \in Providers /\ persist_backlog[p] \in Nat
    BY DEF Backlogged, TypeOK
  <2>2. \A p \in Backlogged : NotAhead(item_of(p, persist_backlog[p])) <=>
                                 persist_backlog[p] <= health[p]
    BY <2>1, ItemFields DEF NotAhead
  <2> QED
    BY <2>2 DEF Queued
<1>2. (\A u \in Sent : NotAhead(u)) <=>
         \A i \in DOMAIN channel :
            channel[i].state_revision <= health[channel[i].provider_id]
  BY DEF Sent, NotAhead
<1>3. (\A u \in Received : NotAhead(u)) <=>
         \A i \in DOMAIN writer.buffer :
            writer.buffer[i].state_revision <= health[writer.buffer[i].provider_id]
  BY DEF Received, NotAhead
<1>4. (\A c \in Callers : \A u \in HeldBy(c) : NotAhead(u)) <=>
         \A c \in Callers :
            \A u \in callers[c].rest
                     \cup (IF callers[c].item = None THEN {} ELSE {callers[c].item}) :
                u.state_revision <= health[u.provider_id]
  BY DEF HeldBy, NotAhead
<1> QED
  BY <1>1, <1>2, <1>3, <1>4 DEF NothingIsAhead, HandedOver

\* A step that takes up only upserts of revisions reached leaves nothing ahead of
\* the breaker.
LEMMA StaysBehind ==
    ASSUME TypeOK, TypeOK', NothingIsAhead,
           \A p \in Providers : health'[p] >= health[p],
           NEW New \in SUBSET Upsert,
           \A u \in New : NotAhead(u)',
           \A c \in Callers : HeldBy(c)' \subseteq HeldBy(c) \cup HandedOver \cup New,
           HandedOver' \subseteq HandedOver \cup New \cup UNION {HeldBy(c) : c \in Callers}
    PROVE  NothingIsAhead'
<1>1. \A u \in HandedOver \cup UNION {HeldBy(c) : c \in Callers} : NotAhead(u)'
  <2> SUFFICES ASSUME NEW u \in HandedOver \cup UNION {HeldBy(c) : c \in Callers}
               PROVE  NotAhead(u)'
    OBVIOUS
  <2>1. NotAhead(u)
    BY NothingIsAheadOfHealth
  <2>2. u \in Upsert
    BY HandedOverType DEF HandedOver
  <2> QED
    BY <2>1, <2>2, ItemIsItsFields DEF NotAhead, TypeOK
<1>2. \A c \in Callers : \A u \in HeldBy(c)' : NotAhead(u)'
  BY <1>1
<1>3. \A u \in HandedOver' : NotAhead(u)'
  BY <1>1
<1>4. \A p \in Backlogged' : persist_backlog'[p] <= health'[p]
  <2> SUFFICES ASSUME NEW p \in Backlogged' PROVE persist_backlog'[p] <= health'[p]
    OBVIOUS
  <2>1. p \in Providers /\ persist_backlog'[p] \in Nat
    BY DEF Backlogged, TypeOK
  <2>2. item_of(p, persist_backlog'[p]) \in HandedOver'
    BY DEF HandedOver, Queued
  <2> QED
    BY <2>1, <2>2, <1>3, ItemFields DEF NotAhead
<1>5. \A i \in DOMAIN channel' :
         channel'[i].state_revision <= health'[channel'[i].provider_id]
  BY <1>3 DEF HandedOver, Sent, NotAhead
<1>6. \A i \in DOMAIN writer'.buffer :
         writer'.buffer[i].state_revision <= health'[writer'.buffer[i].provider_id]
  BY <1>3 DEF HandedOver, Received, NotAhead
<1> QED
  BY <1>2, <1>4, <1>5, <1>6 DEF NothingIsAhead, HeldBy, NotAhead

\* The same of a step that takes up nothing new.
LEMMA TakesUpNothing ==
    ASSUME TypeOK, TypeOK', NothingIsAhead,
           \A p \in Providers : health'[p] >= health[p],
           \A c \in Callers : HeldBy(c)' \subseteq HeldBy(c),
           HandedOver' \subseteq HandedOver \cup UNION {HeldBy(c) : c \in Callers}
    PROVE  NothingIsAhead'
<1> DEFINE New == {}
<1>1. /\ New \in SUBSET Upsert
      /\ \A u \in New : NotAhead(u)'
      /\ \A c \in Callers : HeldBy(c)' \subseteq HeldBy(c) \cup HandedOver \cup New
      /\ HandedOver' \subseteq HandedOver \cup New \cup UNION {HeldBy(c) : c \in Callers}
  OBVIOUS
<1> HIDE DEF New
<1> QED
  BY <1>1, StaysBehind

\* A step that changes no state and keeps what is under way forgets nothing.
LEMMA StaysRemembered ==
    ASSUME TypeOK, TypeOK', NewestIsNotForgotten, health' = health,
           \A p \in Providers : rows'[p] >= rows[p] /\ lost'[p] >= lost[p],
           \A c \in Callers : \A u \in WaitingAt(c) :
              (\E d \in Callers : u \in WaitingAt(d)') \/ u \in HandedOver',
           \A u \in HandedOver : u \in HandedOver'
    PROVE  NewestIsNotForgotten'
<1> SUFFICES ASSUME NEW p \in Providers
             PROVE  \/ rows'[p] >= health'[p]
                    \/ lost'[p] >= health'[p]
                    \/ OnItsWay(item_of(p, health[p]))'
  BY DEF NewestIsNotForgotten
<1>1. CASE rows[p] >= health[p] \/ lost[p] >= health[p]
  BY <1>1 DEF TypeOK
<1>2. CASE OnItsWay(item_of(p, health[p]))
  <2>1. \/ \E c \in Callers : item_of(p, health[p]) \in WaitingAt(c)
        \/ item_of(p, health[p]) \in HandedOver
    BY <1>2, OnItsWayIsSomewhere
  <2>2. \/ \E c \in Callers : item_of(p, health[p]) \in WaitingAt(c)'
        \/ item_of(p, health[p]) \in HandedOver'
    BY <2>1
  <2> DEFINE u == item_of(p, health[p])
  <2> QED
    BY <2>2 DEF OnItsWay, WaitingAt, HandedOver, Queued, Sent, Received
<1> QED
  BY <1>1, <1>2 DEF NewestIsNotForgotten


\* A caller that moves on keeps what it holds.
LEMMA GotoHolds ==
    ASSUME TypeOK, NEW c \in Callers, callers[c].pc # "idle",
           NEW pc \in {"persist", "flushing", "sending", "queueing", "scheduling"},
           Goto(c, pc)
    PROVE  /\ \A d \in Callers : HeldBy(d)' = HeldBy(d)
           /\ \A d \in Callers \ {c} : WaitingAt(d)' = WaitingAt(d)
           /\ callers[c].rest \subseteq WaitingAt(c)'
           /\ pc # "scheduling" => callers[c].item \in WaitingAt(c)'
           /\ callers'[c].pc = pc
           /\ \A d \in Callers \ {c} : callers'[d] = callers[d]
<1>1. /\ callers'[c] = [callers[c] EXCEPT !.pc = pc]
      /\ \A d \in Callers \ {c} : callers'[d] = callers[d]
  BY GotoType
<1>2. callers[c] \in CallerStates
  BY DEF TypeOK
<1>3. callers'[c].rest = callers[c].rest /\ callers'[c].item = callers[c].item
         /\ callers'[c].pc = pc
  BY <1>1, <1>2 DEF CallerStates
<1> QED
  BY <1>1, <1>3 DEF HeldBy, WaitingAt

\* A caller that is done with an upsert still holds and still has to hand over the
\* rest, and nothing else.
LEMMA ReturnHolds ==
    ASSUME TypeOK, NEW c \in Callers, callers[c].pc # "idle", Return(c)
    PROVE  /\ HeldBy(c)' \subseteq HeldBy(c)
           /\ callers[c].rest \subseteq WaitingAt(c)'
           /\ \A d \in Callers \ {c} :
                 HeldBy(d)' = HeldBy(d) /\ WaitingAt(d)' = WaitingAt(d)
<1>1. \A d \in Callers \ {c} : callers'[d] = callers[d]
  BY ReturnEffect
<1>2. CASE callers[c].rest = {} /\ callers'[c] = Idle
  BY <1>1, <1>2 DEF HeldBy, WaitingAt, Idle
<1>3. CASE \E i \in callers[c].rest :
              callers'[c] = [pc |-> "persist", item |-> i,
                             rest |-> callers[c].rest \ {i}]
  <2>1. PICK i \in callers[c].rest :
           callers'[c] = [pc |-> "persist", item |-> i, rest |-> callers[c].rest \ {i}]
    BY <1>3
  <2>2. WaitingAt(c)' = callers[c].rest
    BY <2>1 DEF WaitingAt
  <2>3. HeldBy(c)' \subseteq callers[c].rest
    BY <2>1 DEF HeldBy
  <2>4. \A d \in Callers \ {c} : HeldBy(d)' = HeldBy(d) /\ WaitingAt(d)' = WaitingAt(d)
    BY <1>1 DEF HeldBy, WaitingAt
  <2> QED
    BY <2>2, <2>3, <2>4 DEF HeldBy
<1> QED
  BY <1>2, <1>3, ReturnEffect

\* Sending adds one upsert to the channel.
LEMMA SendAdds ==
    ASSUME TypeOK, NEW u \in Upsert, channel' = Append(channel, u)
    PROVE  /\ channel' \in Seq(Upsert)
           /\ Sent' = Sent \cup {u}
<1>1. channel \in Seq(Upsert)
  BY DEF TypeOK
<1>2. channel' \in Seq(Upsert) /\ Len(channel') = Len(channel) + 1
  BY <1>1
<1>3. \A i \in 1..Len(channel) : channel'[i] = channel[i]
  BY <1>1
<1>4. channel'[Len(channel) + 1] = u
  BY <1>1
<1>5. Sent \cup {u} \subseteq Sent'
  BY <1>1, <1>2, <1>3, <1>4 DEF Sent
<1>6. Sent' \subseteq Sent \cup {u}
  <2> SUFFICES ASSUME NEW i \in DOMAIN channel' PROVE channel'[i] \in Sent \cup {u}
    BY DEF Sent
  <2>1. i \in 1..Len(channel) \/ i = Len(channel) + 1
    BY <1>1, <1>2
  <2> QED
    BY <2>1, <1>1, <1>3, <1>4 DEF Sent
<1> QED
  BY <1>2, <1>5, <1>6

\* An entry of the backlog that is sent is under way as before.
LEMMA PopSends ==
    ASSUME TypeOK, NEW p \in Backlogged,
           channel' = Append(channel, item_of(p, persist_backlog[p])),
           persist_backlog' = [persist_backlog EXCEPT ![p] = None],
           writer' = writer
    PROVE  /\ persist_backlog' \in [Providers -> Nat \cup {None}]
           /\ channel' \in Seq(Upsert)
           /\ HandedOver' = HandedOver
           /\ Backlogged' \subseteq Backlogged
<1>1. p \in Providers /\ persist_backlog[p] \in Nat
  BY DEF Backlogged, TypeOK
<1> DEFINE u == item_of(p, persist_backlog[p])
<1>2. u \in Upsert
  BY <1>1, ItemFields
<1>3. channel' \in Seq(Upsert) /\ Sent' = Sent \cup {u}
  BY <1>2, SendAdds
<1>4. persist_backlog' \in [Providers -> Nat \cup {None}]
  BY <1>1 DEF TypeOK
<1>5. /\ persist_backlog'[p] = None
      /\ \A q \in Providers \ {p} : persist_backlog'[q] = persist_backlog[q]
  BY <1>1 DEF TypeOK
<1>6. Backlogged' = Backlogged \ {p}
  BY <1>5 DEF Backlogged
<1>7. Queued = Queued' \cup {u}
  BY <1>1, <1>5, <1>6 DEF Queued, Backlogged
<1>8. Received' = Received
  BY DEF Received
<1> QED
  BY <1>3, <1>4, <1>6, <1>7, <1>8 DEF HandedOver

-----------------------------------------------------------------------------
(* The invariant holds at the start.                                        *)

\* The invariant holds at the start.
LEMMA InitSafety == Init => SafetyInvariant
<1> SUFFICES ASSUME Init PROVE SafetyInvariant
  OBVIOUS
<1>1. TypeOK
  <2>1. Idle \in CallerStates /\ Idle.item = None /\ Idle.pc = "idle"
    BY DEF Idle, CallerStates
  <2>2. writer \in WriterStates
    BY DEF Init, WriterStates
  <2>3. health \in [Providers -> Nat] /\ rows \in [Providers -> Nat]
    BY PersistenceAssumption DEF Init, PersistenceAssumption
  <2>4. /\ callers \in [Callers -> CallerStates]
        /\ \A c \in Callers : IsConsistent(callers[c])
    BY <2>1 DEF Init, IsConsistent, Idle
  <2>5. /\ persist_backlog \in [Providers -> Nat \cup {None}]
        /\ persist_backlog_flush_scheduled \in BOOLEAN
        /\ flush_tasks \in [Tasks -> TaskStates]
    BY DEF Init, TaskStates
  <2>6. channel \in Seq(Upsert)
    BY DEF Init
  <2>7. /\ promised \in [Providers -> Nat]
        /\ lost \in [Providers -> Nat]
        /\ restarts \in Nat
    BY DEF Init, Nothing
  <2> QED
    BY <2>2, <2>3, <2>4, <2>5, <2>6, <2>7 DEF TypeOK
<1>2. Backlogged = {} /\ Flushing = {}
  BY DEF Init, Backlogged, Flushing
<1>3. NothingIsAhead
  <2>1. \A c \in Callers : callers[c].rest = {} /\ callers[c].item = None
    BY DEF Init, Idle
  <2> QED
    BY <1>2, <2>1 DEF Init, NothingIsAhead
<1>4. NewestIsNotForgotten
  <2>1. \A p \in Providers : rows[p] \in Nat /\ rows[p] = health[p]
    BY <1>1 DEF TypeOK, Init
  <2> QED
    BY <2>1 DEF NewestIsNotForgotten
<1>5. FlagHasOneTask /\ BacklogHasFlusher
  BY <1>2 DEF FlagHasOneTask, BacklogHasFlusher, Init
<1> QED
  BY <1>1, <1>3, <1>4, <1>5 DEF SafetyInvariant

-----------------------------------------------------------------------------
(* Calls of the breaker.                                                    *)

\* A change is on its way as soon as it is made.
LEMMA ChangeStatesKeeps ==
    ASSUME SafetyInvariant, NEW c \in Callers,
           NEW changed \in SUBSET Providers \ {{}}, ChangeStates(c, changed)
    PROVE  SafetyInvariant'
<1> USE DEF SafetyInvariant
<1>0. callers[c] = Idle /\ callers[c].rest = {} /\ callers[c].pc = "idle"
  BY DEF ChangeStates, TypeOK, IsConsistent, Idle
<1>1. /\ health' \in [Providers -> Nat]
      /\ \A p \in Providers : health'[p] >= health[p]
      /\ \A p \in Providers \ changed : health'[p] = health[p]
  BY DEF ChangeStates, TypeOK
<1> DEFINE upserts == {item_of(p, health'[p]) : p \in changed}
<1>2. upserts \in SUBSET Upsert
  BY <1>1, ItemFields
<1>3. PICK i \in upserts :
         callers' = [callers EXCEPT
            ![c] = [pc |-> "persist", item |-> i, rest |-> upserts \ {i}]]
  BY DEF ChangeStates
<1>4. /\ callers'[c] = [pc |-> "persist", item |-> i, rest |-> upserts \ {i}]
      /\ \A d \in Callers \ {c} : callers'[d] = callers[d]
      /\ i # None
      /\ [pc |-> "persist", item |-> i, rest |-> upserts \ {i}] \in CallerStates
  BY <1>2, <1>3, NoneIsNothing DEF TypeOK, CallerStates
<1>5. TypeOK'
  <2>1. callers' \in [Callers -> CallerStates]
    BY <1>3, <1>4 DEF TypeOK
  <2>2. callers'[c].item # None /\ callers'[c].pc = "persist"
    BY <1>4
  <2>3. \A d \in Callers : IsConsistent(callers'[d])
    BY <1>4, <2>2 DEF TypeOK, IsConsistent
  <2> QED
    BY <1>1, <2>1, <2>3 DEF ChangeStates, TypeOK
<1>6. HandedOver' = HandedOver
  BY DEF HandedOver, Queued, Sent, Received, Backlogged, ChangeStates
<1>7. /\ HeldBy(c)' \subseteq upserts
      /\ WaitingAt(c)' = upserts
      /\ \A d \in Callers \ {c} :
            HeldBy(d)' = HeldBy(d) /\ WaitingAt(d)' = WaitingAt(d)
  BY <1>4 DEF HeldBy, WaitingAt
<1>8. NothingIsAhead'
  <2>1. \A u \in upserts : NotAhead(u)'
    BY <1>1, ItemFields DEF NotAhead
  <2> QED
    BY <1>1, <1>2, <1>5, <1>6, <1>7, <2>1, StaysBehind
<1>9. NewestIsNotForgotten'
  <2> SUFFICES ASSUME NEW p \in Providers
               PROVE  \/ rows'[p] >= health'[p]
                      \/ lost'[p] >= health'[p]
                      \/ OnItsWay(item_of(p, health[p]))'
    BY DEF NewestIsNotForgotten
  <2> DEFINE u == item_of(p, health'[p])
  <2>0. (\E d \in Callers : u \in WaitingAt(d)') \/ u \in HandedOver'
           => OnItsWay(item_of(p, health[p]))'
    BY DEF OnItsWay, WaitingAt, HandedOver, Queued, Sent, Received
  <2>1. CASE p \in changed
    <3>1. u \in WaitingAt(c)'
      BY <2>1, <1>7
    <3> QED
      BY <3>1, <2>0
  <2>2. CASE p \notin changed
    <3>1. health'[p] = health[p]
      BY <2>2, <1>1
    <3>2. CASE OnItsWay(item_of(p, health[p]))
      <4>1. (\E d \in Callers : u \in WaitingAt(d)) \/ u \in HandedOver
        BY <3>1, <3>2, OnItsWayIsSomewhere
      <4>2. WaitingAt(c) = {}
        BY <1>0 DEF WaitingAt
      <4> QED
        BY <4>1, <4>2, <2>0, <1>6, <1>7
    <3> QED
      BY <3>1, <3>2 DEF NewestIsNotForgotten, ChangeStates
  <2> QED
    BY <2>1, <2>2
<1>10. FlagHasOneTask'
  BY DEF FlagHasOneTask, Flushing, ChangeStates
<1>11. BacklogHasFlusher'
  BY <1>0, <1>4 DEF BacklogHasFlusher, Backlogged, ChangeStates
<1> QED
  BY <1>5, <1>8, <1>9, <1>10, <1>11

\* A caller that moves on without handing anything over keeps the invariant.
LEMMA MoveKeeps ==
    ASSUME SafetyInvariant, NEW c \in Callers,
           callers[c].pc \in {"persist", "flushing", "sending"},
           NEW pc \in {"flushing", "sending", "queueing"}, Goto(c, pc),
           UNCHANGED <<health, persist_backlog, persist_backlog_flush_scheduled,
                       flush_tasks, channel, writer, rows, promised, lost, restarts>>
    PROVE  SafetyInvariant'
<1> USE DEF SafetyInvariant
<1>1. TypeOK'
  BY GotoType DEF TypeOK
<1>2. HandedOver' = HandedOver
  BY DEF HandedOver, Queued, Sent, Received, Backlogged
<1>3. /\ \A d \in Callers : HeldBy(d)' = HeldBy(d)
      /\ \A d \in Callers \ {c} : WaitingAt(d)' = WaitingAt(d)
      /\ callers[c].rest \cup {callers[c].item} \subseteq WaitingAt(c)'
      /\ \A d \in Callers \ {c} : callers'[d] = callers[d]
  BY GotoHolds
<1>4. WaitingAt(c) \subseteq WaitingAt(c)'
  BY <1>3 DEF WaitingAt
<1>5. NothingIsAhead'
  <2>1. \A p \in Providers : health'[p] >= health[p]
    BY DEF TypeOK
  <2> QED
    BY <1>1, <1>2, <1>3, <2>1, TakesUpNothing
<1>6. NewestIsNotForgotten'
  <2>1. \A p \in Providers : rows'[p] >= rows[p] /\ lost'[p] >= lost[p]
    BY DEF TypeOK
  <2> QED
    BY <1>1, <1>2, <1>3, <1>4, <2>1, StaysRemembered
<1>7. FlagHasOneTask'
  BY DEF FlagHasOneTask, Flushing
<1>8. BacklogHasFlusher'
  BY <1>3 DEF BacklogHasFlusher, Backlogged
<1> QED
  BY <1>1, <1>5, <1>6, <1>7, <1>8

\* try_persist locks the backlog.
LEMMA LockBacklogKeeps ==
    ASSUME SafetyInvariant, NEW c \in Callers, LockBacklog(c)
    PROVE  SafetyInvariant'
BY MoveKeeps DEF LockBacklog

\* ... and unlocks it, the backlog empty or the channel full.
LEMMA UnlockBacklogKeeps ==
    ASSUME SafetyInvariant, NEW c \in Callers, UnlockBacklog(c)
    PROVE  SafetyInvariant'
BY MoveKeeps DEF UnlockBacklog

\* A flushed entry goes from the backlog to the channel.
LEMMA FlushOneKeeps ==
    ASSUME SafetyInvariant, NEW c \in Callers, FlushOne(c)
    PROVE  SafetyInvariant'
<1> USE DEF SafetyInvariant
<1>1. PICK p \in Backlogged :
         /\ channel' = Append(channel, item_of(p, persist_backlog[p]))
         /\ persist_backlog' = [persist_backlog EXCEPT ![p] = None]
  BY DEF FlushOne
<1>2. UNCHANGED <<health, callers, persist_backlog_flush_scheduled, flush_tasks,
                  writer, rows, promised, lost, restarts>>
  BY DEF FlushOne
<1>3. /\ persist_backlog' \in [Providers -> Nat \cup {None}]
      /\ channel' \in Seq(Upsert)
      /\ HandedOver' = HandedOver
      /\ Backlogged' \subseteq Backlogged
  BY <1>1, <1>2, PopSends
<1>4. TypeOK'
  BY <1>2, <1>3 DEF TypeOK
<1>5. \A d \in Callers : HeldBy(d)' = HeldBy(d) /\ WaitingAt(d)' = WaitingAt(d)
  BY <1>2 DEF HeldBy, WaitingAt
<1>6. /\ \A q \in Providers : health'[q] >= health[q]
      /\ \A q \in Providers : rows'[q] >= rows[q] /\ lost'[q] >= lost[q]
  BY <1>2 DEF TypeOK
<1>7. NothingIsAhead'
  BY <1>3, <1>4, <1>5, <1>6, TakesUpNothing
<1>8. NewestIsNotForgotten'
  BY <1>2, <1>3, <1>4, <1>5, <1>6, StaysRemembered
<1>9. FlagHasOneTask' /\ BacklogHasFlusher'
  BY <1>2, <1>3 DEF FlagHasOneTask, Flushing, BacklogHasFlusher
<1> QED
  BY <1>4, <1>7, <1>8, <1>9

\* An upsert is sent, or stays with its caller because the channel is full.
LEMMA TrySendKeeps ==
    ASSUME SafetyInvariant, NEW c \in Callers, TrySend(c)
    PROVE  SafetyInvariant'
<1> USE DEF SafetyInvariant
<1>1. CASE HasSlot
  <2>1. /\ callers[c].pc = "sending"
        /\ channel' = Append(channel, callers[c].item)
        /\ Return(c)
        /\ UNCHANGED <<health, persist_backlog, persist_backlog_flush_scheduled,
                       flush_tasks, writer, rows, promised, lost, restarts>>
    BY <1>1 DEF TrySend
  <2>2. callers[c].item \in Upsert
    BY <2>1, CallerItem
  <2>3. channel' \in Seq(Upsert) /\ Sent' = Sent \cup {callers[c].item}
    BY <2>1, <2>2, SendAdds
  <2>4. TypeOK'
    BY <2>1, <2>3, ReturnEffect DEF TypeOK
  <2>5. HandedOver' = HandedOver \cup {callers[c].item}
    BY <2>1, <2>3 DEF HandedOver, Queued, Received, Backlogged
  <2>6. /\ HeldBy(c)' \subseteq HeldBy(c)
        /\ callers[c].rest \subseteq WaitingAt(c)'
        /\ \A d \in Callers \ {c} :
              HeldBy(d)' = HeldBy(d) /\ WaitingAt(d)' = WaitingAt(d)
    BY <2>1, ReturnHolds
  <2>7. callers[c].item \in HeldBy(c) /\ WaitingAt(c) = callers[c].rest \cup {callers[c].item}
    BY <2>1, <2>2, NoneIsNothing DEF HeldBy, WaitingAt
  <2>8. /\ \A q \in Providers : health'[q] >= health[q]
        /\ \A q \in Providers : rows'[q] >= rows[q] /\ lost'[q] >= lost[q]
    BY <2>1 DEF TypeOK
  <2>9. NothingIsAhead'
    BY <2>4, <2>5, <2>6, <2>7, <2>8, TakesUpNothing
  <2>10. NewestIsNotForgotten'
    <3>1. \A d \in Callers : \A u \in WaitingAt(d) :
             (\E e \in Callers : u \in WaitingAt(e)') \/ u \in HandedOver'
      BY <2>5, <2>6, <2>7
    <3> QED
      BY <3>1, <2>1, <2>4, <2>5, <2>8, StaysRemembered
  <2>11. FlagHasOneTask'
    BY <2>1 DEF FlagHasOneTask, Flushing
  <2>12. BacklogHasFlusher'
    <3>1. \A d \in Callers \ {c} : callers'[d] = callers[d]
      BY <2>1, ReturnEffect
    <3> QED
      BY <3>1, <2>1 DEF BacklogHasFlusher, Backlogged
  <2> QED
    BY <2>4, <2>9, <2>10, <2>11, <2>12
<1>2. CASE ~HasSlot
  BY <1>2, MoveKeeps DEF TrySend
<1> QED
  BY <1>1, <1>2


\* What enqueue_persist_backlog does to the backlog: the provider of the upsert
\* has an entry at least as new, and what another one loses is accounted for.
LEMMA EnqueueEffect ==
    ASSUME TypeOK, NEW c \in Callers, Enqueue(c),
           NEW p, p = callers[c].item.provider_id,
           NEW r, r = callers[c].item.state_revision
    PROVE  /\ persist_backlog' \in [Providers -> Nat \cup {None}]
           /\ lost' \in [Providers -> Nat]
           /\ \A q \in Providers : lost'[q] >= lost[q]
           /\ \A q \in Providers \ {p} :
                 \/ persist_backlog'[q] = persist_backlog[q]
                 \/ persist_backlog'[q] = None /\ lost'[q] >= persist_backlog[q]
           /\ \/ persist_backlog'[p] = r
              \/ /\ persist_backlog'[p] = persist_backlog[p]
                 /\ persist_backlog[p] \in Nat
                 /\ persist_backlog[p] > r
           /\ persist_backlog[p] \in Nat /\ persist_backlog'[p] = r =>
                 persist_backlog[p] <= r
<1>0. callers[c].pc = "queueing"
  BY DEF Enqueue
<1>1. p \in Providers /\ r \in Nat
  BY <1>0, CallerItem
<1>2. /\ persist_backlog \in [Providers -> Nat \cup {None}]
      /\ lost \in [Providers -> Nat]
      /\ \A q \in Providers : persist_backlog[q] # None => persist_backlog[q] \in Nat
      /\ None \notin Nat
  BY NoneIsNothing DEF TypeOK
<1>3. CASE newer_queued(p, r) /\ UNCHANGED <<persist_backlog, lost>>
  <2>1. persist_backlog[p] \in Nat /\ persist_backlog[p] > r
    BY <1>1, <1>2, <1>3 DEF newer_queued
  <2>2. persist_backlog' = persist_backlog /\ lost' = lost
    BY <1>3
  <2> QED
    BY <1>1, <1>2, <2>1, <2>2
<1>4. CASE /\ ~newer_queued(p, r)
           /\ persist_backlog' = [persist_backlog EXCEPT ![p] = r]
           /\ UNCHANGED lost
  <2>1. persist_backlog[p] \in Nat => persist_backlog[p] <= r
    BY <1>1, <1>2, <1>4 DEF newer_queued
  <2>2. persist_backlog'[p] = r
    BY <1>1, <1>2, <1>4
  <2>3. \A q \in Providers \ {p} : persist_backlog'[q] = persist_backlog[q]
    BY <1>1, <1>2, <1>4
  <2>4. persist_backlog' \in [Providers -> Nat \cup {None}]
    BY <1>1, <1>2, <1>4
  <2> QED
    BY <1>2, <1>4, <2>1, <2>2, <2>3, <2>4
<1>5. CASE /\ ~newer_queued(p, r)
           /\ p \notin Backlogged
           /\ \E evicted \in Backlogged :
                 /\ persist_backlog' =
                       [persist_backlog EXCEPT ![evicted] = None, ![p] = r]
                 /\ lost' = [lost EXCEPT
                       ![evicted] = Later(@, persist_backlog[evicted])]
  <2>1. PICK evicted \in Backlogged :
           /\ persist_backlog' = [persist_backlog EXCEPT ![evicted] = None, ![p] = r]
           /\ lost' = [lost EXCEPT
                 ![evicted] = Later(lost[evicted], persist_backlog[evicted])]
    BY <1>5
  <2>2. evicted \in Providers /\ evicted # p /\ persist_backlog[evicted] \in Nat
    BY <1>2, <1>5 DEF Backlogged
  <2>3. persist_backlog[p] = None
    BY <1>1, <1>5 DEF Backlogged
  <2>4. /\ persist_backlog'[p] = r
        /\ persist_backlog'[evicted] = None
        /\ \A q \in Providers \ {p, evicted} : persist_backlog'[q] = persist_backlog[q]
    BY <1>1, <1>2, <2>1, <2>2
  <2>5. persist_backlog' \in [Providers -> Nat \cup {None}]
    BY <1>1, <1>2, <2>1, <2>2
  <2> DEFINE dropped == Later(lost[evicted], persist_backlog[evicted])
  <2>6. dropped \in Nat /\ dropped >= lost[evicted]
           /\ dropped >= persist_backlog[evicted]
    BY <1>2, <2>2 DEF Later
  <2>7. /\ lost' \in [Providers -> Nat]
        /\ lost'[evicted] = dropped
        /\ \A q \in Providers \ {evicted} : lost'[q] = lost[q]
    BY <1>2, <2>1, <2>2, <2>6
  <2>8. \A q \in Providers : lost'[q] >= lost[q]
    BY <1>2, <2>6, <2>7
  <2> QED
    BY <1>2, <2>3, <2>4, <2>5, <2>6, <2>7, <2>8
<1> QED
  BY <1>3, <1>4, <1>5 DEF Enqueue

\* The newest upsert of a provider is never the outdated one, and is what is kept.
LEMMA EnqueueKeeps ==
    ASSUME SafetyInvariant, NEW c \in Callers, Enqueue(c)
    PROVE  SafetyInvariant'
<1> USE DEF SafetyInvariant
<1>1. /\ callers[c].pc = "queueing"
      /\ Goto(c, "scheduling")
      /\ UNCHANGED <<health, persist_backlog_flush_scheduled, flush_tasks,
                     channel, writer, rows, promised, restarts>>
  BY DEF Enqueue
<1>2. PICK p, r : p = callers[c].item.provider_id /\ r = callers[c].item.state_revision
  OBVIOUS
<1>3. /\ callers[c].item = item_of(p, r)
      /\ callers[c].item \in Upsert
      /\ p \in Providers
      /\ r \in Nat
  BY <1>1, <1>2, CallerItem, ItemIsItsFields
<1>4. /\ persist_backlog' \in [Providers -> Nat \cup {None}]
      /\ lost' \in [Providers -> Nat]
      /\ \A q \in Providers : lost'[q] >= lost[q]
      /\ \A q \in Providers \ {p} :
            \/ persist_backlog'[q] = persist_backlog[q]
            \/ persist_backlog'[q] = None /\ lost'[q] >= persist_backlog[q]
      /\ \/ persist_backlog'[p] = r
         \/ /\ persist_backlog'[p] = persist_backlog[p]
            /\ persist_backlog[p] \in Nat
            /\ persist_backlog[p] > r
      /\ persist_backlog[p] \in Nat /\ persist_backlog'[p] = r =>
            persist_backlog[p] <= r
  BY <1>2, EnqueueEffect
<1>5. TypeOK'
  BY <1>1, <1>4, GotoType DEF TypeOK
<1>6. /\ \A d \in Callers : HeldBy(d)' = HeldBy(d)
      /\ \A d \in Callers \ {c} : WaitingAt(d)' = WaitingAt(d)
      /\ callers[c].rest \subseteq WaitingAt(c)'
      /\ callers'[c].pc = "scheduling"
      /\ \A d \in Callers \ {c} : callers'[d] = callers[d]
  BY <1>1, GotoHolds
<1>7. item_of(p, r) \in HeldBy(c)
  BY <1>3, NoneIsNothing DEF HeldBy
<1>8. Sent' = Sent /\ Received' = Received
  BY <1>1 DEF Sent, Received
<1>9. NothingIsAhead'
  <2>1. Queued' \subseteq Queued \cup {item_of(p, r)}
    <3> SUFFICES ASSUME NEW q \in Backlogged'
                 PROVE  item_of(q, persist_backlog'[q]) \in Queued \cup {item_of(p, r)}
      BY DEF Queued
    <3>1. q \in Providers /\ persist_backlog'[q] # None
      BY DEF Backlogged
    <3>2. CASE persist_backlog'[q] = persist_backlog[q]
      BY <3>1, <3>2 DEF Queued, Backlogged
    <3>3. CASE q = p /\ persist_backlog'[q] = r
      BY <3>3
    <3> QED
      BY <1>4, <3>1, <3>2, <3>3
  <2>2. \A q \in Providers : health'[q] >= health[q]
    BY <1>1 DEF TypeOK
  <2> QED
    BY <1>5, <1>6, <1>7, <1>8, <2>1, <2>2, TakesUpNothing DEF HandedOver
<1>10. NewestIsNotForgotten'
  <2> SUFFICES ASSUME NEW q \in Providers
               PROVE  \/ rows'[q] >= health'[q]
                      \/ lost'[q] >= health'[q]
                      \/ OnItsWay(item_of(q, health[q]))'
    BY <1>1 DEF NewestIsNotForgotten
  <2> DEFINE u == item_of(q, health[q])
  <2>1. health'[q] = health[q] /\ health[q] \in Nat
    BY <1>1 DEF TypeOK
  <2>2. u.provider_id = q /\ u.state_revision = health[q] /\ u \in Upsert
    BY <2>1, ItemFields
  <2>3. (\E d \in Callers : u \in WaitingAt(d)') \/ u \in HandedOver'
           => OnItsWay(item_of(q, health[q]))'
    BY <2>1 DEF OnItsWay, WaitingAt, HandedOver, Queued, Sent, Received
  <2>4. CASE rows[q] >= health[q] \/ lost[q] >= health[q]
    BY <2>1, <2>4, <1>1, <1>4 DEF TypeOK
  <2>5. CASE u \in Sent \cup Received
    BY <2>3, <2>5, <1>8 DEF HandedOver
  <2>6. CASE \E d \in Callers : u \in WaitingAt(d) /\ (d # c \/ u \in callers[c].rest)
    BY <2>3, <2>6, <1>6
  <2>7. CASE u = item_of(p, r)
    <3>1. q = p /\ health[q] = r
      BY <2>2, <2>7, <1>3, ItemFields
    <3>2. p \in Backlogged /\ persist_backlog[p] > r => FALSE
      BY <3>1, <1>3 DEF NothingIsAhead, TypeOK, Backlogged
    <3>3. persist_backlog'[p] = r
      BY <3>2, <1>3, <1>4, NoneIsNothing DEF Backlogged
    <3>4. u \in Queued'
      BY <2>7, <3>3, <1>3, NoneIsNothing DEF Queued, Backlogged
    <3> QED
      BY <2>3, <3>4 DEF HandedOver
  <2>8. CASE u \in Queued
    <3>1. PICK b \in Backlogged : u = item_of(b, persist_backlog[b])
      BY <2>8 DEF Queued
    <3>2. b \in Providers /\ persist_backlog[b] \in Nat
      BY DEF Backlogged, TypeOK
    <3>3. b = q /\ persist_backlog[q] = health[q]
      BY <2>2, <3>1, <3>2, ItemFields
    <3>4. NotAhead(item_of(p, r))
      BY <1>7, NothingIsAheadOfHealth
    <3>5. q = p => r <= health[q]
      BY <3>4, <1>3, ItemFields DEF NotAhead
    <3>6. persist_backlog'[q] = health[q] \/ lost'[q] >= health[q]
      BY <1>3, <1>4, <2>1, <3>2, <3>3, <3>5
    <3>7. persist_backlog'[q] = health[q] => u \in Queued'
      BY <2>1, NoneIsNothing DEF Queued, Backlogged
    <3> QED
      BY <2>1, <2>3, <3>6, <3>7 DEF HandedOver
  <2>9. WaitingAt(c) \subseteq callers[c].rest \cup {item_of(p, r)}
    BY <1>3 DEF WaitingAt
  <2> QED
    BY <2>4, <2>5, <2>6, <2>7, <2>8, <2>9, OnItsWayIsSomewhere
       DEF NewestIsNotForgotten, HandedOver
<1>11. FlagHasOneTask'
  BY <1>1 DEF FlagHasOneTask, Flushing
<1>12. BacklogHasFlusher'
  BY <1>6 DEF BacklogHasFlusher
<1> QED
  BY <1>5, <1>9, <1>10, <1>11, <1>12

\* The flag is free only if no task is flushing: the new one is the only one.
LEMMA ScheduleKeeps ==
    ASSUME SafetyInvariant, NEW c \in Callers, Schedule(c)
    PROVE  SafetyInvariant'
<1> USE DEF SafetyInvariant
<1>1. /\ callers[c].pc = "scheduling"
      /\ Return(c)
      /\ UNCHANGED <<health, persist_backlog, channel, writer, rows, promised, lost,
                     restarts>>
  BY DEF Schedule
<1>2. /\ persist_backlog_flush_scheduled' = TRUE
      /\ \/ persist_backlog_flush_scheduled /\ flush_tasks' = flush_tasks
         \/ /\ ~persist_backlog_flush_scheduled
            /\ \E t \in Tasks :
                  /\ flush_tasks[t] = "idle"
                  /\ flush_tasks' = [flush_tasks EXCEPT ![t] = "reserve"]
  BY DEF Schedule, TypeOK
<1>3. flush_tasks' \in [Tasks -> TaskStates]
  BY <1>2 DEF TypeOK, TaskStates
<1>4. TypeOK'
  BY <1>1, <1>2, <1>3, ReturnEffect DEF TypeOK
<1>5. HandedOver' = HandedOver
  BY <1>1 DEF HandedOver, Queued, Sent, Received, Backlogged
<1>6. /\ HeldBy(c)' \subseteq HeldBy(c)
      /\ callers[c].rest \subseteq WaitingAt(c)'
      /\ \A d \in Callers \ {c} :
            HeldBy(d)' = HeldBy(d) /\ WaitingAt(d)' = WaitingAt(d)
  BY <1>1, ReturnHolds
<1>7. WaitingAt(c) = callers[c].rest
  BY <1>1 DEF WaitingAt
<1>8. /\ \A q \in Providers : health'[q] >= health[q]
      /\ \A q \in Providers : rows'[q] >= rows[q] /\ lost'[q] >= lost[q]
  BY <1>1 DEF TypeOK
<1>9. NothingIsAhead'
  BY <1>4, <1>5, <1>6, <1>8, TakesUpNothing
<1>10. NewestIsNotForgotten'
  BY <1>1, <1>4, <1>5, <1>6, <1>7, <1>8, StaysRemembered
<1>11. FlagHasOneTask' /\ \E t \in Tasks : flush_tasks'[t] # "idle"
  <2>1. CASE persist_backlog_flush_scheduled /\ flush_tasks' = flush_tasks
    BY <1>2, <2>1 DEF FlagHasOneTask, Flushing
  <2>2. CASE /\ ~persist_backlog_flush_scheduled
             /\ \E t \in Tasks :
                   /\ flush_tasks[t] = "idle"
                   /\ flush_tasks' = [flush_tasks EXCEPT ![t] = "reserve"]
    <3>1. PICK t \in Tasks : flush_tasks' = [flush_tasks EXCEPT ![t] = "reserve"]
      BY <2>2
    <3>2. /\ flush_tasks'[t] = "reserve"
          /\ \A s \in Tasks \ {t} : flush_tasks'[s] = flush_tasks[s]
      BY <3>1 DEF TypeOK
    <3>3. Flushing = {}
      BY <2>2 DEF FlagHasOneTask
    <3>4. Flushing' = {t}
      BY <3>2, <3>3 DEF Flushing
    <3> QED
      BY <1>2, <3>2, <3>4 DEF FlagHasOneTask
  <2> QED
    BY <1>2, <2>1, <2>2
<1>12. BacklogHasFlusher'
  BY <1>11 DEF BacklogHasFlusher
<1> QED
  BY <1>4, <1>9, <1>10, <1>11, <1>12


-----------------------------------------------------------------------------
(* Flush tasks.                                                             *)

\* What is the same for every step of a task but PopBacklog's: it touches only the
\* flag and the tasks.
LEMMA TaskOnly ==
    ASSUME SafetyInvariant,
           flush_tasks' \in [Tasks -> TaskStates],
           persist_backlog_flush_scheduled' \in BOOLEAN,
           UNCHANGED <<health, callers, persist_backlog, channel, writer, rows,
                       promised, lost, restarts>>
    PROVE  TypeOK' /\ NothingIsAhead' /\ NewestIsNotForgotten'
<1> USE DEF SafetyInvariant
<1>1. TypeOK'
  BY DEF TypeOK
<1>2. HandedOver' = HandedOver
  BY DEF HandedOver, Queued, Sent, Received, Backlogged
<1>3. \A d \in Callers : HeldBy(d)' = HeldBy(d) /\ WaitingAt(d)' = WaitingAt(d)
  BY DEF HeldBy, WaitingAt
<1>4. /\ \A q \in Providers : health'[q] >= health[q]
      /\ \A q \in Providers : rows'[q] >= rows[q] /\ lost'[q] >= lost[q]
  BY DEF TypeOK
<1> QED
  BY <1>1, <1>2, <1>3, <1>4, TakesUpNothing, StaysRemembered

\* Where the tasks are after a step of one of them.
LEMMA SetTaskEffect ==
    ASSUME TypeOK, NEW t \in Tasks, NEW pc \in TaskStates, SetTask(t, pc)
    PROVE  /\ flush_tasks' \in [Tasks -> TaskStates]
           /\ flush_tasks'[t] = pc
           /\ \A s \in Tasks \ {t} : flush_tasks'[s] = flush_tasks[s]
           /\ pc \in {"reserve", "permit", "drained"} => Flushing' = Flushing \cup {t}
           /\ pc \notin {"reserve", "permit", "drained"} => Flushing' = Flushing \ {t}
<1>1. /\ flush_tasks' \in [Tasks -> TaskStates]
      /\ flush_tasks'[t] = pc
      /\ \A s \in Tasks \ {t} : flush_tasks'[s] = flush_tasks[s]
  BY DEF TypeOK, SetTask
<1> QED
  BY <1>1 DEF Flushing

\* The task with the flag gets its channel slot.
LEMMA ReserveKeeps ==
    ASSUME SafetyInvariant, NEW t \in Tasks, Reserve(t)
    PROVE  SafetyInvariant'
<1> USE DEF SafetyInvariant
<1>1. flush_tasks[t] = "reserve" /\ SetTask(t, "permit")
  BY DEF Reserve
<1>2. UNCHANGED <<health, callers, persist_backlog, persist_backlog_flush_scheduled,
                  channel, writer, rows, promised, lost, restarts>>
  BY DEF Reserve
<1>3. /\ flush_tasks' \in [Tasks -> TaskStates]
      /\ flush_tasks'[t] = "permit"
      /\ Flushing' = Flushing \cup {t}
  BY <1>1, SetTaskEffect DEF TaskStates
<1>4. TypeOK' /\ NothingIsAhead' /\ NewestIsNotForgotten'
  BY <1>2, <1>3, TaskOnly DEF TypeOK
<1>5. t \in Flushing
  BY <1>1 DEF Flushing
<1>6. FlagHasOneTask'
  BY <1>2, <1>3, <1>5 DEF FlagHasOneTask
<1>7. BacklogHasFlusher'
  BY <1>3 DEF BacklogHasFlusher
<1> QED
  BY <1>4, <1>6, <1>7

\* The task keeps the flag, whether it found an entry or not.
LEMMA PopBacklogKeeps ==
    ASSUME SafetyInvariant, NEW t \in Tasks, PopBacklog(t)
    PROVE  SafetyInvariant'
<1> USE DEF SafetyInvariant
<1>1. /\ flush_tasks[t] = "permit"
      /\ UNCHANGED <<health, callers, persist_backlog_flush_scheduled, writer, rows,
                     promised, lost, restarts>>
  BY DEF PopBacklog
<1>2. t \in Flushing
  BY <1>1 DEF Flushing
<1>3. PICK pc \in {"reserve", "drained"} : SetTask(t, pc)
  BY DEF PopBacklog
<1>4. /\ flush_tasks' \in [Tasks -> TaskStates]
      /\ flush_tasks'[t] # "idle"
      /\ Flushing' = Flushing \cup {t}
  BY <1>3, SetTaskEffect DEF TaskStates
<1>5. FlagHasOneTask'
  BY <1>1, <1>2, <1>4 DEF FlagHasOneTask
<1>6. BacklogHasFlusher'
  BY <1>4 DEF BacklogHasFlusher
<1>7. CASE UNCHANGED <<channel, persist_backlog>>
  <2>1. TypeOK' /\ NothingIsAhead' /\ NewestIsNotForgotten'
    BY <1>1, <1>4, <1>7, TaskOnly DEF TypeOK
  <2> QED
    BY <2>1, <1>5, <1>6
<1>8. CASE \E p \in Backlogged :
              /\ channel' = Append(channel, item_of(p, persist_backlog[p]))
              /\ persist_backlog' = [persist_backlog EXCEPT ![p] = None]
  <2>1. /\ persist_backlog' \in [Providers -> Nat \cup {None}]
        /\ channel' \in Seq(Upsert)
        /\ HandedOver' = HandedOver
    BY <1>1, <1>8, PopSends
  <2>2. TypeOK'
    BY <1>1, <1>4, <2>1 DEF TypeOK
  <2>3. \A d \in Callers : HeldBy(d)' = HeldBy(d) /\ WaitingAt(d)' = WaitingAt(d)
    BY <1>1 DEF HeldBy, WaitingAt
  <2>4. /\ \A q \in Providers : health'[q] >= health[q]
        /\ \A q \in Providers : rows'[q] >= rows[q] /\ lost'[q] >= lost[q]
    BY <1>1 DEF TypeOK
  <2>5. NothingIsAhead' /\ NewestIsNotForgotten'
    BY <1>1, <2>1, <2>2, <2>3, <2>4, TakesUpNothing, StaysRemembered
  <2> QED
    BY <2>2, <2>5, <1>5, <1>6
<1> QED
  BY <1>7, <1>8 DEF PopBacklog

\* The one task that has the flag gives it back, and is not gone yet.
LEMMA ClearFlagKeeps ==
    ASSUME SafetyInvariant, NEW t \in Tasks, ClearFlag(t)
    PROVE  SafetyInvariant'
<1> USE DEF SafetyInvariant
<1>1. /\ flush_tasks[t] = "drained"
      /\ SetTask(t, "recheck")
      /\ persist_backlog_flush_scheduled' = FALSE
      /\ UNCHANGED <<health, callers, persist_backlog, channel, writer, rows,
                     promised, lost, restarts>>
  BY DEF ClearFlag
<1>2. /\ flush_tasks' \in [Tasks -> TaskStates]
      /\ flush_tasks'[t] = "recheck"
      /\ Flushing' = Flushing \ {t}
  BY <1>1, SetTaskEffect DEF TaskStates
<1>3. TypeOK' /\ NothingIsAhead' /\ NewestIsNotForgotten'
  BY <1>1, <1>2, TaskOnly
<1>4. t \in Flushing
  BY <1>1 DEF Flushing
<1>5. Flushing' = {}
  BY <1>2, <1>4 DEF FlagHasOneTask
<1>6. FlagHasOneTask' /\ BacklogHasFlusher'
  BY <1>1, <1>2, <1>5 DEF FlagHasOneTask, BacklogHasFlusher
<1> QED
  BY <1>3, <1>6

\* A task ends only with the backlog empty.
LEMMA RecheckKeeps ==
    ASSUME SafetyInvariant, NEW t \in Tasks, Recheck(t)
    PROVE  SafetyInvariant'
<1> USE DEF SafetyInvariant
<1> DEFINE pc == IF Backlogged = {} THEN "idle" ELSE "claim"
<1>1. /\ flush_tasks[t] = "recheck"
      /\ SetTask(t, pc)
      /\ UNCHANGED <<health, callers, persist_backlog,
                     persist_backlog_flush_scheduled, channel, writer, rows,
                     promised, lost, restarts>>
  BY DEF Recheck
<1>2. /\ flush_tasks' \in [Tasks -> TaskStates]
      /\ flush_tasks'[t] = pc
      /\ Flushing' = Flushing \ {t}
  BY <1>1, SetTaskEffect DEF TaskStates
<1>3. TypeOK' /\ NothingIsAhead' /\ NewestIsNotForgotten'
  BY <1>1, <1>2, TaskOnly DEF TypeOK
<1>4. t \notin Flushing
  BY <1>1 DEF Flushing
<1>5. FlagHasOneTask'
  BY <1>1, <1>2, <1>4 DEF FlagHasOneTask
<1>6. BacklogHasFlusher'
  BY <1>1, <1>2 DEF BacklogHasFlusher, Backlogged
<1> QED
  BY <1>3, <1>5, <1>6

\* With the flag taken by another task, that one is still there.
LEMMA ClaimKeeps ==
    ASSUME SafetyInvariant, NEW t \in Tasks, Claim(t)
    PROVE  SafetyInvariant'
<1> USE DEF SafetyInvariant
<1> DEFINE pc == IF persist_backlog_flush_scheduled THEN "idle" ELSE "reserve"
<1>1. /\ flush_tasks[t] = "claim"
      /\ SetTask(t, pc)
      /\ persist_backlog_flush_scheduled' = TRUE
      /\ UNCHANGED <<health, callers, persist_backlog, channel, writer, rows,
                     promised, lost, restarts>>
  BY DEF Claim
<1>2. /\ flush_tasks' \in [Tasks -> TaskStates]
      /\ flush_tasks'[t] = pc
      /\ \A s \in Tasks \ {t} : flush_tasks'[s] = flush_tasks[s]
      /\ pc = "reserve" => Flushing' = Flushing \cup {t}
      /\ pc = "idle" => Flushing' = Flushing \ {t}
  BY <1>1, SetTaskEffect DEF TaskStates
<1>3. TypeOK' /\ NothingIsAhead' /\ NewestIsNotForgotten'
  BY <1>1, <1>2, TaskOnly
<1>4. t \notin Flushing
  BY <1>1 DEF Flushing
<1>5. CASE persist_backlog_flush_scheduled
  <2>1. Flushing' = Flushing /\ Flushing # {}
    BY <1>2, <1>4, <1>5 DEF FlagHasOneTask
  <2>2. \E s \in Tasks : flush_tasks'[s] # "idle"
    BY <1>2, <1>4, <2>1 DEF Flushing
  <2> QED
    BY <1>1, <1>3, <2>1, <2>2 DEF FlagHasOneTask, BacklogHasFlusher
<1>6. CASE ~persist_backlog_flush_scheduled
  <2>1. Flushing' = {t}
    BY <1>2, <1>6 DEF FlagHasOneTask
  <2>2. flush_tasks'[t] # "idle"
    BY <1>2, <1>6
  <2> QED
    BY <1>1, <1>3, <2>1, <2>2 DEF FlagHasOneTask, BacklogHasFlusher
<1> QED
  BY <1>5, <1>6

-----------------------------------------------------------------------------
(* The writer.                                                              *)

\* A step of the writer leaves the backlog and its tasks alone.
LEMMA WriterLeavesBacklog ==
    ASSUME SafetyInvariant,
           UNCHANGED <<callers, persist_backlog, persist_backlog_flush_scheduled,
                       flush_tasks>>
    PROVE  FlagHasOneTask' /\ BacklogHasFlusher'
BY DEF SafetyInvariant, FlagHasOneTask, Flushing, BacklogHasFlusher, Backlogged

\* What is taken from the channel is in the batch.
LEMMA ReceiveKeeps ==
    ASSUME SafetyInvariant, Receive
    PROVE  SafetyInvariant'
<1> USE DEF SafetyInvariant
<1>1. /\ channel # << >>
      /\ writer' = [pc |-> "draining", buffer |-> Append(writer.buffer, Head(channel))]
      /\ channel' = Tail(channel)
      /\ UNCHANGED <<health, callers, persist_backlog,
                     persist_backlog_flush_scheduled, flush_tasks, rows, promised,
                     lost, restarts>>
  BY DEF Receive
<1>2. channel \in Seq(Upsert) /\ writer.buffer \in Seq(Upsert)
  BY ReceivedType DEF TypeOK
<1>3. /\ Head(channel) \in Upsert
      /\ Tail(channel) \in Seq(Upsert)
      /\ Len(Tail(channel)) = Len(channel) - 1
      /\ \A i \in 1..(Len(channel) - 1) : Tail(channel)[i] = channel[i + 1]
      /\ Head(channel) = channel[1]
      /\ Len(channel) \in Nat /\ Len(channel) >= 1
  BY <1>1, <1>2
<1> DEFINE batch == Append(writer.buffer, Head(channel))
<1>4. /\ batch \in Seq(Upsert)
      /\ Len(batch) = Len(writer.buffer) + 1
      /\ \A i \in 1..Len(writer.buffer) : batch[i] = writer.buffer[i]
      /\ batch[Len(writer.buffer) + 1] = Head(channel)
      /\ Len(writer.buffer) \in Nat
  BY <1>2, <1>3
<1>5. writer'.buffer = batch /\ writer' \in WriterStates
  BY <1>1, <1>4 DEF WriterStates
<1> HIDE DEF batch
<1>6. Received' = Received \cup {Head(channel)}
  <2>1. Received \cup {Head(channel)} \subseteq Received'
    BY <1>2, <1>4, <1>5 DEF Received
  <2>2. Received' \subseteq Received \cup {Head(channel)}
    <3> SUFFICES ASSUME NEW i \in DOMAIN batch
                 PROVE  batch[i] \in Received \cup {Head(channel)}
      BY <1>5 DEF Received
    <3>1. i \in 1..Len(writer.buffer) \/ i = Len(writer.buffer) + 1
      BY <1>4
    <3> QED
      BY <3>1, <1>2, <1>4 DEF Received
  <2> QED
    BY <2>1, <2>2
<1>7. Sent = Sent' \cup {Head(channel)}
  <2>1. Sent' \cup {Head(channel)} \subseteq Sent
    BY <1>1, <1>2, <1>3 DEF Sent
  <2>2. Sent \subseteq Sent' \cup {Head(channel)}
    <3> SUFFICES ASSUME NEW i \in DOMAIN channel
                 PROVE  channel[i] \in Sent' \cup {Head(channel)}
      BY DEF Sent
    <3>1. CASE i = 1
      BY <3>1, <1>3
    <3>2. CASE i # 1
      <4>1. i - 1 \in 1..(Len(channel) - 1)
        BY <3>2, <1>2
      <4>2. i - 1 \in DOMAIN channel' /\ channel'[i - 1] = channel[i]
        BY <4>1, <1>1, <1>2, <1>3
      <4> QED
        BY <4>2 DEF Sent
    <3> QED
      BY <3>1, <3>2
  <2> QED
    BY <2>1, <2>2
<1>8. Queued' = Queued
  BY <1>1 DEF Queued, Backlogged
<1>9. HandedOver' = HandedOver
  BY <1>6, <1>7, <1>8 DEF HandedOver
<1>10. TypeOK'
  BY <1>1, <1>3, <1>5 DEF TypeOK
<1>11. \A d \in Callers : HeldBy(d)' = HeldBy(d) /\ WaitingAt(d)' = WaitingAt(d)
  BY <1>1 DEF HeldBy, WaitingAt
<1>12. /\ \A q \in Providers : health'[q] >= health[q]
       /\ \A q \in Providers : rows'[q] >= rows[q] /\ lost'[q] >= lost[q]
  BY <1>1 DEF TypeOK
<1>13. NothingIsAhead' /\ NewestIsNotForgotten'
  BY <1>1, <1>9, <1>10, <1>11, <1>12, TakesUpNothing, StaysRemembered
<1> QED
  BY <1>1, <1>10, <1>13, WriterLeavesBacklog

\* A batch that is complete is as it was.
LEMMA FinishBatchKeeps ==
    ASSUME SafetyInvariant, FinishBatch
    PROVE  SafetyInvariant'
<1> USE DEF SafetyInvariant
<1>1. /\ writer' = [writer EXCEPT !.pc = "inserting"]
      /\ UNCHANGED <<health, callers, persist_backlog,
                     persist_backlog_flush_scheduled, flush_tasks, channel, rows,
                     promised, lost, restarts>>
  BY DEF FinishBatch
<1>2. writer' \in WriterStates /\ writer'.buffer = writer.buffer
  BY <1>1 DEF TypeOK, WriterStates
<1>3. TypeOK'
  BY <1>1, <1>2 DEF TypeOK
<1>4. HandedOver' = HandedOver
  BY <1>1, <1>2 DEF HandedOver, Queued, Sent, Received, Backlogged
<1>5. \A d \in Callers : HeldBy(d)' = HeldBy(d) /\ WaitingAt(d)' = WaitingAt(d)
  BY <1>1 DEF HeldBy, WaitingAt
<1>6. /\ \A q \in Providers : health'[q] >= health[q]
      /\ \A q \in Providers : rows'[q] >= rows[q] /\ lost'[q] >= lost[q]
  BY <1>1 DEF TypeOK
<1>7. NothingIsAhead' /\ NewestIsNotForgotten'
  BY <1>1, <1>3, <1>4, <1>5, <1>6, TakesUpNothing, StaysRemembered
<1> QED
  BY <1>1, <1>3, <1>7, WriterLeavesBacklog

\* The newest upsert of a provider is what a batch that holds it amounts to.
LEMMA BatchHoldsNewest ==
    ASSUME TypeOK, NothingIsAhead, NEW p \in Providers,
           item_of(p, health[p]) \in Received
    PROVE  latest_by_provider(p, Received) = health[p]
<1>1. health[p] \in Nat /\ Received \in SUBSET Upsert
  BY ReceivedType DEF TypeOK
<1>2. \A u \in Received : NotAhead(u)
  BY NothingIsAheadOfHealth DEF HandedOver
<1>3. \A u \in Received : u.provider_id = p => u.state_revision <= health[p]
  BY <1>2 DEF NotAhead
<1> QED
  BY <1>1, <1>3, LatestIsNewest

\* The end of a batch: each provider's latest upsert in it is stored, or lost.
LEMMA EndBatchKeeps ==
    ASSUME SafetyInvariant,
           rows' \in [Providers -> Nat],
           lost' \in [Providers -> Nat],
           \A p \in Providers : rows'[p] >= rows[p] /\ lost'[p] >= lost[p],
           \A p \in Providers :
              \/ rows'[p] >= latest_by_provider(p, Received)
              \/ lost'[p] >= latest_by_provider(p, Received),
           writer' = [pc |-> "receiving", buffer |-> << >>],
           UNCHANGED <<health, callers, persist_backlog,
                       persist_backlog_flush_scheduled, flush_tasks, channel,
                       promised, restarts>>
    PROVE  SafetyInvariant'
<1> USE DEF SafetyInvariant
<1>1. writer' \in WriterStates
  BY DEF WriterStates
<1>2. TypeOK'
  BY <1>1 DEF TypeOK
<1>3. Received' = {} /\ Sent' = Sent /\ Queued' = Queued
  BY DEF Received, Sent, Queued, Backlogged
<1>4. \A d \in Callers : HeldBy(d)' = HeldBy(d) /\ WaitingAt(d)' = WaitingAt(d)
  BY DEF HeldBy, WaitingAt
<1>5. NothingIsAhead'
  <2>1. \A q \in Providers : health'[q] >= health[q]
    BY DEF TypeOK
  <2>2. HandedOver' \subseteq HandedOver
    BY <1>3 DEF HandedOver
  <2> QED
    BY <1>2, <1>4, <2>1, <2>2, TakesUpNothing
<1>6. NewestIsNotForgotten'
  <2> SUFFICES ASSUME NEW p \in Providers
               PROVE  \/ rows'[p] >= health'[p]
                      \/ lost'[p] >= health'[p]
                      \/ OnItsWay(item_of(p, health[p]))'
    BY DEF NewestIsNotForgotten
  <2> DEFINE u == item_of(p, health[p])
  <2>1. (\E d \in Callers : u \in WaitingAt(d)') \/ u \in HandedOver'
           => OnItsWay(item_of(p, health[p]))'
    BY DEF OnItsWay, WaitingAt, HandedOver, Queued, Sent, Received
  <2>2. CASE rows[p] >= health[p] \/ lost[p] >= health[p]
    BY <2>2 DEF TypeOK
  <2>3. CASE (\E d \in Callers : u \in WaitingAt(d)) \/ u \in Queued \cup Sent
    BY <2>1, <2>3, <1>3, <1>4 DEF HandedOver
  <2>4. CASE u \in Received
    <3>1. latest_by_provider(p, Received) = health[p]
      BY <2>4, BatchHoldsNewest
    <3> QED
      BY <3>1
  <2> QED
    BY <2>2, <2>3, <2>4, OnItsWayIsSomewhere DEF NewestIsNotForgotten, HandedOver
<1> QED
  BY <1>2, <1>5, <1>6, WriterLeavesBacklog

\* A batch that is stored.
LEMMA InsertBatchKeeps ==
    ASSUME SafetyInvariant, InsertBatch
    PROVE  SafetyInvariant'
<1>1. \A p \in Providers : rows[p] \in Nat /\ latest_by_provider(p, Received) \in Nat
  BY LatestType, ReceivedType DEF SafetyInvariant, TypeOK
<1>2. \A p \in Providers :
         /\ upserted(rows[p], latest_by_provider(p, Received)) \in Nat
         /\ upserted(rows[p], latest_by_provider(p, Received)) >= rows[p]
         /\ upserted(rows[p], latest_by_provider(p, Received))
               >= latest_by_provider(p, Received)
  BY <1>1 DEF upserted
<1>3. /\ rows' \in [Providers -> Nat]
      /\ \A p \in Providers :
            rows'[p] >= rows[p] /\ rows'[p] >= latest_by_provider(p, Received)
  BY <1>2 DEF InsertBatch
<1>4. lost' \in [Providers -> Nat] /\ \A p \in Providers : lost'[p] >= lost[p]
  BY DEF InsertBatch, SafetyInvariant, TypeOK
<1> QED
  BY <1>3, <1>4, EndBatchKeeps DEF InsertBatch

\* A batch that is dropped, with an error in the log.
LEMMA DropBatchKeeps ==
    ASSUME SafetyInvariant, DropBatch
    PROVE  SafetyInvariant'
<1>1. \A p \in Providers : lost[p] \in Nat /\ latest_by_provider(p, Received) \in Nat
  BY LatestType, ReceivedType DEF SafetyInvariant, TypeOK
<1>2. \A p \in Providers :
         /\ Later(lost[p], latest_by_provider(p, Received)) \in Nat
         /\ Later(lost[p], latest_by_provider(p, Received)) >= lost[p]
         /\ Later(lost[p], latest_by_provider(p, Received))
               >= latest_by_provider(p, Received)
  BY <1>1 DEF Later
<1>3. /\ lost' \in [Providers -> Nat]
      /\ \A p \in Providers :
            lost'[p] >= lost[p] /\ lost'[p] >= latest_by_provider(p, Received)
  BY <1>2 DEF DropBatch
<1>4. rows' \in [Providers -> Nat] /\ \A p \in Providers : rows'[p] >= rows[p]
  BY DEF DropBatch, SafetyInvariant, TypeOK
<1> QED
  BY <1>3, <1>4, EndBatchKeeps DEF DropBatch

-----------------------------------------------------------------------------
(* Durable upserts and restarts.                                            *)

\* A step from idle to a durable upsert, or back, that writes no older row.
LEMMA DurableOnlyKeeps ==
    ASSUME SafetyInvariant, NEW c \in Callers,
           WaitingAt(c) = {},
           callers' \in [Callers -> CallerStates],
           \A d \in Callers : IsConsistent(callers'[d]),
           \A d \in Callers \ {c} : callers'[d] = callers[d],
           callers[c].pc # "scheduling",
           NEW New \in SUBSET Upsert,
           \A u \in New : NotAhead(u)',
           HeldBy(c)' \subseteq HeldBy(c) \cup New,
           rows' \in [Providers -> Nat],
           \A p \in Providers : rows'[p] >= rows[p],
           promised' \in [Providers -> Nat],
           UNCHANGED <<health, persist_backlog, persist_backlog_flush_scheduled,
                       flush_tasks, channel, writer, lost, restarts>>
    PROVE  SafetyInvariant'
<1> USE DEF SafetyInvariant
<1>1. TypeOK'
  BY DEF TypeOK
<1>2. HandedOver' = HandedOver
  BY DEF HandedOver, Queued, Sent, Received, Backlogged
<1>3. \A d \in Callers \ {c} : HeldBy(d)' = HeldBy(d) /\ WaitingAt(d)' = WaitingAt(d)
  BY DEF HeldBy, WaitingAt
<1>4. /\ \A q \in Providers : health'[q] >= health[q]
      /\ \A q \in Providers : rows'[q] >= rows[q] /\ lost'[q] >= lost[q]
  BY DEF TypeOK
<1>5. NothingIsAhead'
  <2>1. \A d \in Callers : HeldBy(d)' \subseteq HeldBy(d) \cup HandedOver \cup New
    BY <1>3
  <2> QED
    BY <1>1, <1>2, <1>4, <2>1, StaysBehind
<1>6. NewestIsNotForgotten'
  BY <1>1, <1>2, <1>3, <1>4, StaysRemembered
<1>7. FlagHasOneTask' /\ BacklogHasFlusher'
  BY DEF FlagHasOneTask, Flushing, BacklogHasFlusher, Backlogged
<1> QED
  BY <1>1, <1>5, <1>6, <1>7

\* A durable upsert starts from the state just read.
LEMMA ReadStateKeeps ==
    ASSUME SafetyInvariant, NEW c \in Callers, NEW p \in Providers, ReadState(c, p)
    PROVE  SafetyInvariant'
<1>1. TypeOK /\ callers[c] = Idle /\ callers[c].pc = "idle" /\ health[p] \in Nat
  BY DEF ReadState, SafetyInvariant, TypeOK, IsConsistent, Idle
<1> DEFINE u == item_of(p, health[p])
           busy == [pc |-> "durable", item |-> u, rest |-> {}]
<1>2. u \in Upsert /\ u # None /\ u.provider_id = p /\ u.state_revision = health[p]
  BY <1>1, ItemFields, NoneIsNothing
<1>3. callers' = [callers EXCEPT ![c] = busy]
  BY DEF ReadState
<1>4. busy \in CallerStates
  BY <1>2 DEF CallerStates
<1>5. /\ callers' \in [Callers -> CallerStates]
      /\ callers'[c] = busy
      /\ \A d \in Callers \ {c} : callers'[d] = callers[d]
  BY <1>1, <1>3, <1>4 DEF TypeOK
<1>6. \A d \in Callers : IsConsistent(callers'[d])
  <2>1. callers'[c].item # None /\ callers'[c].pc = "durable" /\ callers'[c].rest = {}
    BY <1>2, <1>5
  <2>2. IsConsistent(callers'[c])
    BY <2>1 DEF IsConsistent
  <2>3. \A d \in Callers \ {c} : IsConsistent(callers'[d])
    BY <1>1, <1>5 DEF TypeOK
  <2> QED
    BY <2>2, <2>3
<1>7. WaitingAt(c) = {}
  BY <1>1 DEF WaitingAt, Idle
<1>8. HeldBy(c)' = {u}
  BY <1>2, <1>5 DEF HeldBy
<1> DEFINE New == {u}
<1>9. New \in SUBSET Upsert /\ \A v \in New : NotAhead(v)'
  BY <1>1, <1>2 DEF NotAhead, ReadState
<1>10. rows' \in [Providers -> Nat] /\ promised' \in [Providers -> Nat]
          /\ \A q \in Providers : rows'[q] >= rows[q]
  BY <1>1 DEF ReadState, TypeOK
<1>11. HeldBy(c)' \subseteq HeldBy(c) \cup New
  BY <1>8
<1>12. UNCHANGED <<health, persist_backlog, persist_backlog_flush_scheduled,
                   flush_tasks, channel, writer, lost, restarts>>
  BY DEF ReadState
<1> HIDE DEF New, u, busy
<1> QED
  BY <1>1, <1>5, <1>6, <1>7, <1>9, <1>10, <1>11, <1>12, DurableOnlyKeeps

\* The same of a durable upsert that is over.
LEMMA DurableEndsKeeps ==
    ASSUME SafetyInvariant, NEW c \in Callers,
           callers[c].pc = "durable",
           callers[c].rest = {},
           callers' = [callers EXCEPT ![c] = Idle],
           rows' \in [Providers -> Nat],
           \A p \in Providers : rows'[p] >= rows[p],
           promised' \in [Providers -> Nat],
           UNCHANGED <<health, persist_backlog, persist_backlog_flush_scheduled,
                       flush_tasks, channel, writer, lost, restarts>>
    PROVE  SafetyInvariant'
<1>1. TypeOK /\ Idle \in CallerStates
  BY DEF SafetyInvariant, Idle, CallerStates
<1>2. /\ callers' \in [Callers -> CallerStates]
      /\ callers'[c] = Idle
      /\ \A d \in Callers \ {c} : callers'[d] = callers[d]
  BY <1>1 DEF TypeOK
<1>3. \A d \in Callers : IsConsistent(callers'[d])
  BY <1>1, <1>2 DEF TypeOK, IsConsistent, Idle
<1>4. WaitingAt(c) = {}
  BY DEF WaitingAt
<1>5. HeldBy(c)' = {}
  BY <1>2 DEF HeldBy, Idle
<1> DEFINE New == {}
<1>6. New \in SUBSET Upsert /\ (\A v \in New : NotAhead(v)')
         /\ HeldBy(c)' \subseteq HeldBy(c) \cup New
  BY <1>5
<1> HIDE DEF New
<1> QED
  BY <1>2, <1>3, <1>4, <1>6, DurableOnlyKeeps


\* What a durable upsert that returned Ok did to the row and the promise.
LEMMA UpsertDurableEffect ==
    ASSUME TypeOK, NothingIsAhead, NEW c \in Callers, UpsertDurable(c)
    PROVE  /\ callers[c].rest = {}
           /\ rows' \in [Providers -> Nat]
           /\ promised' \in [Providers -> Nat]
           /\ \A q \in Providers : rows'[q] >= rows[q]
           /\ \A q \in Providers :
                 rows[q] <= health[q] => rows'[q] <= health[q]
           /\ \A q \in Providers :
                 promised[q] <= rows[q] => promised'[q] <= rows'[q]
<1> DEFINE p == callers[c].item.provider_id
           r == callers[c].item.state_revision
<1>1. callers[c].pc = "durable"
  BY DEF UpsertDurable
<1>2. /\ callers[c].item \in Upsert
      /\ p \in Providers
      /\ r \in Nat
  BY <1>1, CallerItem
<1>3. callers[c].rest = {}
  BY <1>1 DEF TypeOK, IsConsistent
<1>4. r <= health[p]
  <2>1. callers[c].item \in HeldBy(c)
    BY <1>2, NoneIsNothing DEF HeldBy
  <2> QED
    BY <2>1, NothingIsAheadOfHealth DEF NotAhead
<1>5. /\ rows' = [rows EXCEPT ![p] = upserted(rows[p], r)]
      /\ promised' = [promised EXCEPT ![p] = Later(promised[p], r)]
  BY DEF UpsertDurable
<1> HIDE DEF p, r
<1>6. \A q \in Providers : rows[q] \in Nat /\ promised[q] \in Nat /\ health[q] \in Nat
  BY DEF TypeOK
<1>7. /\ upserted(rows[p], r) \in Nat
      /\ upserted(rows[p], r) >= rows[p]
      /\ upserted(rows[p], r) >= r
      /\ rows[p] <= health[p] => upserted(rows[p], r) <= health[p]
      /\ Later(promised[p], r) \in Nat
      /\ promised[p] <= rows[p] => Later(promised[p], r) <= upserted(rows[p], r)
  BY <1>2, <1>4, <1>6 DEF upserted, Later
<1>8. /\ rows' \in [Providers -> Nat]
      /\ promised' \in [Providers -> Nat]
      /\ rows'[p] = upserted(rows[p], r)
      /\ promised'[p] = Later(promised[p], r)
      /\ \A q \in Providers \ {p} : rows'[q] = rows[q] /\ promised'[q] = promised[q]
  BY <1>2, <1>5, <1>7 DEF TypeOK
<1> QED
  BY <1>2, <1>3, <1>6, <1>7, <1>8

\* A durable upsert that succeeds.
LEMMA UpsertDurableKeeps ==
    ASSUME SafetyInvariant, NEW c \in Callers, UpsertDurable(c)
    PROVE  SafetyInvariant'
<1>1. TypeOK /\ NothingIsAhead
  BY DEF SafetyInvariant
<1>2. /\ callers[c].rest = {}
      /\ rows' \in [Providers -> Nat]
      /\ promised' \in [Providers -> Nat]
      /\ \A q \in Providers : rows'[q] >= rows[q]
  BY <1>1, UpsertDurableEffect
<1> QED
  BY <1>2, DurableEndsKeeps DEF UpsertDurable

\* A durable upsert that fails.
LEMMA FailDurableKeeps ==
    ASSUME SafetyInvariant, NEW c \in Callers, FailDurable(c)
    PROVE  SafetyInvariant'
<1>1. callers[c].rest = {}
  BY DEF FailDurable, SafetyInvariant, TypeOK, IsConsistent
<1>2. /\ rows' \in [Providers -> Nat]
      /\ promised' \in [Providers -> Nat]
      /\ \A q \in Providers : rows'[q] >= rows[q]
  BY DEF FailDurable, SafetyInvariant, TypeOK
<1> QED
  BY <1>1, <1>2, DurableEndsKeeps DEF FailDurable

\* A restart loses what is under way, and the states it was about.
LEMMA RestartKeeps ==
    ASSUME SafetyInvariant, Restart
    PROVE  SafetyInvariant'
<1>1. rows \in [Providers -> Nat] /\ rows' = rows /\ restarts' \in Nat
  BY DEF SafetyInvariant, TypeOK, Restart
<1>2. /\ health' \in [Providers -> Nat]
      /\ \A p \in Providers : rows'[p] >= health'[p]
  <2>1. CASE health' = rows
    BY <1>1, <2>1
  <2>2. CASE health' = Nothing
    BY <1>1, <2>2 DEF Nothing
  <2> QED
    BY <2>1, <2>2 DEF Restart
<1>3. /\ callers' = [c \in Callers |-> Idle]
      /\ persist_backlog' = [p \in Providers |-> None]
      /\ persist_backlog_flush_scheduled' = FALSE
      /\ flush_tasks' = [t \in Tasks |-> "idle"]
      /\ channel' = << >>
      /\ writer' = [pc |-> "receiving", buffer |-> << >>]
      /\ promised' = Nothing
      /\ lost' = Nothing
  BY DEF Restart
<1>4. TypeOK'
  <2>1. Idle \in CallerStates /\ IsConsistent(Idle)
    BY DEF Idle, CallerStates, IsConsistent
  <2>2. /\ callers' \in [Callers -> CallerStates]
        /\ \A c \in Callers : IsConsistent(callers'[c])
    BY <1>3, <2>1
  <2>3. writer' \in WriterStates
    BY <1>3 DEF WriterStates
  <2>4. /\ persist_backlog' \in [Providers -> Nat \cup {None}]
        /\ persist_backlog_flush_scheduled' \in BOOLEAN
        /\ flush_tasks' \in [Tasks -> TaskStates]
    BY <1>3 DEF TaskStates
  <2>5. channel' \in Seq(Upsert)
    BY <1>3
  <2>6. promised' \in [Providers -> Nat] /\ lost' \in [Providers -> Nat]
    BY <1>3 DEF Nothing
  <2> QED
    BY <1>1, <1>2, <2>2, <2>3, <2>4, <2>5, <2>6 DEF TypeOK
<1>5. Backlogged' = {} /\ Flushing' = {}
  BY <1>3 DEF Backlogged, Flushing
<1>6. NothingIsAhead'
  <2>1. \A c \in Callers : callers'[c].rest = {} /\ callers'[c].item = None
    BY <1>3 DEF Idle
  <2> QED
    BY <1>3, <1>5, <2>1 DEF NothingIsAhead
<1>7. NewestIsNotForgotten'
  BY <1>2 DEF NewestIsNotForgotten
<1>8. FlagHasOneTask' /\ BacklogHasFlusher'
  BY <1>3, <1>5 DEF FlagHasOneTask, BacklogHasFlusher
<1> QED
  BY <1>4, <1>6, <1>7, <1>8 DEF SafetyInvariant

-----------------------------------------------------------------------------
(* The theorems.                                                            *)

\* A stuttering step keeps the invariant.
LEMMA StutterKeeps ==
    ASSUME SafetyInvariant, UNCHANGED vars
    PROVE  SafetyInvariant'
BY DEF vars, queues, SafetyInvariant, TypeOK, NothingIsAhead,
       NewestIsNotForgotten, OnItsWay, FlagHasOneTask, Flushing, BacklogHasFlusher,
       Backlogged

\* Every step keeps the invariant.
LEMMA NextKeeps == SafetyInvariant /\ [Next]_vars => SafetyInvariant'
<1> SUFFICES ASSUME SafetyInvariant, [Next]_vars PROVE SafetyInvariant'
  OBVIOUS
<1>1. ASSUME NEW c \in Callers, NEW changed \in SUBSET Providers \ {{}},
             ChangeStates(c, changed)
      PROVE  SafetyInvariant'
  BY <1>1, ChangeStatesKeeps
<1>2. ASSUME NEW c \in Callers, NEW p \in Providers, ReadState(c, p)
      PROVE  SafetyInvariant'
  BY <1>2, ReadStateKeeps
<1>3. ASSUME NEW c \in Callers, CallerStep(c)
      PROVE  SafetyInvariant'
  BY <1>3, LockBacklogKeeps, FlushOneKeeps, UnlockBacklogKeeps, TrySendKeeps,
     EnqueueKeeps, ScheduleKeeps, UpsertDurableKeeps, FailDurableKeeps
     DEF CallerStep
<1>4. ASSUME NEW t \in Tasks, TaskStep(t)
      PROVE  SafetyInvariant'
  BY <1>4, ReserveKeeps, PopBacklogKeeps, ClearFlagKeeps, RecheckKeeps, ClaimKeeps
     DEF TaskStep
<1>5. CASE WriterStep
  BY <1>5, ReceiveKeeps, FinishBatchKeeps, InsertBatchKeeps, DropBatchKeeps
     DEF WriterStep
<1>6. CASE Restart
  BY <1>6, RestartKeeps
<1>7. CASE UNCHANGED vars
  BY <1>7, StutterKeeps
<1> QED
  BY <1>1, <1>2, <1>3, <1>4, <1>5, <1>6, <1>7 DEF Next

\* The inductive invariant of callers, backlog, flush tasks, channel and writer: for
\* any number of threads and tasks and any capacity.
THEOREM SafetyInvariantHolds == Spec => []SafetyInvariant
<1> QED
  BY InitSafety, NextKeeps, PTL DEF Spec

\* The types of the variables of callers, backlog, tasks, channel and writer.
THEOREM TypeCorrect == Spec => []TypeOK
<1>1. SafetyInvariant => TypeOK
  BY DEF SafetyInvariant
<1> QED
  BY <1>1, SafetyInvariantHolds, PTL

\* try_persist and all behind it never forget the newest state of a provider.
THEOREM NewestIsNeverForgotten == Spec => []NewestIsNotForgotten
<1>1. SafetyInvariant => NewestIsNotForgotten
  BY DEF SafetyInvariant
<1> QED
  BY <1>1, SafetyInvariantHolds, PTL

\* persist_backlog_flush_scheduled: at most one task flushes, and the flag says so.
THEOREM FlagAlwaysHasOneTask == Spec => []FlagHasOneTask
<1>1. SafetyInvariant => FlagHasOneTask
  BY DEF SafetyInvariant
<1> QED
  BY <1>1, SafetyInvariantHolds, PTL

\* No entry of the backlog is left without a flush task, alive or about to start.
THEOREM BacklogAlwaysHasFlusher == Spec => []BacklogHasFlusher
<1>1. SafetyInvariant => BacklogHasFlusher
  BY DEF SafetyInvariant
<1> QED
  BY <1>1, SafetyInvariantHolds, PTL

-----------------------------------------------------------------------------
(* What durable upserts promise, as long as no load of the rows fails.      *)

\* A promise is stored, and no row is ahead of the breaker.
RowsInBetween ==
    \A p \in Providers : promised[p] <= rows[p] /\ rows[p] <= health[p]

\* At the start the rows are the states, and nothing is promised.
LEMMA InitInBetween == Init => RowsInBetween
<1> SUFFICES ASSUME Init PROVE RowsInBetween
  OBVIOUS
<1>1. \A p \in Providers : rows[p] \in Nat /\ health[p] = rows[p] /\ promised[p] = 0
  BY PersistenceAssumption DEF Init, PersistenceAssumption, Nothing
<1> QED
  BY <1>1 DEF RowsInBetween

\* What the writer stores is not ahead of the breaker.
LEMMA InsertBatchEffect ==
    ASSUME TypeOK, NothingIsAhead, RowsInBetween, InsertBatch
    PROVE  /\ rows' \in [Providers -> Nat]
           /\ \A p \in Providers : rows[p] <= rows'[p] /\ rows'[p] <= health[p]
<1> SUFFICES ASSUME NEW p \in Providers
             PROVE  /\ upserted(rows[p], latest_by_provider(p, Received)) \in Nat
                    /\ rows[p] <= upserted(rows[p], latest_by_provider(p, Received))
                    /\ upserted(rows[p], latest_by_provider(p, Received)) <= health[p]
  BY DEF InsertBatch
<1> DEFINE r == latest_by_provider(p, Received)
<1>1. rows[p] \in Nat /\ health[p] \in Nat /\ rows[p] <= health[p]
  BY DEF TypeOK, RowsInBetween
<1>2. r \in Nat /\ (r # 0 => item_of(p, r) \in Received)
  BY LatestType, ReceivedType
<1>3. r # 0 => NotAhead(item_of(p, r))
  BY <1>2, NothingIsAheadOfHealth DEF HandedOver
<1>4. r <= health[p]
  BY <1>1, <1>2, <1>3, ItemFields DEF NotAhead
<1> HIDE DEF r
<1> QED
  BY <1>1, <1>2, <1>4 DEF upserted, r

\* What one step does to the states, the rows and the promises: exactly what the
\* abstract store allows.
LEMMA StepOfStore ==
    ASSUME ~LoadFails, SafetyInvariant, RowsInBetween, [Next]_vars
    PROVE  Store!Next \/ UNCHANGED <<health, rows, promised>>
<1>0. TypeOK /\ NothingIsAhead
  BY DEF SafetyInvariant
<1>1. ASSUME NEW c \in Callers, NEW changed \in SUBSET Providers \ {{}},
             ChangeStates(c, changed)
      PROVE  Store!Change
  <2>1. /\ health' = [p \in Providers |->
                        IF p \in changed THEN health[p] + 1 ELSE health[p]]
        /\ UNCHANGED <<rows, promised>>
    BY <1>1 DEF ChangeStates
  <2> QED
    BY <2>1, <1>0 DEF Store!Change, TypeOK
<1>2. ASSUME NEW c \in Callers, UpsertDurable(c)
      PROVE  Store!Store
  <2>1. /\ rows' \in [Providers -> Nat]
        /\ promised' \in [Providers -> Nat]
        /\ \A q \in Providers : rows'[q] >= rows[q]
        /\ \A q \in Providers : rows[q] <= health[q] => rows'[q] <= health[q]
        /\ \A q \in Providers : promised[q] <= rows[q] => promised'[q] <= rows'[q]
    BY <1>0, <1>2, UpsertDurableEffect
  <2>2. health' = health
    BY <1>2 DEF UpsertDurable
  <2>3. \A q \in Providers :
           /\ rows[q] \in Nat
           /\ rows'[q] \in Nat
           /\ promised[q] <= rows[q]
           /\ rows[q] <= health[q]
    BY <1>0, <2>1 DEF TypeOK, RowsInBetween
  <2> QED
    BY <2>1, <2>2, <2>3 DEF Store!Store
<1>3. ASSUME InsertBatch
      PROVE  Store!Store
  <2>1. /\ rows' \in [Providers -> Nat]
        /\ \A p \in Providers : rows[p] <= rows'[p] /\ rows'[p] <= health[p]
    BY <1>0, <1>3, InsertBatchEffect
  <2>2. health' = health /\ promised' = promised
    BY <1>3 DEF InsertBatch
  <2> QED
    BY <2>1, <2>2, <1>0 DEF Store!Store, TypeOK
<1>4. ASSUME Restart
      PROVE  Store!Restart
  BY <1>4 DEF Restart, Nothing, Store!Restart
<1>5. ASSUME NEW c \in Callers, NEW p \in Providers, ReadState(c, p)
      PROVE  UNCHANGED <<health, rows, promised>>
  BY <1>5 DEF ReadState
<1>6. ASSUME NEW c \in Callers, CallerStep(c), ~UpsertDurable(c)
      PROVE  UNCHANGED <<health, rows, promised>>
  BY <1>6 DEF CallerStep, LockBacklog, FlushOne, UnlockBacklog, TrySend, Enqueue,
              Schedule, FailDurable
<1>7. ASSUME NEW t \in Tasks, TaskStep(t)
      PROVE  UNCHANGED <<health, rows, promised>>
  BY <1>7 DEF TaskStep, Reserve, PopBacklog, ClearFlag, Recheck, Claim
<1>8. ASSUME WriterStep, ~InsertBatch
      PROVE  UNCHANGED <<health, rows, promised>>
  BY <1>8 DEF WriterStep, Receive, FinishBatch, DropBatch
<1>9. CASE UNCHANGED vars
  BY <1>9 DEF vars
<1> QED
  BY <1>1, <1>2, <1>3, <1>4, <1>5, <1>6, <1>7, <1>8, <1>9 DEF Next, Store!Next

\* No step that the abstract store allows leaves rows out of this order.
LEMMA NextStaysInBetween ==
    ASSUME ~LoadFails
    PROVE  SafetyInvariant /\ RowsInBetween /\ [Next]_vars => RowsInBetween'
<1> SUFFICES ASSUME SafetyInvariant, RowsInBetween, [Next]_vars
             PROVE  RowsInBetween'
  OBVIOUS
<1>1. /\ health \in [Providers -> Nat]
      /\ rows \in [Providers -> Nat]
      /\ promised \in [Providers -> Nat]
  BY DEF SafetyInvariant, TypeOK
<1>2. CASE Store!Change
  <2>1. /\ \A p \in Providers : health'[p] \in {health[p], health[p] + 1}
        /\ rows' = rows /\ promised' = promised
    BY <1>2 DEF Store!Change
  <2> QED
    BY <1>1, <2>1 DEF RowsInBetween
<1>3. CASE Store!Store
  <2>1. /\ rows' \in [Providers -> Nat]
        /\ \A p \in Providers : rows[p] <= rows'[p] /\ rows'[p] <= health[p]
        /\ \A p \in Providers : promised'[p] # promised[p] => promised'[p] <= rows'[p]
        /\ health' = health
    BY <1>3 DEF Store!Store
  <2> QED
    BY <1>1, <2>1 DEF RowsInBetween
<1>4. CASE Store!Restart
  <2>1. /\ health' = rows /\ rows' = rows
        /\ \A p \in Providers : promised'[p] = 0
    BY <1>4 DEF Store!Restart
  <2> QED
    BY <1>1, <2>1 DEF RowsInBetween
<1>5. CASE UNCHANGED <<health, rows, promised>>
  BY <1>5 DEF RowsInBetween
<1> QED
  BY <1>2, <1>3, <1>4, <1>5, StepOfStore DEF Store!Next

\* Promises, rows and states stay in this order, as long as no load of the rows fails.
THEOREM RowsStayInBetween ==
    ASSUME ~LoadFails
    PROVE  Spec => [](SafetyInvariant /\ RowsInBetween)
<1>1. SafetyInvariant /\ RowsInBetween /\ [Next]_vars => RowsInBetween'
  BY NextStaysInBetween
<1> QED
  BY <1>1, InitSafety, InitInBetween, NextKeeps, PTL DEF Spec

\* A durable upsert that returned Ok is in the database, as long as no load failed.
THEOREM PromisesAreAlwaysStored ==
    ASSUME ~LoadFails
    PROVE  Spec => []PromisesAreStored
<1>1. RowsInBetween => PromisesAreStored
  BY DEF RowsInBetween, PromisesAreStored
<1> QED
  BY <1>1, RowsStayInBetween, PTL

\* A restart that can load the rows keeps what durable upserts promised.
THEOREM RestartsKeepPromises ==
    ASSUME ~LoadFails
    PROVE  Spec => RestartKeepsPromises
<1>1. RowsInBetween /\ [Next]_vars =>
         [restarts' # restarts => \A p \in Providers : promised[p] <= health'[p]]_vars
  <2> SUFFICES ASSUME RowsInBetween, Next, restarts' # restarts
               PROVE  \A p \in Providers : promised[p] <= health'[p]
    OBVIOUS
  <2>1. Restart
    BY DEF Next, ChangeStates, ReadState, CallerStep, LockBacklog, FlushOne,
           UnlockBacklog, TrySend, Enqueue, Schedule, UpsertDurable, FailDurable,
           TaskStep, Reserve, PopBacklog, ClearFlag, Recheck, Claim,
           WriterStep, Receive, FinishBatch, InsertBatch, DropBatch
  <2>2. health' = rows
    BY <2>1 DEF Restart
  <2> QED
    BY <2>2 DEF RowsInBetween
<1> QED
  BY <1>1, RowsStayInBetween, PTL DEF Spec, RestartKeepsPromises

\* Rows, breaker and promises behave as CircuitStore says: with any overtaking and
\* whatever batch is dropped, rows follow the breaker and never go back.
THEOREM Implementation ==
    ASSUME ~LoadFails
    PROVE  Spec => ImplementsCircuitStore
<1>1. Init => Store!Init
  BY PersistenceAssumption
     DEF Init, PersistenceAssumption, Nothing, Store!Init
<1>2. SafetyInvariant /\ RowsInBetween /\ [Next]_vars => [Store!Next]_(Store!vars)
  BY StepOfStore DEF Store!vars
<1> QED
  BY <1>1, <1>2, RowsStayInBetween, PTL
     DEF Spec, ImplementsCircuitStore, Store!Spec

=============================================================================
