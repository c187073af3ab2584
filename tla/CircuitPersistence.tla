------------------------- MODULE CircuitPersistence -------------------------
(***************************************************************************)
(* How circuit states reach the database: try_persist and its backlog in   *)
(* shared/circuit_breaker.rs, the buffered writer and the durable upserts  *)
(* in infra/provider_circuit_breakers.rs.                                  *)
(*                                                                         *)
(* A breaker call computes the upsert under the health mutex and hands it  *)
(* over after the mutex is released, so upserts may overtake each other.   *)
(* The hand-over first flushes the backlog into the channel, then tries to *)
(* send; with the channel full the upsert goes to the backlog, and a flush *)
(* task is started unless the flag says one is running.  The writer thread *)
(* takes a batch from the channel and stores it in one transaction.        *)
(* Durable upserts go to the database directly, beside all this.           *)
(*                                                                         *)
(* A state is its revision: RevisionOrdersStoredStates of CircuitBreaker   *)
(* says that the stored fields of a provider never change without it.      *)
(* updated_at only breaks ties between equal states and picks which entry  *)
(* of the backlog goes first; here any may.  Retries of a busy database    *)
(* change nothing and are left out; giving up is not.                      *)
(***************************************************************************)
EXTENDS Naturals, Sequences, FiniteSets

CONSTANTS
    Providers,
    Callers,                \* threads inside a breaker call
    DurableCallers,         \* bound: the callers that make durable upserts
    Tasks,                  \* bound: flush tasks alive at the same time
    WRITE_BUFFER_CAPACITY,
    WRITE_BATCH_MAX,
    MAX_PERSIST_BACKLOG,
    StoredRevisions,        \* revisions the rows may have at the start
    LoadFails,              \* whether load_all may fail when the gateway starts
    MaxRevision,            \* bound: no more changes of p beyond MaxRevision[p]
    MaxRestarts,            \* bound: restarts of the process
    None

ASSUME PersistenceAssumption ==
    /\ DurableCallers \subseteq Callers
    /\ WRITE_BUFFER_CAPACITY \in Nat
    /\ WRITE_BATCH_MAX \in Nat
    /\ MAX_PERSIST_BACKLOG \in Nat \ {0}
    /\ StoredRevisions \subseteq Nat
    /\ LoadFails \in BOOLEAN
    /\ MaxRevision \in [Providers -> Nat]
    /\ MaxRestarts \in Nat
    /\ None \notin Nat \cup [provider_id : Providers, state_revision : Nat]

VARIABLES
    health,                 \* health[p]: revision of the in-memory state of p
    callers,                \* what each breaker call still has to hand over
    persist_backlog,        \* HashMap<provider id, upsert>
    persist_backlog_flush_scheduled,
    flush_tasks,            \* where each flush_persist_backlog_until_idle is
    channel,                \* the channel to the writer
    writer,                 \* writer_loop: its place and its buffer
    rows,                   \* rows[p]: revision stored, 0 for none
    promised,               \* history: latest revision a durable upsert returned Ok for
    lost,                   \* history: latest revision dropped with an error in the log
    restarts

queues == <<callers, persist_backlog, persist_backlog_flush_scheduled,
            flush_tasks, channel, writer>>
vars == <<health, queues, rows, promised, lost, restarts>>

-----------------------------------------------------------------------------

Upsert == [provider_id : Providers, state_revision : Nat]

\* "persist": try_persist was entered; "flushing": flush_persist_backlog holds
\* the backlog mutex; "sending": about to try_send; "queueing": the channel was
\* full; "scheduling": queued, the flush task is next; "durable": the state to
\* upsert durably was read.  rest holds the other upserts of an update_config.
CallerStates ==
    [pc : {"idle", "persist", "flushing", "sending", "queueing", "scheduling",
           "durable"},
     item : Upsert \cup {None},
     rest : SUBSET Upsert]

Idle == [pc |-> "idle", item |-> None, rest |-> {}]

\* An idle caller has nothing left to store, and a durable upsert is a single one.
IsConsistent(caller) ==
    /\ caller.pc = "idle" \/ caller.item = None => caller = Idle
    /\ caller.pc = "durable" => caller.rest = {}

\* "reserve": waits for a channel slot; "permit": holds one; "drained": found the
\* backlog empty; "recheck": cleared the flag; "claim": saw a new entry since.
TaskStates == {"idle", "reserve", "permit", "drained", "recheck", "claim"}

WriterStates ==
    [pc : {"receiving", "draining", "inserting"}, buffer : Seq(Upsert)]

TypeOK ==
    /\ health \in [Providers -> Nat]
    /\ callers \in [Callers -> CallerStates]
    /\ \A c \in Callers : IsConsistent(callers[c])
    /\ persist_backlog \in [Providers -> Nat \cup {None}]
    /\ persist_backlog_flush_scheduled \in BOOLEAN
    /\ flush_tasks \in [Tasks -> TaskStates]
    /\ channel \in Seq(Upsert)
    /\ writer \in WriterStates
    /\ rows \in [Providers -> Nat]
    /\ promised \in [Providers -> Nat]
    /\ lost \in [Providers -> Nat]
    /\ restarts \in Nat

Nothing == [p \in Providers |-> 0]

\* The rows at the start are those of an earlier run.
Init ==
    /\ rows \in [Providers -> StoredRevisions]
    /\ health = rows
    /\ callers = [c \in Callers |-> Idle]
    /\ persist_backlog = [p \in Providers |-> None]
    /\ persist_backlog_flush_scheduled = FALSE
    /\ flush_tasks = [t \in Tasks |-> "idle"]
    /\ channel = << >>
    /\ writer = [pc |-> "receiving", buffer |-> << >>]
    /\ promised = Nothing
    /\ lost = Nothing
    /\ restarts = 0

-----------------------------------------------------------------------------
\* Calls of the breaker and try_persist.

item_of(p, revision) == [provider_id |-> p, state_revision |-> revision]

Backlogged == {p \in Providers : persist_backlog[p] # None}

BacklogIsFree == \A c \in Callers : callers[c].pc # "flushing"

\* A permit of a flush task occupies a slot before its message does.
HasSlot ==
    Len(channel) + Cardinality({t \in Tasks : flush_tasks[t] = "permit"})
        < WRITE_BUFFER_CAPACITY

Goto(c, pc) == callers' = [callers EXCEPT ![c].pc = pc]

\* A return that forgets to take the upsert away.
Return_KeepingItem(c) == Goto(c, "idle")

\* try_persist returns; update_config goes on with its next upsert.
Return(c) ==
    IF callers[c].rest = {}
    THEN callers' = [callers EXCEPT ![c] = Idle]
    ELSE \E i \in callers[c].rest :
            callers' = [callers EXCEPT
                ![c] = [pc |-> "persist", item |-> i, rest |-> @.rest \ {i}]]

\* A call changes one provider, a hot reload any number of them, under the
\* health mutex; what is to be stored is computed there.
ChangeStates(c, changed) ==
    /\ callers[c].pc = "idle"
    /\ \A p \in changed : health[p] < MaxRevision[p]
    /\ health' = [p \in Providers |->
                    IF p \in changed THEN health[p] + 1 ELSE health[p]]
    /\ LET upserts == {item_of(p, health'[p]) : p \in changed}
       IN  \E i \in upserts :
              callers' = [callers EXCEPT
                  ![c] = [pc |-> "persist", item |-> i, rest |-> upserts \ {i}]]
    /\ UNCHANGED <<persist_backlog, persist_backlog_flush_scheduled, flush_tasks,
                   channel, writer, rows, promised, lost, restarts>>

LockBacklog(c) ==
    /\ callers[c].pc = "persist"
    /\ BacklogIsFree
    /\ Goto(c, "flushing")
    /\ UNCHANGED <<health, persist_backlog, persist_backlog_flush_scheduled,
                   flush_tasks, channel, writer, rows, promised, lost, restarts>>

\* One round of flush_persist_backlog.  With the channel full the popped entry is
\* put back, so that nothing changes.
FlushOne(c) ==
    /\ callers[c].pc = "flushing"
    /\ HasSlot
    /\ \E p \in Backlogged :
          /\ channel' = Append(channel, item_of(p, persist_backlog[p]))
          /\ persist_backlog' = [persist_backlog EXCEPT ![p] = None]
    /\ UNCHANGED <<health, callers, persist_backlog_flush_scheduled, flush_tasks,
                   writer, rows, promised, lost, restarts>>

UnlockBacklog(c) ==
    /\ callers[c].pc = "flushing"
    /\ Backlogged = {} \/ ~HasSlot
    /\ Goto(c, "sending")
    /\ UNCHANGED <<health, persist_backlog, persist_backlog_flush_scheduled,
                   flush_tasks, channel, writer, rows, promised, lost, restarts>>

TrySend(c) ==
    /\ callers[c].pc = "sending"
    /\ IF HasSlot
       THEN channel' = Append(channel, callers[c].item) /\ Return(c)
       ELSE Goto(c, "queueing") /\ UNCHANGED channel
    /\ UNCHANGED <<health, persist_backlog, persist_backlog_flush_scheduled,
                   flush_tasks, writer, rows, promised, lost, restarts>>

\* A backlog that keeps whatever came last...
newer_queued_LastWins(p, revision) == FALSE

\* ... and the real one, which keeps the newest upsert of a provider.
newer_queued(p, revision) ==
    persist_backlog[p] # None /\ persist_backlog[p] > revision

Later(m, n) == IF m < n THEN n ELSE m

\* enqueue_persist_backlog: dropped as outdated, or queued, in place of another
\* provider's upsert when the backlog is full.
Enqueue(c) ==
    LET p == callers[c].item.provider_id
        revision == callers[c].item.state_revision
    IN  /\ callers[c].pc = "queueing"
        /\ BacklogIsFree
        /\ \/ /\ newer_queued(p, revision)
              /\ UNCHANGED <<persist_backlog, lost>>
           \/ /\ ~newer_queued(p, revision)
              /\ p \in Backlogged \/ Cardinality(Backlogged) < MAX_PERSIST_BACKLOG
              /\ persist_backlog' = [persist_backlog EXCEPT ![p] = revision]
              /\ UNCHANGED lost
           \/ /\ ~newer_queued(p, revision)
              /\ p \notin Backlogged
              /\ Cardinality(Backlogged) >= MAX_PERSIST_BACKLOG
              /\ \E evicted \in Backlogged :
                    /\ persist_backlog' =
                          [persist_backlog EXCEPT ![evicted] = None, ![p] = revision]
                    /\ lost' = [lost EXCEPT
                          ![evicted] = Later(@, persist_backlog[evicted])]
        /\ Goto(c, "scheduling")
        /\ UNCHANGED <<health, persist_backlog_flush_scheduled, flush_tasks,
                       channel, writer, rows, promised, restarts>>

\* A new task takes the first identity that is free.
FreeTask == CHOOSE t \in Tasks : flush_tasks[t] = "idle"

\* compare_exchange of the flag, and the task it guards.
Schedule(c) ==
    /\ callers[c].pc = "scheduling"
    /\ \/ /\ persist_backlog_flush_scheduled
          /\ UNCHANGED <<persist_backlog_flush_scheduled, flush_tasks>>
       \/ /\ ~persist_backlog_flush_scheduled
          /\ persist_backlog_flush_scheduled' = TRUE
          /\ \E t \in Tasks :
                /\ t = FreeTask
                /\ flush_tasks[t] = "idle"
                /\ flush_tasks' = [flush_tasks EXCEPT ![t] = "reserve"]
    /\ Return(c)
    /\ UNCHANGED <<health, persist_backlog, channel, writer, rows, promised, lost,
                   restarts>>

-----------------------------------------------------------------------------
\* flush_persist_backlog_until_idle.

SetTask(t, pc) == flush_tasks' = [flush_tasks EXCEPT ![t] = pc]

Reserve(t) ==
    /\ flush_tasks[t] = "reserve"
    /\ HasSlot
    /\ SetTask(t, "permit")
    /\ UNCHANGED <<health, callers, persist_backlog,
                   persist_backlog_flush_scheduled, channel, writer, rows,
                   promised, lost, restarts>>

\* An entry of the backlog uses the permit, or the empty backlog gives it back.
PopBacklog(t) ==
    /\ flush_tasks[t] = "permit"
    /\ BacklogIsFree
    /\ \/ \E p \in Backlogged :
             /\ channel' = Append(channel, item_of(p, persist_backlog[p]))
             /\ persist_backlog' = [persist_backlog EXCEPT ![p] = None]
             /\ SetTask(t, "reserve")
       \/ /\ Backlogged = {}
          /\ SetTask(t, "drained")
          /\ UNCHANGED <<channel, persist_backlog>>
    /\ UNCHANGED <<health, callers, persist_backlog_flush_scheduled, writer, rows,
                   promised, lost, restarts>>

ClearFlag(t) ==
    /\ flush_tasks[t] = "drained"
    /\ persist_backlog_flush_scheduled' = FALSE
    /\ SetTask(t, "recheck")
    /\ UNCHANGED <<health, callers, persist_backlog, channel, writer, rows,
                   promised, lost, restarts>>

\* A task that ends as soon as it has cleared the flag.
Recheck_Blindly(t) ==
    /\ flush_tasks[t] = "recheck"
    /\ SetTask(t, "idle")
    /\ UNCHANGED <<health, callers, persist_backlog,
                   persist_backlog_flush_scheduled, channel, writer, rows,
                   promised, lost, restarts>>

\* What was queued between the last look at the backlog and the flag found the
\* flag still set: the task looks again before it ends.
Recheck(t) ==
    /\ flush_tasks[t] = "recheck"
    /\ BacklogIsFree
    /\ SetTask(t, IF Backlogged = {} THEN "idle" ELSE "claim")
    /\ UNCHANGED <<health, callers, persist_backlog,
                   persist_backlog_flush_scheduled, channel, writer, rows,
                   promised, lost, restarts>>

\* A task that goes on whatever the compare_exchange said.
Claim_Regardless(t) ==
    /\ flush_tasks[t] = "claim"
    /\ SetTask(t, "reserve")
    /\ persist_backlog_flush_scheduled' = TRUE
    /\ UNCHANGED <<health, callers, persist_backlog, channel, writer, rows,
                   promised, lost, restarts>>

\* compare_exchange of the flag: another task may have been started meanwhile.
Claim(t) ==
    /\ flush_tasks[t] = "claim"
    /\ SetTask(t, IF persist_backlog_flush_scheduled THEN "idle" ELSE "reserve")
    /\ persist_backlog_flush_scheduled' = TRUE
    /\ UNCHANGED <<health, callers, persist_backlog, channel, writer, rows,
                   promised, lost, restarts>>

-----------------------------------------------------------------------------
\* writer_loop.

\* blocking_recv, then try_recv until the channel is empty or the batch full.
Receive ==
    /\ writer.pc = "receiving" \/
          (writer.pc = "draining" /\ Len(writer.buffer) < WRITE_BATCH_MAX)
    /\ channel # << >>
    /\ writer' = [pc |-> "draining", buffer |-> Append(writer.buffer, Head(channel))]
    /\ channel' = Tail(channel)
    /\ UNCHANGED <<health, callers, persist_backlog,
                   persist_backlog_flush_scheduled, flush_tasks, rows, promised,
                   lost, restarts>>

FinishBatch ==
    /\ writer.pc = "draining"
    /\ channel = << >> \/ Len(writer.buffer) >= WRITE_BATCH_MAX
    /\ writer' = [writer EXCEPT !.pc = "inserting"]
    /\ UNCHANGED <<health, callers, persist_backlog,
                   persist_backlog_flush_scheduled, flush_tasks, channel, rows,
                   promised, lost, restarts>>

Received == {writer.buffer[i] : i \in DOMAIN writer.buffer}

revisions_of(p, upserts) ==
    {i.state_revision : i \in {j \in upserts : j.provider_id = p}}

\* The oldest of a provider in the batch.
latest_by_provider_Oldest(p, upserts) ==
    LET revisions == revisions_of(p, upserts)
        oldest == {r \in revisions : \A other \in revisions : r <= other}
    IN  IF oldest = {} THEN 0 ELSE CHOOSE r \in oldest : TRUE

\* latest_by_provider: the newest of a provider in the batch; 0 if there is none.
latest_by_provider(p, upserts) ==
    LET revisions == revisions_of(p, upserts)
        newest == {r \in revisions : \A other \in revisions : other <= r}
    IN  IF newest = {} THEN 0 ELSE CHOOSE r \in newest : TRUE

\* A row replaced by whatever is written...
upserted_Unguarded(row, revision) == IF revision = 0 THEN row ELSE revision

\* ... and the WHERE clause of the upsert, under which a row never gets older.
upserted(row, revision) == IF revision > row THEN revision ELSE row

InsertBatch ==
    /\ writer.pc = "inserting"
    /\ rows' = [p \in Providers |->
                  upserted(rows[p], latest_by_provider(p, Received))]
    /\ writer' = [pc |-> "receiving", buffer |-> << >>]
    /\ UNCHANGED <<health, callers, persist_backlog,
                   persist_backlog_flush_scheduled, flush_tasks, channel, promised,
                   lost, restarts>>

\* The transaction fails for good: the database stays busy, or one of the
\* providers was deleted meanwhile (a foreign key).  The whole batch is dropped.
DropBatch ==
    /\ writer.pc = "inserting"
    /\ lost' = [p \in Providers |->
                  Later(lost[p], latest_by_provider(p, Received))]
    /\ writer' = [pc |-> "receiving", buffer |-> << >>]
    /\ UNCHANGED <<health, callers, persist_backlog,
                   persist_backlog_flush_scheduled, flush_tasks, channel, rows,
                   promised, restarts>>

-----------------------------------------------------------------------------
\* Durable upserts: the dispatch of a probe, its failure, a reset.

ReadState(c, p) ==
    /\ c \in DurableCallers
    /\ callers[c].pc = "idle"
    /\ health[p] > 0
    /\ callers' = [callers EXCEPT
          ![c] = [pc |-> "durable", item |-> item_of(p, health[p]), rest |-> {}]]
    /\ UNCHANGED <<health, persist_backlog, persist_backlog_flush_scheduled,
                   flush_tasks, channel, writer, rows, promised, lost, restarts>>

\* Also Ok when the row is newer and stays as it is.
UpsertDurable(c) ==
    LET p == callers[c].item.provider_id
        revision == callers[c].item.state_revision
    IN  /\ callers[c].pc = "durable"
        /\ rows' = [rows EXCEPT ![p] = upserted(@, revision)]
        /\ promised' = [promised EXCEPT ![p] = Later(@, revision)]
        /\ callers' = [callers EXCEPT ![c] = Idle]
        /\ UNCHANGED <<health, persist_backlog, persist_backlog_flush_scheduled,
                       flush_tasks, channel, writer, lost, restarts>>

\* A failed write reported as done.
FailDurable_AsOk(c) ==
    /\ callers[c].pc = "durable"
    /\ promised' = [promised EXCEPT
          ![callers[c].item.provider_id] = Later(@, callers[c].item.state_revision)]
    /\ callers' = [callers EXCEPT ![c] = Idle]
    /\ UNCHANGED <<health, persist_backlog, persist_backlog_flush_scheduled,
                   flush_tasks, channel, writer, rows, lost, restarts>>

\* Err: the caller rolls back or fails closed, with another call.
FailDurable(c) ==
    /\ callers[c].pc = "durable"
    /\ callers' = [callers EXCEPT ![c] = Idle]
    /\ UNCHANGED <<health, persist_backlog, persist_backlog_flush_scheduled,
                   flush_tasks, channel, writer, rows, promised, lost, restarts>>

-----------------------------------------------------------------------------

\* The process ends at any point and starts again.  build_circuit_breaker loads
\* the rows; when that fails it goes on "using defaults".
Restart ==
    /\ restarts < MaxRestarts
    /\ restarts' = restarts + 1
    /\ \/ health' = rows
       \/ LoadFails /\ health' = Nothing
    /\ callers' = [c \in Callers |-> Idle]
    /\ persist_backlog' = [p \in Providers |-> None]
    /\ persist_backlog_flush_scheduled' = FALSE
    /\ flush_tasks' = [t \in Tasks |-> "idle"]
    /\ channel' = << >>
    /\ writer' = [pc |-> "receiving", buffer |-> << >>]
    /\ promised' = Nothing
    /\ lost' = Nothing
    /\ UNCHANGED rows

CallerStep(c) ==
    \/ LockBacklog(c)
    \/ FlushOne(c)
    \/ UnlockBacklog(c)
    \/ TrySend(c)
    \/ Enqueue(c)
    \/ Schedule(c)
    \/ UpsertDurable(c)
    \/ FailDurable(c)

TaskStep(t) ==
    \/ Reserve(t)
    \/ PopBacklog(t)
    \/ ClearFlag(t)
    \/ Recheck(t)
    \/ Claim(t)

WriterStep ==
    \/ Receive
    \/ FinishBatch
    \/ InsertBatch
    \/ DropBatch

Next ==
    \/ \E c \in Callers :
          \/ \E changed \in SUBSET Providers \ {{}} : ChangeStates(c, changed)
          \/ \E p \in Providers : ReadState(c, p)
          \/ CallerStep(c)
    \/ \E t \in Tasks : TaskStep(t)
    \/ WriterStep
    \/ Restart

Spec == Init /\ [][Next]_vars

-----------------------------------------------------------------------------
\* Properties.

\* An upsert is somewhere between a breaker call and the database.
OnItsWay(u) ==
    \/ \E c \in Callers :
          \/ /\ callers[c].pc \in {"persist", "flushing", "sending", "queueing"}
             /\ callers[c].item = u
          \/ u \in callers[c].rest
    \/ \E p \in Backlogged : u = item_of(p, persist_backlog[p])
    \/ \E i \in DOMAIN channel : channel[i] = u
    \/ \E i \in DOMAIN writer.buffer : writer.buffer[i] = u

\* The newest state of a provider is never forgotten on its way through callers,
\* backlog, flush tasks, channel and batches, in whatever order they run: it is
\* stored, or under way, or an error in the log says that it was dropped.
NewestIsNotForgotten ==
    \A p \in Providers :
        \/ rows[p] >= health[p]
        \/ lost[p] >= health[p]
        \/ OnItsWay(item_of(p, health[p]))

\* The flag belongs to one flush task, which still has to clear it: no two tasks
\* drain the backlog side by side, and the flag is never left behind by a task
\* that ended.
Flushing == {t \in Tasks : flush_tasks[t] \in {"reserve", "permit", "drained"}}

FlagHasOneTask ==
    /\ persist_backlog_flush_scheduled <=> Flushing # {}
    /\ \A t, u \in Flushing : t = u

\* No lost wake-up: while something is queued, a flush task is alive that still has
\* to look at the backlog, or a caller is about to start one.
BacklogHasFlusher ==
    Backlogged # {} =>
        \/ \E t \in Tasks : flush_tasks[t] # "idle"
        \/ \E c \in Callers : callers[c].pc = "scheduling"

\* When a durable upsert returned Ok, the database holds that state or a newer one
\* of this process, until the process ends: what commit_at_transport_boundary
\* relies on before a probe is sent.
PromisesAreStored ==
    \A p \in Providers :
        promised[p] # 0 => promised[p] <= rows[p] /\ rows[p] <= health[p]

\* No restart forgets a state that a durable upsert had returned Ok for.
RestartKeepsPromises ==
    [][restarts' # restarts => \A p \in Providers : promised[p] <= health'[p]]_vars

\* What these rest on: nothing that is to be stored is ahead of the breaker.
NothingIsAhead ==
    /\ \A c \in Callers :
          \A u \in callers[c].rest
                   \cup (IF callers[c].item = None THEN {} ELSE {callers[c].item}) :
              u.state_revision <= health[u.provider_id]
    /\ \A p \in Backlogged : persist_backlog[p] <= health[p]
    /\ \A i \in DOMAIN channel :
          channel[i].state_revision <= health[channel[i].provider_id]
    /\ \A i \in DOMAIN writer.buffer :
          writer.buffer[i].state_revision <= health[writer.buffer[i].provider_id]

SafetyInvariant ==
    /\ TypeOK
    /\ NothingIsAhead
    /\ NewestIsNotForgotten
    /\ FlagHasOneTask
    /\ BacklogHasFlusher

\* The rows follow the states of the breaker and never go back.
Store == INSTANCE CircuitStore WITH current <- health, stored <- rows

ImplementsCircuitStore == Store!Spec

\* Everything between a call and the database keeps running: threads and tasks
\* are scheduled, and tokio's semaphore grants channel slots in order.
Fairness ==
    /\ \A c \in Callers : WF_vars(CallerStep(c))
    /\ \A t \in Tasks : WF_vars(TaskStep(t)) /\ SF_vars(Reserve(t))
    /\ WF_vars(WriterStep)

FairSpec == Spec /\ Fairness

\* Every state reaches the database, unless the process restarts or the log says
\* that it was dropped.
StateIsStored ==
    \A p \in Providers : \A r \in 1..MaxRevision[p] :
        health[p] = r ~> rows[p] >= r \/ lost[p] >= r \/ health[p] < r

=============================================================================
