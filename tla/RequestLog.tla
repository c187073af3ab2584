------------------------------ MODULE RequestLog ------------------------------
(***************************************************************************)
(* How the log row of a request comes to show how the request ended: the   *)
(* abort guard and the stream context that report the end (abort_guard.rs, *)
(* request_end.rs), the registry of active requests, the ways a row takes  *)
(* to the database (logging.rs: a bounded queue, spawned enqueue tasks and *)
(* write-through tasks), the writer thread of each gateway and its upsert  *)
(* (infra/request_logs.rs), and the two sweeps over rows that stay pending *)
(* (gateway stop in app/cleanup.rs, startup in app/startup_tasks.rs).      *)
(*                                                                         *)
(* A request is its trace id; unobserved requests touch nothing here and   *)
(* are left out.  A row or an insert is its status: "pending" for the      *)
(* placeholder, an end, or "reconciled" for what a sweep writes.  A stop   *)
(* ends neither the connections nor the writer thread of its gateway: the  *)
(* aborts after the time limits do not reach spawned connections or a      *)
(* running blocking thread, so both may outlive it.                        *)
(***************************************************************************)
EXTENDS Naturals, FiniteSets, SequencesExt

CONSTANTS
    Requests,
    WRITE_BUFFER_CAPACITY,
    WRITE_BATCH_MAX,
    WRITE_THROUGH_MAX_CONCURRENT,
    ENQUEUE_TASK_MAX_CONCURRENT,
    WRITE_THROUGH_MAX_PER_SEC,
    MaxStarts,              \* bound: gateways started
    MaxCrashes,             \* bound: ends of the process
    None

ASSUME RequestLogAssumption ==
    /\ WRITE_BUFFER_CAPACITY \in Nat \ {0}
    /\ WRITE_BATCH_MAX \in Nat \ {0}
    /\ WRITE_THROUGH_MAX_CONCURRENT \in Nat
    /\ ENQUEUE_TASK_MAX_CONCURRENT \in Nat
    /\ WRITE_THROUGH_MAX_PER_SEC \in Nat
    /\ MaxStarts \in Nat
    /\ MaxCrashes \in Nat
    /\ None \notin {"ok", "failed", "aborted", "pending", "reconciled"}
    /\ None \notin {"plugin", "saturated", "backpressure", "cancelled", "failed_write", "crash"}

Gateways == 1 .. MaxStarts

\* A completed answer, an error of the gateway or the provider, a client abort or
\* gateway shutdown.  All but the first carry an error code.
Ends == {"ok", "failed", "aborted"}

Insert == [request : Requests, status : Ends \cup {"pending"}]

Placeholder(r) == [request |-> r, status |-> "pending"]

VARIABLES
    startup,        \* the startup run of the process: "booting", "failed", "ready"
    phase,          \* the gateway slot: "stopped", "running", "stopping"
    started,        \* gateways started so far; the last one is the slot's
    crashes,
    place,          \* place[r]: where the handler of r is
    gateway,        \* gateway[r]: the gateway that accepted r, or None
    end,            \* end[r]: the end reported last for r (the request event), or None
    active,         \* requests in the registry of their gateway
    queue,          \* queue[g]: the log channel of gateway g
    batch,          \* batch[g]: what its writer thread is inserting
    closed,         \* closed[g]: the receiver is gone
    tasks,          \* requests whose end a spawned task is to enqueue
    through,        \* inserts that write-through tasks hold
    window_count,   \* write-throughs counted in this second
    rows,           \* rows[r]: the row of r, or None
    lost            \* history: why the reported end of r was given up, or None

pipeline == <<queue, batch, closed, tasks, through, window_count, lost>>
vars == <<startup, phase, started, crashes, place, gateway, end, active, rows, pipeline>>

------------------------------------------------------------------------------
(* The ways of an insert to the database.                                  *)

IsImportant(i) == i.status # "ok"

Room(g) == ~closed[g] /\ Len(queue[g]) < WRITE_BUFFER_CAPACITY

GivenUp(i, reason) ==
    IF i.status = "pending" THEN lost ELSE [lost EXCEPT ![i.request] = reason]

\* Fault: every row is sent, room or not.
Send_Unbounded(i, g) ==
    /\ ~closed[g]
    /\ queue' = [queue EXCEPT ![g] = Append(@, i)]
    /\ UNCHANGED <<through, window_count, lost>>

\* reserve or try_send finds a free slot.
Send(i, g) ==
    /\ Room(g)
    /\ queue' = [queue EXCEPT ![g] = Append(@, i)]
    /\ UNCHANGED <<through, window_count, lost>>

\* spawn_write_through, without a permit the insert is dropped.
SpawnWriteThrough(i) ==
    /\ IF Cardinality(through) < WRITE_THROUGH_MAX_CONCURRENT
       THEN through' = through \cup {i} /\ UNCHANGED lost
       ELSE lost' = GivenUp(i, "saturated") /\ UNCHANGED through
    /\ UNCHANGED queue

\* The channel is closed, or full and the insert a placeholder.
Bypass(i) == SpawnWriteThrough(i) /\ UNCHANGED window_count

\* The channel is full for an end: only an important one is written through, and
\* only so many in a second.
Overflow(i) ==
    IF IsImportant(i)
    THEN /\ window_count' = IF window_count > WRITE_THROUGH_MAX_PER_SEC
                            THEN window_count ELSE window_count + 1
         /\ IF window_count < WRITE_THROUGH_MAX_PER_SEC
            THEN SpawnWriteThrough(i)
            ELSE lost' = GivenUp(i, "backpressure") /\ UNCHANGED <<queue, through>>
    ELSE lost' = GivenUp(i, "backpressure") /\ UNCHANGED <<queue, through, window_count>>

\* enqueue_request_log_with_backpressure_and_plugins.  The plugin hook may drop the
\* row; after the wait for a slot the channel may still be full, or closed by then.
EnqueueWithBackpressure(i, g) ==
    \/ lost' = GivenUp(i, "plugin") /\ UNCHANGED <<queue, through, window_count>>
    \/ Send(i, g)
    \/ closed[g] /\ Bypass(i)
    \/ ~Room(g) /\ Overflow(i)

\* enqueue_request_log_placeholder
EnqueuePlaceholder(i, g) ==
    \/ Send(i, g)
    \/ ~Room(g) /\ Bypass(i)

\* spawn_enqueue_request_log_with_backpressure; with all task permits taken it is
\* enqueue_request_log_when_spawn_saturated.
SpawnEnqueue(i, g) ==
    IF Cardinality(tasks) < ENQUEUE_TASK_MAX_CONCURRENT
    THEN /\ tasks' = tasks \cup {i.request}
         /\ UNCHANGED <<queue, through, window_count, lost>>
    ELSE /\ \/ Send(i, g)
            \/ closed[g] /\ Bypass(i)
            \/ ~closed[g] /\ ~Room(g) /\ Overflow(i)
         /\ UNCHANGED tasks

Reported(r) == [request |-> r, status |-> end[r]]

\* Fault: the upsert without its WHERE.
Upserted_PlaceholderWins(table, i) ==
    [table EXCEPT ![i.request] = i.status]

\* Fault: a row that a sweep marked is closed for good.
Upserted_KeepsReconciled(table, i) ==
    [table EXCEPT ![i.request] = IF @ \notin {None, "pending"} THEN @ ELSE i.status]

\* The upsert of insert_batch_once: a placeholder never overwrites an ended row.
Upserted(table, i) ==
    [table EXCEPT ![i.request] =
        IF i.status = "pending" /\ @ \notin {None, "pending"} THEN @ ELSE i.status]

Of(s, r) == {k \in DOMAIN s : s[k].request = r}

\* Of the inserts for r in s, the one that is left to see in its row: the last end, or
\* a placeholder when there is none.
Decisive(s, r) ==
    LET ended == {k \in Of(s, r) : s[k].status # "pending"}
    IN  s[Max(IF ended # {} THEN ended ELSE Of(s, r))]

\* The inserts of s upserted one after the other.
UpsertedAll(table, s) ==
    [r \in Requests |->
        IF Of(s, r) = {} THEN table[r] ELSE Upserted(table, Decisive(s, r))[r]]

\* Fault: only rows of requests the registry still knows.
Reconciled_WhenActive ==
    [r \in Requests |-> IF rows[r] = "pending" /\ r \in active THEN "reconciled" ELSE rows[r]]

\* reconcile_unresolved_pending
Reconciled ==
    [r \in Requests |-> IF rows[r] = "pending" THEN "reconciled" ELSE rows[r]]

------------------------------------------------------------------------------
(* The process and its gateways.                                           *)

Init ==
    /\ startup = "booting"
    /\ phase = "stopped"
    /\ started = 0
    /\ crashes = 0
    /\ place = [r \in Requests |-> "new"]
    /\ gateway = [r \in Requests |-> None]
    /\ end = [r \in Requests |-> None]
    /\ active = {}
    /\ queue = [g \in Gateways |-> <<>>]
    /\ batch = [g \in Gateways |-> <<>>]
    /\ closed = [g \in Gateways |-> FALSE]
    /\ tasks = {}
    /\ through = {}
    /\ window_count = 0
    /\ rows = [r \in Requests |-> None]
    /\ lost = [r \in Requests |-> None]

\* The sweep of the startup run, at boot or when a failed run is retried: by then a
\* gateway may be up.  The run fails with the sweep, or later with another stage.
StartupRecovery ==
    /\ startup \in {"booting", "failed"}
    /\ \/ rows' = Reconciled /\ startup' \in {"ready", "failed"}
       \/ startup' = "failed" /\ UNCHANGED rows
    /\ UNCHANGED <<phase, started, crashes, place, gateway, end, active, pipeline>>

StartGateway ==
    /\ startup # "booting"
    /\ phase = "stopped"
    /\ started < MaxStarts
    /\ phase' = "running"
    /\ started' = started + 1
    /\ UNCHANGED <<startup, crashes, place, gateway, end, active, rows, pipeline>>

\* take_running and into_handles: the registry is drained.
StopGateway ==
    /\ phase = "running"
    /\ phase' = "stopping"
    /\ active' = {r \in active : gateway[r] # started}
    /\ UNCHANGED <<startup, started, crashes, place, gateway, end, rows, pipeline>>

\* The joins with the server and the writers are over, in time or given up: the
\* sweep, unless the database is not to be had.
ReconcileStopped ==
    /\ phase = "stopping"
    /\ phase' = "stopped"
    /\ rows' \in {Reconciled, rows}
    /\ UNCHANGED <<startup, started, crashes, place, gateway, end, active, pipeline>>

\* The process ends, orderly or not; what is only in memory is gone.
Crash ==
    /\ crashes < MaxCrashes
    /\ crashes' = crashes + 1
    /\ startup' = "booting"
    /\ phase' = "stopped"
    /\ place' = [r \in Requests |-> IF place[r] \in {"new", "done"} THEN place[r] ELSE "killed"]
    /\ active' = {}
    /\ queue' = [g \in Gateways |-> <<>>]
    /\ batch' = [g \in Gateways |-> <<>>]
    /\ tasks' = {}
    /\ through' = {}
    /\ window_count' = 0
    /\ lost' = [r \in Requests |->
                    IF lost[r] = None /\ end[r] # None /\ rows[r] # end[r]
                    THEN "crash" ELSE lost[r]]
    /\ UNCHANGED <<started, gateway, end, closed, rows>>

------------------------------------------------------------------------------
(* A request in its handler.                                               *)

Goes(r, to) == place' = [place EXCEPT ![r] = to]

Accept(r) ==
    /\ place[r] = "new"
    /\ phase = "running"
    /\ gateway' = [gateway EXCEPT ![r] = started]
    /\ Goes(r, "entering")
    /\ UNCHANGED <<startup, phase, started, crashes, end, active, rows, pipeline>>

\* The middleware chain refuses the request before a guard is armed; the end is
\* enqueued by a task or awaited in the handler.
EarlyError(r) ==
    /\ place[r] = "entering"
    /\ end' = [end EXCEPT ![r] = "failed"]
    /\ \/ /\ Goes(r, "done")
          /\ SpawnEnqueue([request |-> r, status |-> "failed"], gateway[r])
          /\ UNCHANGED <<batch, closed>>
       \/ Goes(r, "early") /\ UNCHANGED pipeline
    /\ UNCHANGED <<startup, phase, started, crashes, gateway, active, rows>>

\* The client is gone before the guard is armed, or while an early error waits.
LeaveUnguarded(r) ==
    /\ place[r] \in {"entering", "early"}
    /\ Goes(r, "done")
    /\ lost' = IF end[r] # None THEN [lost EXCEPT ![r] = "cancelled"] ELSE lost
    /\ UNCHANGED <<startup, phase, started, crashes, gateway, end, active, rows,
                   queue, batch, closed, tasks, through, window_count>>

\* The guard is armed, then the request registered; not every path is seeded.
Register(r) ==
    /\ place[r] = "entering"
    /\ active' = active \cup {r}
    /\ Goes(r, "placing") \/ Goes(r, "serving")
    /\ UNCHANGED <<startup, phase, started, crashes, gateway, end, rows, pipeline>>

SeedPlaceholder(r) ==
    /\ place[r] = "placing"
    /\ EnqueuePlaceholder(Placeholder(r), gateway[r])
    /\ Goes(r, "serving")
    /\ UNCHANGED <<startup, phase, started, crashes, gateway, end, active, rows,
                   batch, closed, tasks>>

\* finish, the request event; the row is still to be enqueued.
ReportEnd(r, e) ==
    /\ end' = [end EXCEPT ![r] = e]
    /\ active' = active \ {r}

\* emit_request_event_and_enqueue_request_log up to its await.
Report(r) ==
    /\ place[r] = "serving"
    /\ \E e \in {"ok", "failed"} : ReportEnd(r, e)
    /\ Goes(r, "reporting")
    /\ UNCHANGED <<startup, phase, started, crashes, gateway, rows, pipeline>>

\* Fault: the guard is not disarmed once the end is enqueued.
EnqueueReport_GuardStaysArmed(r) ==
    /\ place[r] \in {"reporting", "early"}
    /\ EnqueueWithBackpressure(Reported(r), gateway[r])
    /\ IF place[r] = "reporting" THEN Goes(r, "serving") ELSE Goes(r, "done")
    /\ UNCHANGED <<startup, phase, started, crashes, gateway, end, active, rows,
                   batch, closed, tasks>>

\* The rest of it; the caller disarms the guard with no await in between.
EnqueueReport(r) ==
    /\ place[r] \in {"reporting", "early"}
    /\ EnqueueWithBackpressure(Reported(r), gateway[r])
    /\ Goes(r, "done")
    /\ UNCHANGED <<startup, phase, started, crashes, gateway, end, active, rows,
                   batch, closed, tasks>>

\* The guard hands over to the context of the response stream.
StartStream(r) ==
    /\ place[r] = "serving"
    /\ Goes(r, "streaming")
    /\ UNCHANGED <<startup, phase, started, crashes, gateway, end, active, rows, pipeline>>

\* finalize, at the end of the stream or when it is dropped.
EndStream(r) ==
    /\ place[r] = "streaming"
    /\ \E e \in Ends : /\ ReportEnd(r, e)
                       /\ SpawnEnqueue([request |-> r, status |-> e], gateway[r])
    /\ Goes(r, "done")
    /\ UNCHANGED <<startup, phase, started, crashes, gateway, rows, batch, closed>>

\* Fault: the guard reports the end and leaves the registry alone.
Abort_StaysActive(r) ==
    /\ place[r] \in {"placing", "serving", "reporting"}
    /\ end' = [end EXCEPT ![r] = "aborted"]
    /\ SpawnEnqueue([request |-> r, status |-> "aborted"], gateway[r])
    /\ Goes(r, "done")
    /\ UNCHANGED <<startup, phase, started, crashes, gateway, active, rows, batch, closed>>

\* The handler is dropped at an await, or gives up at a gateway shutdown: the armed
\* guard reports, though an end may have been reported already.
Abort(r) ==
    /\ place[r] \in {"placing", "serving", "reporting"}
    /\ ReportEnd(r, "aborted")
    /\ SpawnEnqueue([request |-> r, status |-> "aborted"], gateway[r])
    /\ Goes(r, "done")
    /\ UNCHANGED <<startup, phase, started, crashes, gateway, rows, batch, closed>>

------------------------------------------------------------------------------
(* The tasks behind it.                                                    *)

handlers == <<startup, phase, started, crashes, place, gateway, end, active>>

RunEnqueueTask(r) ==
    /\ r \in tasks
    /\ EnqueueWithBackpressure(Reported(r), gateway[r])
    /\ tasks' = tasks \ {r}
    /\ UNCHANGED <<handlers, batch, closed, rows>>

\* writer_loop waits for one insert and takes what else is there.
TakeBatch(g) ==
    LET n == IF Len(queue[g]) < WRITE_BATCH_MAX THEN Len(queue[g]) ELSE WRITE_BATCH_MAX IN
    /\ ~closed[g]
    /\ batch[g] = <<>>
    /\ queue[g] # <<>>
    /\ batch' = [batch EXCEPT ![g] = SubSeq(queue[g], 1, n)]
    /\ queue' = [queue EXCEPT ![g] = SubSeq(@, n + 1, Len(@))]
    /\ UNCHANGED <<handlers, closed, tasks, through, window_count, rows, lost>>

LostWith(s) ==
    [r \in Requests |-> IF \E k \in DOMAIN s : s[k] = Reported(r) THEN "failed_write" ELSE lost[r]]

\* One transaction, or none of it after the retries.
WriteBatch(g) ==
    /\ batch[g] # <<>>
    /\ batch' = [batch EXCEPT ![g] = <<>>]
    /\ \/ rows' = UpsertedAll(rows, batch[g]) /\ UNCHANGED lost
       \/ lost' = LostWith(batch[g]) /\ UNCHANGED rows
    /\ UNCHANGED <<handlers, queue, closed, tasks, through, window_count>>

\* The writer thread panics and takes the receiver with it.
WriterPanics(g) ==
    /\ batch[g] # <<>>
    /\ closed' = [closed EXCEPT ![g] = TRUE]
    /\ lost' = LostWith(batch[g] \o queue[g])
    /\ batch' = [batch EXCEPT ![g] = <<>>]
    /\ queue' = [queue EXCEPT ![g] = <<>>]
    /\ UNCHANGED <<handlers, tasks, through, window_count, rows>>

WriteThrough(i) ==
    /\ i \in through
    /\ through' = through \ {i}
    /\ \/ rows' = Upserted(rows, i) /\ UNCHANGED lost
       \/ lost' = GivenUp(i, "failed_write") /\ UNCHANGED rows
    /\ UNCHANGED <<handlers, queue, batch, closed, tasks, window_count>>

\* The first write-through counted in a new second.
NewSecond ==
    /\ window_count # 0
    /\ window_count' = 0
    /\ UNCHANGED <<handlers, queue, batch, closed, tasks, through, rows, lost>>

Next ==
    \/ StartupRecovery \/ StartGateway \/ StopGateway \/ ReconcileStopped \/ Crash
    \/ \E r \in Requests :
        \/ Accept(r) \/ EarlyError(r) \/ LeaveUnguarded(r) \/ Register(r)
        \/ SeedPlaceholder(r) \/ Report(r) \/ EnqueueReport(r)
        \/ StartStream(r) \/ EndStream(r) \/ Abort(r) \/ RunEnqueueTask(r)
    \/ \E g \in Gateways : TakeBatch(g) \/ WriteBatch(g) \/ WriterPanics(g)
    \/ \E i \in Insert : WriteThrough(i)
    \/ NewSecond

\* The threads and tasks run: a wait for a slot ends by its time limit, an insert
\* by its last attempt.  Nothing is assumed of clients, providers or the user.
Fairness ==
    /\ \A r \in Requests : WF_vars(EnqueueReport(r)) /\ WF_vars(RunEnqueueTask(r))
    /\ \A g \in Gateways : WF_vars(TakeBatch(g)) /\ WF_vars(WriteBatch(g))
    /\ \A i \in Insert : WF_vars(WriteThrough(i))

Spec == Init /\ [][Next]_vars /\ Fairness

------------------------------------------------------------------------------
(* Properties.                                                             *)

Places ==
    {"new", "entering", "early", "placing", "serving", "reporting", "streaming", "done", "killed"}

TypeOK ==
    /\ startup \in {"booting", "failed", "ready"}
    /\ phase \in {"stopped", "running", "stopping"}
    /\ started \in 0 .. MaxStarts
    /\ crashes \in 0 .. MaxCrashes
    /\ place \in [Requests -> Places]
    /\ gateway \in [Requests -> Gateways \cup {None}]
    /\ end \in [Requests -> Ends \cup {None}]
    /\ active \subseteq Requests
    /\ queue \in [Gateways -> BoundedSeq(Insert, WRITE_BUFFER_CAPACITY)]
    /\ batch \in [Gateways -> BoundedSeq(Insert, WRITE_BATCH_MAX)]
    /\ closed \in [Gateways -> BOOLEAN]
    /\ tasks \subseteq Requests
    /\ through \subseteq Insert
    /\ window_count \in 0 .. WRITE_THROUGH_MAX_PER_SEC + 1
    /\ rows \in [Requests -> Ends \cup {"pending", "reconciled", None}]
    /\ lost \in [Requests -> {None, "plugin", "saturated", "backpressure", "cancelled",
                               "failed_write", "crash"}]

\* The end of r is on its way to the database.
InFlight(r) ==
    \/ r \in tasks
    \/ Reported(r) \in through
    \/ \E g \in Gateways : Reported(r) \in ToSet(queue[g]) \cup ToSet(batch[g])

\* Once the handler of a request is gone, the end it reported is in the row, on its
\* way there, or was given up for one of the named reasons: no way loses it in
\* silence, and neither a late placeholder nor a sweep hides it.
EndIsAccountedFor ==
    \A r \in Requests :
        place[r] \in {"done", "killed"} /\ end[r] # None =>
            rows[r] = end[r] \/ InFlight(r) \/ lost[r] # None

\* A row that shows an end shows the one reported last, although a handler that
\* is dropped while its report waits for the queue makes the guard report again.
RowShowsLastReport ==
    \A r \in Requests : rows[r] \in Ends => rows[r] = end[r]

\* A row stays pending only while its request runs, its end is on its way or was
\* given up, or the startup run has not got through since the process died.
PendingRowHasAnOwner ==
    \A r \in Requests :
        rows[r] = "pending" =>
            \/ place[r] \notin {"done", "killed"}
            \/ InFlight(r)
            \/ lost[r] # None
            \/ place[r] = "killed" /\ startup # "ready"

\* Every entry of the registry has an armed guard or a stream context that removes
\* it; none outlives the report of its end, whatever await the handler is dropped at.
NoStaleActiveEntry ==
    \A r \in active : place[r] \in {"placing", "serving", "streaming"} /\ end[r] = None

\* An end that was reported reaches the row unless it was given up, also when a
\* sweep marked the row in between.
EndIsRecorded ==
    \A r \in Requests : end[r] # None ~> (rows[r] = end[r] \/ lost[r] # None)
================================================================================
