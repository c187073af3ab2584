---------------------------- MODULE ExtensionHosts ----------------------------
(***************************************************************************)
(* The warm extension hosts of the plugins: the registry that reuses,       *)
(* replaces and disposes them (app/plugins/extension_host_registry.rs) over *)
(* the child process each one talks to (app/plugins/extension_host.rs,      *)
(* app/plugins/extension_host_process.rs).                                  *)
(*                                                                          *)
(* The program has two registries: that of the gateway runs hooks and drops *)
(* what is no longer enabled; that of the commands runs commands and is     *)
(* told of every plugin that changed.  Every step up to the next await of   *)
(* an operation is one action; a hook ends early at any await, when its     *)
(* deadline passes or its client leaves.  Time is left out: any host may    *)
(* have been idle for long enough, any one be the least recently used.      *)
(***************************************************************************)
EXTENDS FiniteSets, Integers, SequencesExt

CONSTANTS
    Plugins,            \* plugin ids
    Keys,               \* ExtensionHostInstanceKey: plugin, version, contributions, timeout
    PluginOf,           \* key.plugin_id
    Hosts,              \* identities of ManagedExtensionHostInstance, used again
    Locks,              \* identities of plugin locks, used again
    Callers,            \* hook or command calls under way at a time
    Sweeper,            \* run_idle_sweeper
    Lifecycle,          \* tasks of retain_for_plugins, disposals of commands and exit
    Setups,             \* registries to choose from, with their max_warm_instances
    MaxActive,          \* bound: operations under way at a time
    None

Operations == Callers \cup {Sweeper} \cup Lifecycle

ASSUME ExtensionHostsAssumption ==
    /\ PluginOf \in [Keys -> Plugins]
    /\ Sweeper \notin Callers \cup Lifecycle
    /\ Callers \cap Lifecycle = {}
    /\ MaxActive \in Nat
    /\ Setups \subseteq {"gateway", "commands"} \X (Nat \ {0})
    /\ None \notin Plugins \cup Keys \cup Hosts \cup Locks \cup Operations

VARIABLES
    registry,           \* the one of the gateway or the one of the commands
    max_warm_instances, \* limits
    gate_queue,         \* operations that wait for operation_gate, in order
    instances,          \* key -> host, or None
    plugin_locks,       \* plugin -> lock, or None
    hosts,              \* the processes behind the identities
    operations,         \* what each operation holds, and where it is
    aborts              \* hosts a task of abort_instance waits for

vars == <<registry, max_warm_instances, gate_queue, instances, plugin_locks, hosts,
          operations, aborts>>

\* exited: the child is dead and not yet taken; killed: it is taken.
\* holder: who holds the mutex of the process.
Host == [state : {"none", "running", "exited", "killed"},
         holder : Operations \cup {None}]
NoHost == [state |-> "none", holder |-> None]
Started == [state |-> "running", holder |-> None]

Places == {"idle", "gate", "plugin_lock", "plugin", "warm", "process", "reply", "remove",
           "abort", "dispose", "deactivate", "clean", "start", "cold",
           "dispose_plugin", "drop_guard", "remove_lock", "retain", "orphans", "snapshot",
           "pick", "current", "recycle", "take", "dispose_idle", "prune", "dispose_all",
           "clear"}

\* gate: how it holds operation_gate.  lock, guard: its Arc of the plugin lock, and
\* whether it holds that.  disposals: hosts to dispose before it goes on at next.
\* todo: the sweeper's copy of the map.  plugins: the enabled plugins of a retain, then
\* those it removed.
Operation ==
    [kind : {"none", "hook", "command", "dispose_plugin", "retain", "dispose_all", "recycle",
             "dispose_idle"},
     pc : Places, gate : {"none", "read", "write"}, key : Keys \cup {None},
     plugin : Plugins \cup {None}, lock : Locks \cup {None}, guard : BOOLEAN,
     host : Hosts \cup {None}, disposals : SUBSET Hosts, next : Places,
     todo : SUBSET (Keys \X Hosts), plugins : SUBSET Plugins]
Idle ==
    [kind |-> "none", pc |-> "idle", gate |-> "none", key |-> None, plugin |-> None,
     lock |-> None, guard |-> FALSE, host |-> None, disposals |-> {}, next |-> "idle",
     todo |-> {}, plugins |-> {}]

TypeOK ==
    /\ <<registry, max_warm_instances>> \in Setups
    /\ gate_queue \in Seq(Operations)
    /\ instances \in [Keys -> Hosts \cup {None}]
    /\ plugin_locks \in [Plugins -> Locks \cup {None}]
    /\ hosts \in [Hosts -> Host]
    /\ operations \in [Operations -> Operation]
    /\ aborts \in SUBSET Hosts
    /\ {gate_queue[i] : i \in DOMAIN gate_queue} = {c \in Operations : operations[c].pc = "gate"}
    /\ \A i, j \in DOMAIN gate_queue : gate_queue[i] = gate_queue[j] => i = j

Init ==
    /\ \E s \in Setups : registry = s[1] /\ max_warm_instances = s[2]
    /\ gate_queue = <<>>
    /\ instances = [k \in Keys |-> None]
    /\ plugin_locks = [p \in Plugins |-> None]
    /\ hosts = [h \in Hosts |-> NoHost]
    /\ operations = [c \in Operations |-> Idle]
    /\ aborts = {}

-----------------------------------------------------------------------------
(* Ownership *)

At(c, pc) == operations[c].pc = pc

Warm == {k \in Keys : instances[k] # None}
WarmHosts == {instances[k] : k \in Warm}

\* Hosts an operation has an Arc or a Box of.
HeldBy(c) ==
    {operations[c].host} \cup operations[c].disposals \cup {x[2] : x \in operations[c].todo}

Referenced == aborts \cup WarmHosts \cup (UNION {HeldBy(c) : c \in Operations})

\* Arc::strong_count without the one of the map.
Clones(lock) == {c \in Operations : operations[c].lock = lock}

Killed(h) == [hosts EXCEPT ![h].state = "killed", ![h].holder = None]

\* c goes on as op.  The last owner of a process drops it, and Drop aborts the child.
Go(c, op, processes) ==
    /\ operations' = [operations EXCEPT ![c] = op]
    /\ hosts' = [h \in Hosts |-> IF h \in Referenced' THEN processes[h] ELSE NoHost]

\* The rest of the registry, by what a step may change of it.
SameMaps == UNCHANGED <<instances, plugin_locks>>
SameSetup == UNCHANGED <<registry, max_warm_instances>>
Same == SameMaps /\ SameSetup /\ UNCHANGED <<gate_queue, aborts>>

\* dispose_instances before the operation goes on at next.
Disposing(op, S, next) ==
    IF S = {} /\ next = "idle" THEN Idle
    ELSE IF S = {} THEN [op EXCEPT !.disposals = {}, !.next = "idle", !.pc = next]
    ELSE [op EXCEPT !.disposals = S, !.next = next, !.pc = "dispose"]

-----------------------------------------------------------------------------
(* operation_gate and the plugin locks *)

Begin(c, op) ==
    /\ At(c, "idle")
    /\ Cardinality({d \in Operations : ~At(d, "idle")}) < MaxActive
    /\ gate_queue' = Append(gate_queue, c)
    /\ SameMaps /\ SameSetup /\ UNCHANGED aborts
    /\ Go(c, [op EXCEPT !.pc = "gate"], hosts)

\* execute_gateway_hook and execute_command take the host's key from the plugin's detail.
Call(c) ==
    \E k \in Keys :
        Begin(c, [Idle EXCEPT !.kind = IF registry = "gateway" THEN "hook" ELSE "command",
                              !.key = k, !.plugin = PluginOf[k]])

Sweep == Begin(Sweeper, [Idle EXCEPT !.kind = "recycle"])

\* retain_for_plugins spawns with the plugins enabled at that moment.
Retain(c) ==
    /\ registry = "gateway"
    /\ \E S \in SUBSET Plugins : Begin(c, [Idle EXCEPT !.kind = "retain", !.plugins = S])

\* A changed, disabled or removed plugin; exit.
Dispose(c) ==
    /\ registry = "commands"
    /\ \/ \E p \in Plugins : Begin(c, [Idle EXCEPT !.kind = "dispose_plugin", !.plugin = p])
       \/ Begin(c, [Idle EXCEPT !.kind = "dispose_all"])

Exclusive(kind) == kind \in {"retain", "dispose_idle", "dispose_all"}

FirstPlace(kind) ==
    CASE kind \in {"hook", "command", "dispose_plugin"} -> "plugin_lock"
      [] kind = "recycle" -> "snapshot"
      [] OTHER -> kind

\* A gate at which writers wait for writers only...
GateOpens_ForWriter(kind) == \A d \in Operations : operations[d].gate # "write"

\* ... and the real one.
GateOpens(kind) ==
    /\ \A d \in Operations : operations[d].gate # "write"
    /\ Exclusive(kind) => \A d \in Operations : operations[d].gate = "none"

\* tokio's lock is fair: readers do not pass a writer that waits.
EnterGate(c) ==
    LET op == operations[c]
    IN  /\ At(c, "gate") /\ Head(gate_queue) = c
        /\ GateOpens(op.kind)
        /\ gate_queue' = Tail(gate_queue)
        /\ SameMaps /\ SameSetup /\ UNCHANGED aborts
        /\ Go(c, [op EXCEPT !.gate = IF Exclusive(op.kind) THEN "write" ELSE "read",
                            !.pc = FirstPlace(op.kind)], hosts)

\* Identities are used again when no Arc is left.
Unowned == {l \in Locks : Clones(l) = {} /\ \A p \in Plugins : plugin_locks[p] # l}

plugin_lock_for(c) ==
    LET op == operations[c]
        known == plugin_locks[op.plugin]
    IN  /\ At(c, "plugin_lock")
        /\ SameSetup /\ UNCHANGED <<instances, gate_queue, aborts>>
        /\ \E l \in IF known = None THEN Unowned ELSE {known} :
              /\ plugin_locks' = [plugin_locks EXCEPT ![op.plugin] = l]
              /\ Go(c, [op EXCEPT !.lock = l, !.pc = "plugin"], hosts)

LockPlugin(c) ==
    LET op == operations[c]
    IN  /\ At(c, "plugin")
        /\ \A d \in Clones(op.lock) : ~operations[d].guard
        /\ Same
        /\ Go(c, [op EXCEPT !.guard = TRUE,
                            !.pc = CASE op.kind = "recycle" -> "current"
                                     [] op.kind = "dispose_plugin" -> "dispose_plugin"
                                     [] OTHER -> "warm"], hosts)

\* The guard is given back before the lock is looked at again.
DropGuard(c) ==
    /\ At(c, "drop_guard")
    /\ Same
    /\ Go(c, [operations[c] EXCEPT !.guard = FALSE, !.pc = "remove_lock"], hosts)

\* The sweeper goes on with the next host of its copy.
NextItem(op) ==
    [op EXCEPT !.pc = "pick", !.key = None, !.plugin = None, !.host = None, !.lock = None,
               !.guard = FALSE]

\* Only the map and the operation have the lock; or whoever comes last thinks so.
Unused_Always(c) == TRUE
Unused(c) == Clones(operations[c].lock) = {c}

remove_plugin_lock_if_unused(c) ==
    LET op == operations[c]
    IN  /\ At(c, "remove_lock")
        /\ plugin_locks' = IF plugin_locks[op.plugin] = op.lock /\ Unused(c)
                           THEN [plugin_locks EXCEPT ![op.plugin] = None]
                           ELSE plugin_locks
        /\ SameSetup /\ UNCHANGED <<instances, gate_queue, aborts>>
        /\ Go(c, IF op.kind = "recycle" THEN NextItem(op)
                 ELSE Idle, hosts)

-----------------------------------------------------------------------------
(* A call: hook or command *)

\* execute_warm_instance
FindWarm(c) ==
    LET op == operations[c]
        h == instances[op.key]
    IN  /\ At(c, "warm")
        /\ Same
        /\ Go(c, IF h = None THEN [op EXCEPT !.pc = "clean"]
                 ELSE [op EXCEPT !.host = h, !.pc = "process"], hosts)

\* execute_if_running: the process is locked for the whole call.
ExecuteIfRunning(c) ==
    LET op == operations[c]
        h == op.host
    IN  /\ At(c, "process")
        /\ hosts[h].holder = None
        /\ Same
        /\ IF hosts[h].state = "running"
           THEN Go(c, [op EXCEPT !.pc = "reply"], [hosts EXCEPT ![h].holder = c])
           ELSE Go(c, [op EXCEPT !.pc = "remove", !.next = "clean"], hosts)

\* An error kills the child (call_method_with_timeout: its own time limit, a crash, an
\* error reply, the late reply to a call that was cut off), unless nothing was sent.
Replied(c) ==
    LET op == operations[c]
        h == op.host
    IN  /\ At(c, "reply")
        /\ Same
        /\ \/ /\ hosts[h].state = "running"
              /\ Go(c, Idle, [hosts EXCEPT ![h].holder = None])
           \/ \E state \in {hosts[h].state, "killed"} :
                 Go(c, [op EXCEPT !.pc = "remove", !.next = "idle"],
                    [hosts EXCEPT ![h].state = state, ![h].holder = None])

IsCurrent(c) ==
    instances[operations[c].key] = operations[c].host

Without(S) == [k \in Keys |-> IF k \in S THEN None ELSE instances[k]]

\* remove_warm_instance_if_current
RemoveIfCurrent(c) ==
    LET op == operations[c]
        taken == IF IsCurrent(c) THEN {op.host} ELSE {}
    IN  /\ At(c, "remove")
        /\ instances' = IF IsCurrent(c) THEN Without({op.key}) ELSE instances
        /\ SameSetup /\ UNCHANGED <<plugin_locks, gate_queue, aborts>>
        /\ Go(c, Disposing([op EXCEPT !.host = None], taken, op.next), hosts)

\* remove_same_plugin_with_different_key
Outdated(k) == {j \in Warm : PluginOf[j] = PluginOf[k] /\ j # k}

\* What a cold start replaces, and what has been idle.
Clean(c) ==
    LET op == operations[c]
    IN  /\ At(c, "clean")
        /\ SameSetup /\ UNCHANGED <<plugin_locks, gate_queue, aborts>>
        /\ \E idle \in SUBSET Warm :
              LET removed == Outdated(op.key) \cup idle
              IN  /\ instances' = Without(removed)
                  /\ Go(c, Disposing(op, {instances[k] : k \in removed}, "start"), hosts)

\* ExtensionHostInstance::start, with its handshake; or it fails.
Start(c) ==
    LET op == operations[c]
    IN  /\ At(c, "start")
        /\ Same
        /\ \/ \E h \in Hosts \ Referenced :
                 Go(c, [op EXCEPT !.host = h, !.pc = "cold"], [hosts EXCEPT ![h] = Started])
           \/ Go(c, Idle, hosts)

\* The first call on a process that only the caller has ends in error.
ColdCallFails(c) ==
    LET op == operations[c]
    IN  /\ At(c, "cold")
        /\ Same
        /\ Go(c, Disposing([op EXCEPT !.host = None], {op.host}, "idle"), hosts)

\* Or it is answered: the new host enters the map, and remove_lru_over_limit_locked takes one out.
Insert(c) ==
    LET op == operations[c]
        filled == [instances EXCEPT ![op.key] = op.host]
        full == Cardinality({k \in Keys : filled[k] # None}) > max_warm_instances
    IN  /\ At(c, "cold") /\ hosts[op.host].state = "running"
        /\ SameSetup /\ UNCHANGED <<plugin_locks, gate_queue, aborts>>
        /\ \/ /\ ~full
              /\ instances' = filled
              /\ Go(c, Idle, hosts)
           \/ /\ full
              /\ \E k \in Keys :
                    /\ filled[k] # None
                    /\ instances' = [filled EXCEPT ![k] = None]
                    /\ Go(c, Disposing(op, {filled[k]}, "idle"), hosts)

-----------------------------------------------------------------------------
(* Disposing *)

\* dispose: deactivate and kill, with the process locked.
LockDisposal(c) ==
    LET op == operations[c]
    IN  /\ At(c, "dispose")
        /\ Same
        /\ \E h \in op.disposals :
              /\ hosts[h].holder = None
              /\ Go(c, [op EXCEPT !.pc = "deactivate"], [hosts EXCEPT ![h].holder = c])

FinishDisposal(c) ==
    LET op == operations[c]
    IN  /\ At(c, "deactivate")
        /\ Same
        /\ \E h \in op.disposals :
              /\ hosts[h].holder = c
              /\ Go(c, Disposing(op, op.disposals \ {h}, op.next), Killed(h))

dispose_plugin(c) ==
    LET op == operations[c]
        removed == {k \in Warm : PluginOf[k] = op.plugin}
    IN  /\ At(c, "dispose_plugin")
        /\ instances' = Without(removed)
        /\ SameSetup /\ UNCHANGED <<plugin_locks, gate_queue, aborts>>
        /\ Go(c, Disposing(op, {instances[k] : k \in removed}, "drop_guard"), hosts)

retain_plugins(c) ==
    LET op == operations[c]
        removed == {k \in Warm : PluginOf[k] \notin op.plugins}
    IN  /\ At(c, "retain")
        /\ instances' = Without(removed)
        /\ SameSetup /\ UNCHANGED <<plugin_locks, gate_queue, aborts>>
        /\ Go(c, Disposing([op EXCEPT !.plugins = {PluginOf[k] : k \in removed}],
                           {instances[k] : k \in removed}, "orphans"), hosts)

\* Only the map has the lock of p.
Orphaned(p) == Clones(plugin_locks[p]) = {}

WithoutLocks(S) == [p \in Plugins |-> IF p \in S THEN None ELSE plugin_locks[p]]

remove_plugin_lock_if_orphaned(c) ==
    LET op == operations[c]
    IN  /\ At(c, "orphans")
        /\ plugin_locks' = WithoutLocks({p \in op.plugins : Orphaned(p)})
        /\ SameSetup /\ UNCHANGED <<instances, gate_queue, aborts>>
        /\ Go(c, Idle, hosts)

dispose_idle(c) ==
    LET op == operations[c]
    IN  /\ At(c, "dispose_idle")
        /\ SameSetup /\ UNCHANGED <<plugin_locks, gate_queue, aborts>>
        /\ \E idle \in SUBSET Warm :
              /\ instances' = Without(idle)
              /\ Go(c, Disposing(op, {instances[k] : k \in idle}, "prune"), hosts)

prune_orphaned_plugin_locks(c) ==
    LET op == operations[c]
    IN  /\ At(c, "prune")
        /\ plugin_locks' =
              WithoutLocks({p \in Plugins : Orphaned(p) /\ \A k \in Warm : PluginOf[k] # p})
        /\ SameSetup /\ UNCHANGED <<instances, gate_queue, aborts>>
        /\ Go(c, Idle, hosts)

dispose_all(c) ==
    LET op == operations[c]
    IN  /\ At(c, "dispose_all")
        /\ instances' = Without(Keys)
        /\ SameSetup /\ UNCHANGED <<plugin_locks, gate_queue, aborts>>
        /\ Go(c, Disposing(op, WarmHosts, "clear"), hosts)

ClearLocks(c) ==
    /\ At(c, "clear")
    /\ plugin_locks' = WithoutLocks(Plugins)
    /\ SameSetup /\ UNCHANGED <<instances, gate_queue, aborts>>
    /\ Go(c, Idle, hosts)

-----------------------------------------------------------------------------
(* recycle_idle_processes *)

CopyInstances(c) ==
    /\ At(c, "snapshot")
    /\ Same
    /\ Go(c, [operations[c] EXCEPT !.todo = {<<k, instances[k]>> : k \in Warm}, !.pc = "pick"],
          hosts)

\* A host whose plugin has no lock in the map is passed over.
NextIdle(c) ==
    LET op == operations[c]
    IN  /\ At(c, "pick")
        /\ Same
        /\ \E x \in op.todo :
              LET lock == plugin_locks[PluginOf[x[1]]]
                  rest == [op EXCEPT !.todo = @ \ {x}]
              IN  Go(c, IF lock = None THEN rest
                        ELSE [rest EXCEPT !.key = x[1], !.plugin = PluginOf[x[1]],
                                          !.host = x[2], !.lock = lock, !.pc = "plugin"],
                     hosts)

\* The sweeper goes on with dispose_idle.
Recycled(c) ==
    LET op == operations[c]
    IN  /\ At(c, "pick") /\ op.todo = {}
        /\ gate_queue' = Append(gate_queue, c)
        /\ SameMaps /\ SameSetup /\ UNCHANGED aborts
        /\ Go(c, [Idle EXCEPT !.kind = "dispose_idle", !.pc = "gate"], hosts)

CheckCurrent(c) ==
    LET op == operations[c]
    IN  /\ At(c, "current")
        /\ Same
        /\ Go(c, IF IsCurrent(c) THEN [op EXCEPT !.pc = "recycle"] ELSE NextItem(op), hosts)

\* recycle_if_idle kills a child that is there and has been idle.
Recycle(c) ==
    LET op == operations[c]
        h == op.host
    IN  /\ At(c, "recycle")
        /\ hosts[h].holder = None
        /\ Same
        /\ \/ hosts[h].state # "killed" /\ Go(c, [op EXCEPT !.pc = "take"], Killed(h))
           \/ Go(c, NextItem(op), hosts)

TakeRecycled(c) ==
    LET op == operations[c]
    IN  /\ At(c, "take")
        /\ instances' = IF IsCurrent(c) THEN Without({op.key}) ELSE instances
        /\ SameSetup /\ UNCHANGED <<plugin_locks, gate_queue, aborts>>
        /\ Go(c, IF IsCurrent(c)
                 THEN Disposing([op EXCEPT !.host = None], {op.host}, "drop_guard")
                 ELSE NextItem(op), hosts)

-----------------------------------------------------------------------------
(* Ends in between, and the environment *)

\* What an operation holds is given back when it is dropped.
LetGo(c) ==
    [h \in Hosts |->
        IF hosts[h].holder # c THEN hosts[h]
        ELSE [hosts[h] EXCEPT !.holder = None]]

Leaves_Nobody(c) == gate_queue
Leaves(c) == RemoveFirst(gate_queue, c)

\* The future is dropped: a hook whose client leaves, or whose deadline passes where
\* nothing has to be aborted; the disposal at exit after its time limit.
Cut(c) ==
    /\ operations[c].kind \in {"hook", "dispose_all"}
    /\ gate_queue' = Leaves(c)
    /\ SameMaps /\ SameSetup /\ UNCHANGED aborts
    /\ Go(c, Idle, LetGo(c))

\* try_abort succeeds where nobody else has the process; or does not ask.
Abortable_All(c) == operations[c].disposals
Abortable(c) == {h \in operations[c].disposals : hosts[h].holder \in {None, c}}

\* The deadline of a hook passes during a call on a warm host, or while it disposes
\* others: abort_warm_instance_if_current follows for the host of the call, and
\* abort_instance for the others, in a task of its own where the process is in use.
DeadlinePasses(c) ==
    LET op == operations[c]
    IN  /\ op.kind = "hook"
        /\ op.pc \in {"process", "reply", "dispose", "deactivate"}
        /\ aborts' = aborts \cup (op.disposals \ Abortable(c))
        /\ SameMaps /\ SameSetup /\ UNCHANGED gate_queue
        /\ Go(c, IF op.host = None THEN Idle ELSE [op EXCEPT !.disposals = {}, !.pc = "abort"],
              [h \in Hosts |-> IF h \in Abortable(c) THEN Killed(h)[h] ELSE LetGo(c)[h]])

\* abort_warm_instance_if_current
AbortIfCurrent(c) ==
    LET op == operations[c]
        h == op.host
        free == hosts[h].holder = None
    IN  /\ At(c, "abort")
        /\ instances' = IF IsCurrent(c) THEN Without({op.key}) ELSE instances
        /\ aborts' = IF IsCurrent(c) /\ ~free THEN aborts \cup {h} ELSE aborts
        /\ SameSetup /\ UNCHANGED <<plugin_locks, gate_queue>>
        /\ Go(c, Idle,
              IF IsCurrent(c) /\ free THEN Killed(h) ELSE hosts)

\* The task of abort_instance.
Abort(h) ==
    /\ h \in aborts
    /\ hosts[h].holder = None
    /\ aborts' = aborts \ {h}
    /\ SameMaps /\ SameSetup /\ UNCHANGED <<gate_queue, operations>>
    /\ hosts' = [i \in Hosts |-> IF i \in Referenced' THEN Killed(h)[i] ELSE NoHost]

\* The child ends by itself.
ChildExits(h) ==
    /\ hosts[h].state = "running"
    /\ hosts' = [hosts EXCEPT ![h].state = "exited"]
    /\ Same /\ UNCHANGED operations

-----------------------------------------------------------------------------
(* The specification *)

Step(c) ==
    \/ EnterGate(c) \/ LockPlugin(c) \/ ExecuteIfRunning(c) \/ LockDisposal(c) \/ Recycle(c)
    \/ plugin_lock_for(c) \/ DropGuard(c) \/ remove_plugin_lock_if_unused(c)
    \/ FindWarm(c) \/ Replied(c) \/ RemoveIfCurrent(c) \/ Clean(c) \/ Start(c)
    \/ ColdCallFails(c) \/ Insert(c)
    \/ FinishDisposal(c) \/ dispose_plugin(c) \/ retain_plugins(c)
    \/ remove_plugin_lock_if_orphaned(c) \/ dispose_idle(c) \/ prune_orphaned_plugin_locks(c)
    \/ dispose_all(c) \/ ClearLocks(c)
    \/ CopyInstances(c) \/ NextIdle(c) \/ Recycled(c) \/ CheckCurrent(c) \/ TakeRecycled(c)
    \/ AbortIfCurrent(c)

Next ==
    \/ \E c \in Callers : Call(c)
    \/ Sweep
    \/ \E c \in Lifecycle : Retain(c) \/ Dispose(c)
    \/ \E c \in Operations : Step(c) \/ Cut(c) \/ DeadlinePasses(c)
    \/ \E h \in Hosts : Abort(h) \/ ChildExits(h)

Spec == Init /\ [][Next]_vars

-----------------------------------------------------------------------------
(* Properties *)

\* Operations on one plugin run one after the other, although its lock is removed from
\* the map and made again in between; and so a plugin has one warm host at most: a cold
\* start takes out those of other keys, while sweeps, disposals and evictions take hosts
\* and locks out of the maps.
PluginIsExclusive ==
    /\ \A c, d \in Operations :
          operations[c].guard /\ operations[d].guard
          /\ operations[c].plugin = operations[d].plugin => c = d
    /\ \A j, k \in Warm : PluginOf[j] = PluginOf[k] => j = k

\* Whoever holds the gate for writing sees every running child: it is in the map, among
\* those it disposes, or about to be aborted.  So dispose_all leaves none behind, and a
\* retain none of a plugin that it removes.
WriterSeesEveryHost ==
    \A c \in Operations :
        operations[c].gate = "write" =>
            \A h \in Hosts :
                hosts[h].state = "running" => h \in WarmHosts \cup operations[c].disposals \cup aborts

\* A child at work for one call is killed by that call only: eviction, sweeps and aborts
\* wait for it.
BusyHostIsLeftAlone ==
    [][\A c \in Operations :
          At(c, "reply") /\ operations'[c] = operations[c] =>
              hosts'[operations[c].host].state \in {hosts[operations[c].host].state, "exited"}]_vars

=============================================================================
