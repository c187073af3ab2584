------------------------ MODULE ExtensionHostsProofs ------------------------
(***************************************************************************)
(* Every state is well typed, the operations on a plugin exclude each      *)
(* other, a plugin has one warm host, whoever disposes of everything sees  *)
(* every child, and a child at work is left alone: for any sets of         *)
(* plugins, hosts and operations, any limits and any number of operations  *)
(* at a time.                                                              *)
(***************************************************************************)
EXTENDS ExtensionHosts, SequenceTheorems, TLAPS

-----------------------------------------------------------------------------
\* The inductive invariant.

\* The queue of the gate has an invariant of its own, QueueInv.
Types ==
    /\ instances \in [Keys -> Hosts \cup {None}]
    /\ plugin_locks \in [Plugins -> Locks \cup {None}]
    /\ hosts \in [Hosts -> Host]
    /\ operations \in [Operations -> Operation]
    /\ aborts \in SUBSET Hosts

\* Where an operation is, or goes on when it has disposed of hosts.
Where(op) == IF op.pc \in {"dispose", "deactivate"} THEN op.next ELSE op.pc

WritePlaces == {"retain", "orphans", "dispose_idle", "prune", "dispose_all", "clear"}
CallPlaces == {"warm", "process", "reply", "remove", "clean", "start", "cold"}
LockedPlaces ==
    {"plugin", "current", "recycle", "take", "dispose_plugin", "drop_guard", "remove_lock"}
AfterDisposal == {"clean", "start", "idle", "drop_guard", "orphans", "prune", "clear"}

\* What an operation owns where it is.
Owns(op) ==
    /\ op.gate = "none" <=> op.pc \in {"idle", "gate"}
    /\ op.gate = "write" <=> Where(op) \in WritePlaces
    /\ op.gate # "read" => op.lock = None /\ op.host = None /\ op.todo = {}
    /\ op.gate = "none" => op.disposals = {}
    /\ op.guard => op.lock # None
    /\ op.lock # None => op.plugin \in Plugins
    /\ Where(op) \in LockedPlaces => op.lock # None
    /\ Where(op) \in CallPlaces => op.guard
    /\ Where(op) \in {"plugin_lock", "snapshot", "pick"} => op.lock = None
    /\ op.pc \in {"process", "reply", "remove", "abort", "cold"} => op.host \in Hosts

\* What it is about.
Concerns(op) ==
    /\ op.kind \in {"hook", "command"} => op.key \in Keys /\ op.plugin = PluginOf[op.key]
    /\ op.kind = "dispose_plugin" => op.plugin \in Plugins
    /\ op.pc = "gate" => op.kind # "none"
    /\ op.pc = "plugin_lock" => op.kind \in {"hook", "command", "dispose_plugin"}
    /\ op.pc = "plugin" => op.kind \in {"hook", "command", "dispose_plugin", "recycle"}
    /\ Where(op) \in CallPlaces \cup {"abort"} => op.kind \in {"hook", "command"}
    /\ Where(op) \in {"snapshot", "pick", "current", "recycle", "take"} => op.kind = "recycle"
    /\ op.kind = "recycle" /\ op.pc \in {"plugin", "current", "recycle", "take"} =>
          op.host \in Hosts
    /\ op.pc = "remove" => op.next \in {"clean", "idle"}
    /\ op.pc \in {"dispose", "deactivate"} => op.next \in AfterDisposal

Sound(op) == op \in Operation /\ Owns(op) /\ Concerns(op)

OperationsAreSound == \A c \in Operations : Sound(operations[c])

\* A writer is alone behind the gate.
GateInv ==
    \A c, d \in Operations :
        operations[c].gate = "write" /\ c # d => operations[d].gate = "none"

\* A lock that somebody has is the one in the map, so that a plugin never has two.
LockInv ==
    /\ \A p, q \in Plugins : plugin_locks[p] # None /\ plugin_locks[p] = plugin_locks[q] => p = q
    /\ \A c \in Operations :
          operations[c].lock # None => plugin_locks[operations[c].plugin] = operations[c].lock
    /\ \A c, d \in Operations :
          /\ operations[c].guard /\ operations[d].guard
          /\ operations[c].lock = operations[d].lock
          => c = d

\* Between its look at the map and its own host a cold start keeps the plugin cold.
Alone(op, warm) == \A j \in warm : PluginOf[j] = op.plugin => j = op.key

WarmInv ==
    /\ \A j, k \in Warm : PluginOf[j] = PluginOf[k] => j = k
    /\ \A c \in Operations :
          Where(operations[c]) \in {"start", "cold"} => Alone(operations[c], Warm)

\* Nobody is left of a process without an owner, and a call has its process locked.
HostInv ==
    /\ \A h \in Hosts : h \notin Referenced => hosts[h] = NoHost
    /\ \A c \in Operations :
          operations[c].pc = "reply" => hosts[operations[c].host].holder = c

IInv ==
    /\ Types
    /\ OperationsAreSound
    /\ GateInv
    /\ LockInv
    /\ WarmInv
    /\ HostInv

\* A step leaves the children alone that are at work for somebody else.
Spared ==
    \A c \in Operations :
        At(c, "reply") /\ operations'[c] = operations[c] =>
            hosts'[operations[c].host].state \in {hosts[operations[c].host].state, "exited"}

-----------------------------------------------------------------------------
\* A step of one operation, part by part.

Moves(c, new) ==
    /\ operations' = [operations EXCEPT ![c] = new]
    /\ Sound(new)
    /\ \/ new.gate \in {operations[c].gate, "none"}
       \/ /\ \A d \in Operations : operations[d].gate # "write"
          /\ new.gate = "write" => \A d \in Operations : operations[d].gate = "none"

KeepsLocks(c, new) ==
    /\ plugin_locks' \in [Plugins -> Locks \cup {None}]
    /\ \A p, q \in Plugins :
          plugin_locks'[p] # None /\ plugin_locks'[p] = plugin_locks'[q] => p = q
    /\ \A d \in Operations \ {c} :
          operations[d].lock # None =>
              plugin_locks'[operations[d].plugin] = plugin_locks[operations[d].plugin]
    /\ new.lock # None => plugin_locks'[new.plugin] = new.lock
    /\ new.guard =>
          \/ operations[c].guard /\ new.lock = operations[c].lock
          \/ \A d \in Operations : operations[d].lock = new.lock => ~operations[d].guard

KeepsWarm(c, new) ==
    /\ instances' \in [Keys -> Hosts \cup {None}]
    /\ Warm' \subseteq Warm
    /\ Where(new) \in {"start", "cold"} => Alone(new, Warm')

KeepsHosts(c, new, processes) ==
    /\ aborts' \in SUBSET Hosts
    /\ hosts' = [h \in Hosts |-> IF h \in Referenced' THEN processes[h] ELSE NoHost]
    /\ processes \in [Hosts -> Host]
    /\ \A h \in Hosts : hosts[h].holder \notin {None, c} => processes[h] = hosts[h]
    /\ new.pc = "reply" => operations[c].pc # "reply" /\ processes[new.host].holder = c

LEMMA SoundKept ==
    ASSUME IInv, NEW c \in Operations, NEW new, Moves(c, new)
    PROVE  /\ operations' \in [Operations -> Operation]
           /\ OperationsAreSound'
           /\ GateInv'
           /\ operations'[c] = new
           /\ \A d \in Operations \ {c} : operations'[d] = operations[d]
<1>1. /\ operations' \in [Operations -> Operation]
      /\ operations'[c] = new
      /\ \A d \in Operations \ {c} : operations'[d] = operations[d]
  BY DEF IInv, Types, Moves, Sound
<1>2. OperationsAreSound'
  BY <1>1 DEF IInv, Moves, OperationsAreSound, Sound, Owns, Concerns, Where
<1>3. GateInv'
  BY <1>1 DEF IInv, Moves, GateInv
<1> QED
  BY <1>1, <1>2, <1>3

LEMMA LocksKept ==
    ASSUME IInv, NEW c \in Operations, NEW new, Moves(c, new), KeepsLocks(c, new)
    PROVE  LockInv'
<1>1. /\ operations'[c] = new
      /\ \A d \in Operations \ {c} : operations'[d] = operations[d]
  BY SoundKept
<1>2. ASSUME NEW d \in Operations, operations'[d].lock # None
      PROVE  plugin_locks'[operations'[d].plugin] = operations'[d].lock
  BY <1>1, <1>2 DEF IInv, LockInv, KeepsLocks
<1>3. ASSUME NEW d \in Operations, NEW e \in Operations,
             operations'[d].guard, operations'[e].guard,
             operations'[d].lock = operations'[e].lock
      PROVE  d = e
  BY <1>1, <1>3 DEF IInv, LockInv, KeepsLocks
<1> QED
  BY <1>2, <1>3 DEF KeepsLocks, LockInv

LEMMA WarmKept ==
    ASSUME IInv, NEW c \in Operations, NEW new, Moves(c, new), KeepsWarm(c, new)
    PROVE  WarmInv'
<1>1. /\ operations'[c] = new
      /\ \A d \in Operations \ {c} : operations'[d] = operations[d]
  BY SoundKept
<1>2. ASSUME NEW d \in Operations, Where(operations'[d]) \in {"start", "cold"}
      PROVE  Alone(operations'[d], Warm')
  BY <1>1, <1>2 DEF IInv, WarmInv, KeepsWarm, Alone
<1> QED
  BY <1>2 DEF IInv, WarmInv, KeepsWarm, Where, Alone

LEMMA HostsKept ==
    ASSUME IInv, ExtensionHostsAssumption, NEW c \in Operations, NEW new, NEW processes,
           Moves(c, new), KeepsHosts(c, new, processes)
    PROVE  hosts' \in [Hosts -> Host] /\ HostInv' /\ Spared
<1>1. /\ operations'[c] = new
      /\ \A d \in Operations \ {c} : operations'[d] = operations[d]
      /\ OperationsAreSound'
  BY SoundKept
<1>2. hosts' \in [Hosts -> Host]
  BY DEF KeepsHosts, NoHost, Host
<1>3. ASSUME NEW h \in Hosts, h \notin Referenced'
      PROVE  hosts'[h] = NoHost
  BY <1>3 DEF KeepsHosts
<1>4. ASSUME NEW d \in Operations, operations'[d].pc = "reply"
      PROVE  /\ operations'[d].host \in Hosts
             /\ hosts'[operations'[d].host] = processes[operations'[d].host]
  <2>1. operations'[d].host \in Hosts
    BY <1>1, <1>4 DEF OperationsAreSound, Sound, Owns
  <2>2. operations'[d].host \in HeldBy(d)'
    BY DEF HeldBy
  <2>3. operations'[d].host \in Referenced'
    BY <2>2 DEF Referenced
  <2> QED
    BY <2>1, <2>3 DEF KeepsHosts
<1>5. ASSUME NEW d \in Operations \ {c}, operations[d].pc = "reply"
      PROVE  /\ hosts'[operations[d].host] = hosts[operations[d].host]
             /\ hosts[operations[d].host].holder = d
  <2>1. /\ hosts[operations[d].host].holder = d
        /\ operations[d].host \in Hosts
    BY <1>5 DEF IInv, HostInv, OperationsAreSound, Sound, Owns
  <2>2. d # None
    BY DEF ExtensionHostsAssumption
  <2>3. hosts'[operations[d].host] = processes[operations[d].host]
    BY <1>1, <1>4, <1>5
  <2>4. processes[operations[d].host] = hosts[operations[d].host]
    BY <2>1, <2>2 DEF KeepsHosts
  <2> QED
    BY <2>1, <2>3, <2>4
<1>6. ASSUME NEW d \in Operations, operations'[d].pc = "reply"
      PROVE  hosts'[operations'[d].host].holder = d
  <2>1. CASE d = c
    BY <1>1, <1>4, <1>6, <2>1 DEF KeepsHosts
  <2>2. CASE d # c
    BY <1>1, <1>5, <1>6, <2>2
  <2> QED
    BY <2>1, <2>2
<1>7. ASSUME NEW d \in Operations, At(d, "reply"), operations'[d] = operations[d]
      PROVE  hosts'[operations[d].host].state = hosts[operations[d].host].state
  <2>1. CASE d = c
    BY <1>1, <1>7, <2>1 DEF KeepsHosts, At
  <2>2. CASE d # c
    BY <1>5, <1>7, <2>2 DEF At
  <2> QED
    BY <2>1, <2>2
<1> QED
  BY <1>2, <1>3, <1>6, <1>7 DEF HostInv, Spared

\* The parts together.
LEMMA Kept ==
    ASSUME IInv, ExtensionHostsAssumption, NEW c \in Operations, NEW new, NEW processes,
           Moves(c, new), KeepsLocks(c, new), KeepsWarm(c, new),
           KeepsHosts(c, new, processes)
    PROVE  IInv' /\ Spared
<1>1. operations' \in [Operations -> Operation] /\ OperationsAreSound' /\ GateInv'
  BY SoundKept
<1>2. hosts' \in [Hosts -> Host] /\ HostInv' /\ Spared
  BY HostsKept
<1>3. LockInv' /\ WarmInv'
  BY LocksKept, WarmKept
<1>4. Types'
  BY <1>1, <1>2 DEF Types, KeepsLocks, KeepsWarm, KeepsHosts
<1> QED
  BY <1>1, <1>2, <1>3, <1>4 DEF IInv

\* A step that takes no lock and no guard keeps the locks if it keeps the map.
LEMMA SameLock ==
    ASSUME IInv, NEW c \in Operations, NEW new, UNCHANGED plugin_locks,
           \/ new.lock = None /\ ~new.guard
           \/ /\ new.lock = operations[c].lock /\ new.plugin = operations[c].plugin
              /\ new.guard => operations[c].guard
    PROVE  KeepsLocks(c, new)
  BY DEF IInv, Types, LockInv, KeepsLocks

\* A step that only takes hosts out of the map.
LEMMA Cooler ==
    ASSUME IInv, NEW c \in Operations, NEW new,
           instances' \in [Keys -> Hosts \cup {None}],
           \A k \in Keys : instances'[k] \in {instances[k], None},
           \/ Where(new) \notin {"start", "cold"}
           \/ /\ Where(operations[c]) \in {"start", "cold"}
              /\ new.key = operations[c].key /\ new.plugin = operations[c].plugin
    PROVE  KeepsWarm(c, new)
<1>1. Warm' \subseteq Warm
  BY DEF Warm
<1> QED
  BY <1>1 DEF IInv, WarmInv, KeepsWarm, Alone

\* A step that touches no host.
LEMMA SameHosts ==
    ASSUME IInv, NEW c \in Operations, NEW new, aborts' \in SUBSET Hosts,
           Go(c, new, hosts), new.pc # "reply"
    PROVE  KeepsHosts(c, new, hosts)
  BY DEF IInv, Types, KeepsHosts, Go

-----------------------------------------------------------------------------
\* The steps.

LEMMA BeginKeeps ==
    ASSUME IInv, ExtensionHostsAssumption, NEW c \in Operations, NEW op \in Operation,
           op.gate = "none", op.lock = None, ~op.guard, op.host = None, op.disposals = {},
           op.todo = {}, op.kind # "none", Concerns(op), op.pc = "idle", Begin(c, op)
    PROVE  IInv' /\ Spared
<1> DEFINE new == [op EXCEPT !.pc = "gate"]
<1>1. Sound(new)
  <2>1. "gate" \in Places
    BY DEF Places
  <2>2. /\ new \in Operation /\ new.pc = "gate" /\ new.gate = "none" /\ new.kind = op.kind
        /\ new.key = op.key /\ new.plugin = op.plugin /\ new.lock = None /\ ~new.guard
        /\ new.host = None /\ new.todo = {} /\ new.disposals = {}
    BY <2>1 DEF Operation
  <2> HIDE DEF new
  <2> QED
    BY <2>2 DEF Sound, Owns, Concerns, Where, WritePlaces, CallPlaces, LockedPlaces
<1>2. Moves(c, new)
  BY <1>1 DEF Begin, Go, Moves, Operation
<1>3. new.lock = None /\ ~new.guard /\ new.pc = "gate"
  BY DEF Operation
<1>4. KeepsLocks(c, new)
  BY <1>3, SameLock DEF Begin, SameMaps
<1>5. KeepsWarm(c, new)
  BY <1>3, Cooler DEF Begin, SameMaps, Where, IInv, Types
<1>6. KeepsHosts(c, new, hosts)
  BY <1>3, SameHosts DEF Begin, IInv, Types
<1> QED
  BY <1>2, <1>4, <1>5, <1>6, Kept

LEMMA AnOperation ==
    ASSUME IInv, NEW c \in Operations
    PROVE  operations[c] \in Operation /\ Owns(operations[c]) /\ Concerns(operations[c])
  BY DEF IInv, OperationsAreSound, Sound

LEMMA AReader ==
    ASSUME IInv, NEW c \in Operations,
           operations[c].pc \notin {"idle", "gate", "dispose", "deactivate"} \cup WritePlaces
    PROVE  operations[c].gate = "read" /\ Where(operations[c]) = operations[c].pc
  BY AnOperation DEF Owns, Where, Operation

LEMMA IdleIsSound ==
    /\ Sound(Idle)
    /\ Idle.pc = "idle" /\ Idle.gate = "none" /\ Idle.lock = None /\ ~Idle.guard
    /\ Where(Idle) = "idle"
  BY DEF Idle, Operation, Places, Sound, Owns, Concerns, Where, WritePlaces, CallPlaces,
         LockedPlaces

\* A step that takes hosts out of the map at most, takes no lock and no gate, and starts
\* no call on a warm host.
LEMMA SimpleStep ==
    ASSUME IInv, ExtensionHostsAssumption, NEW c \in Operations, NEW new, NEW processes,
           Sound(new), new.gate \in {operations[c].gate, "none"}, new.pc # "reply",
           Go(c, new, processes), UNCHANGED plugin_locks, aborts' \in SUBSET Hosts,
           \/ new.lock = None /\ ~new.guard
           \/ /\ new.lock = operations[c].lock /\ new.plugin = operations[c].plugin
              /\ new.guard => operations[c].guard,
           instances' \in [Keys -> Hosts \cup {None}],
           \A k \in Keys : instances'[k] \in {instances[k], None},
           \/ Where(new) \notin {"start", "cold"}
           \/ /\ Where(operations[c]) \in {"start", "cold"}
              /\ new.key = operations[c].key /\ new.plugin = operations[c].plugin,
           processes \in [Hosts -> Host],
           \A h \in Hosts : hosts[h].holder \notin {None, c} => processes[h] = hosts[h]
    PROVE  IInv' /\ Spared
<1>1. Moves(c, new)
  BY DEF Go, Moves
<1>2. KeepsLocks(c, new)
  BY SameLock
<1>3. KeepsWarm(c, new)
  BY Cooler
<1>4. KeepsHosts(c, new, processes)
  BY DEF Go, KeepsHosts
<1> QED
  BY <1>1, <1>2, <1>3, <1>4, Kept

\* What is left when some keys are taken out of the map.
LEMMA WithoutSome ==
    ASSUME IInv, NEW S, instances' = Without(S) \/ UNCHANGED instances
    PROVE  /\ instances' \in [Keys -> Hosts \cup {None}]
           /\ \A k \in Keys : instances'[k] \in {instances[k], None}
  BY DEF IInv, Types, Without

\* What is left when locks are taken out of the map that nobody else has.
LEMMA WithoutSomeLocks ==
    ASSUME IInv, NEW c \in Operations, NEW new, NEW S, plugin_locks' = WithoutLocks(S),
           new.lock = None, ~new.guard,
           \A d \in Operations \ {c} : operations[d].lock # None => operations[d].plugin \notin S
    PROVE  KeepsLocks(c, new)
<1>1. ASSUME NEW d \in Operations \ {c}, operations[d].lock # None
      PROVE  plugin_locks'[operations[d].plugin] = plugin_locks[operations[d].plugin]
  <2>1. operations[d].plugin \in Plugins
    BY <1>1, AnOperation DEF Owns
  <2> QED
    BY <1>1, <2>1 DEF WithoutLocks
<1>2. plugin_locks' \in [Plugins -> Locks \cup {None}]
  BY DEF IInv, Types, WithoutLocks
<1>3. \A p, q \in Plugins :
         plugin_locks'[p] # None /\ plugin_locks'[p] = plugin_locks'[q] => p = q
  BY DEF IInv, LockInv, WithoutLocks
<1> QED
  BY <1>1, <1>2, <1>3 DEF KeepsLocks

\* An operation goes on to dispose of hosts, or right on at next.
LEMMA DisposingIs ==
    ASSUME NEW op \in Operation, NEW S \in SUBSET Hosts, NEW next \in AfterDisposal
    PROVE  \/ next = "idle" /\ Disposing(op, S, next) = Idle
           \/ /\ Disposing(op, S, next) \in Operation
              /\ \/ Disposing(op, S, next).pc = "dispose" /\ Disposing(op, S, next).next = next
                 \/ Disposing(op, S, next).pc = next /\ next # "idle"
              /\ Disposing(op, S, next).kind = op.kind
              /\ Disposing(op, S, next).gate = op.gate
              /\ Disposing(op, S, next).key = op.key
              /\ Disposing(op, S, next).plugin = op.plugin
              /\ Disposing(op, S, next).lock = op.lock
              /\ Disposing(op, S, next).guard = op.guard
              /\ Disposing(op, S, next).host = op.host
              /\ Disposing(op, S, next).todo = op.todo
<1>0. {next, "idle", "dispose"} \subseteq Places
  BY DEF AfterDisposal, Places
<1>1. CASE S = {} /\ next = "idle"
  BY <1>1 DEF Disposing
<1>2. CASE S = {} /\ next # "idle"
  <2>1. Disposing(op, S, next) = [op EXCEPT !.disposals = {}, !.next = "idle", !.pc = next]
    BY <1>2 DEF Disposing
  <2> QED
    BY <1>0, <1>2, <2>1 DEF Operation
<1>3. CASE S # {}
  <2>1. Disposing(op, S, next) = [op EXCEPT !.disposals = S, !.next = next, !.pc = "dispose"]
    BY <1>3 DEF Disposing
  <2> QED
    BY <1>0, <1>3, <2>1 DEF Operation
<1> QED
  BY <1>1, <1>2, <1>3

LEMMA DisposingKeeps ==
    ASSUME IInv, ExtensionHostsAssumption, NEW c \in Operations, NEW op \in Operation,
           NEW S \in SUBSET Hosts, NEW next \in AfterDisposal, NEW processes,
           op.gate = operations[c].gate, op.gate # "none",
           op.kind = operations[c].kind, op.key = operations[c].key,
           op.plugin = operations[c].plugin, op.lock = operations[c].lock,
           op.guard = operations[c].guard, op.todo = operations[c].todo,
           op.host \in {operations[c].host, None},
           op.gate = "write" <=> next \in WritePlaces,
           next = "drop_guard" => op.lock # None,
           next \in {"clean", "start"} => op.guard /\ op.kind \in {"hook", "command"},
           next = "start" =>
               \/ Where(operations[c]) = "start"
               \/ \A j \in Warm' : PluginOf[j] = PluginOf[op.key] => j = op.key,
           Go(c, Disposing(op, S, next), processes),
           UNCHANGED plugin_locks, aborts' \in SUBSET Hosts,
           instances' \in [Keys -> Hosts \cup {None}],
           \A k \in Keys : instances'[k] \in {instances[k], None},
           processes \in [Hosts -> Host],
           \A h \in Hosts : hosts[h].holder \notin {None, c} => processes[h] = hosts[h]
    PROVE  IInv' /\ Spared
<1> DEFINE new == Disposing(op, S, next)
<1>1. CASE next = "idle" /\ new = Idle
  BY <1>1, IdleIsSound, SimpleStep
<1>2. CASE ~(next = "idle" /\ new = Idle)
  <2>1. /\ new \in Operation
        /\ \/ new.pc = "dispose" /\ new.next = next
           \/ new.pc = next /\ next # "idle"
        /\ new.kind = op.kind /\ new.gate = op.gate /\ new.key = op.key
        /\ new.plugin = op.plugin /\ new.lock = op.lock /\ new.guard = op.guard
        /\ new.host = op.host /\ new.todo = op.todo
    BY <1>2, DisposingIs
  <2> HIDE DEF new
  <2>2. Where(new) = next /\ new.pc \in (AfterDisposal \ {"idle"}) \cup {"dispose"}
    BY <2>1 DEF Where, AfterDisposal
  <2>3. Owns(operations[c]) /\ Concerns(operations[c])
    BY AnOperation
  <2>4. Owns(new)
    BY <2>1, <2>2, <2>3 DEF Owns, AfterDisposal, LockedPlaces, CallPlaces, WritePlaces
  <2>5. Concerns(new)
    BY <2>1, <2>2, <2>3 DEF Concerns, AfterDisposal, CallPlaces
  <2>6. Sound(new)
    BY <2>1, <2>4, <2>5 DEF Sound
  <2>7. Moves(c, new)
    BY <2>1, <2>6 DEF Go, Moves, new
  <2>8. KeepsLocks(c, new)
    BY <2>1, SameLock
  <2>9. KeepsWarm(c, new)
    <3>1. CASE next # "start" \/ Where(operations[c]) = "start"
      BY <2>1, <2>2, <3>1, Cooler DEF AfterDisposal
    <3>2. CASE next = "start" /\ \A j \in Warm' : PluginOf[j] = PluginOf[op.key] => j = op.key
      <4>1. Warm' \subseteq Warm
        BY DEF Warm
      <4>2. new.plugin = PluginOf[new.key]
        BY <2>1, <2>3, <3>2 DEF Concerns
      <4> QED
        BY <2>1, <3>2, <4>1, <4>2 DEF KeepsWarm, Alone
    <3> QED
      BY <3>1, <3>2
  <2>10. KeepsHosts(c, new, processes)
    BY <2>2 DEF Go, KeepsHosts, AfterDisposal, new
  <2> QED
    BY <2>7, <2>8, <2>9, <2>10, Kept
<1> QED
  BY <1>1, <1>2

LEMMA EnterGateKeeps ==
    ASSUME IInv, ExtensionHostsAssumption, NEW c \in Operations, EnterGate(c)
    PROVE  IInv' /\ Spared
<1> DEFINE op == operations[c]
           gate == IF Exclusive(op.kind) THEN "write" ELSE "read"
           place == FirstPlace(op.kind)
           new == [op EXCEPT !.gate = gate, !.pc = place]
<1>1. op \in Operation /\ Owns(op) /\ Concerns(op) /\ op.pc = "gate"
  BY AnOperation DEF EnterGate, At
<1>2. /\ FirstPlace(op.kind) \in
            {"plugin_lock", "snapshot", "retain", "dispose_idle", "dispose_all"}
      /\ gate \in {"read", "write"}
      /\ gate = "write" <=> FirstPlace(op.kind) \in {"retain", "dispose_idle", "dispose_all"}
      /\ FirstPlace(op.kind) = "plugin_lock" =>
            op.kind \in {"hook", "command", "dispose_plugin"}
      /\ FirstPlace(op.kind) = "snapshot" => op.kind = "recycle"
  <2>1. op.kind \in {"hook", "command", "dispose_plugin", "retain", "dispose_all", "recycle",
                     "dispose_idle"}
    BY <1>1 DEF Operation, Concerns
  <2>2. CASE op.kind \in {"hook", "command", "dispose_plugin"}
    BY <2>2 DEF FirstPlace, Exclusive
  <2>3. CASE op.kind = "recycle"
    BY <2>3 DEF FirstPlace, Exclusive
  <2>4. CASE op.kind \in {"retain", "dispose_idle", "dispose_all"}
    BY <2>4 DEF FirstPlace, Exclusive
  <2> QED
    BY <2>1, <2>2, <2>3, <2>4
<1> HIDE DEF gate, place
<1>3. /\ new \in Operation
      /\ new.pc = place /\ new.gate = gate /\ new.kind = op.kind
      /\ new.key = op.key /\ new.plugin = op.plugin
      /\ new.lock = None /\ new.guard = FALSE /\ new.host = None /\ new.todo = {}
  <2>1. place \in Places
    BY <1>2 DEF Places, place
  <2>2. op.lock = None /\ op.guard = FALSE /\ op.host = None /\ op.todo = {}
    BY <1>1 DEF Operation, Owns
  <2> HIDE DEF op, place
  <2> QED
    BY <1>1, <1>2, <2>1, <2>2 DEF Operation
<1>4. operations' = [operations EXCEPT ![c] = new]
  BY DEF EnterGate, Go, gate, place
<1>5. KeepsHosts(c, new, hosts)
  BY <1>2, <1>3, SameHosts DEF EnterGate, gate, place, IInv, Types
<1> HIDE DEF new
<1>6. Owns(new)
  BY <1>2, <1>3 DEF Owns, Where, LockedPlaces, CallPlaces, WritePlaces, place
<1>7. Concerns(new)
  BY <1>1, <1>2, <1>3 DEF Concerns, Where, CallPlaces, place
<1>8. GateOpens(op.kind) /\ (gate = "write" => Exclusive(op.kind))
  BY DEF EnterGate, gate
<1>9. Moves(c, new)
  BY <1>3, <1>4, <1>6, <1>7, <1>8 DEF GateOpens, Moves, Sound
<1>10. KeepsLocks(c, new)
  BY <1>3, SameLock DEF EnterGate, SameMaps
<1>11. KeepsWarm(c, new)
  <2>1. Where(new) \notin {"start", "cold"}
    BY <1>2, <1>3 DEF Where, place
  <2> QED
    BY <2>1, Cooler DEF EnterGate, SameMaps, IInv, Types
<1> QED
  BY <1>5, <1>9, <1>10, <1>11, Kept

LEMMA plugin_lock_for_Keeps ==
    ASSUME IInv, ExtensionHostsAssumption, NEW c \in Operations, plugin_lock_for(c)
    PROVE  IInv' /\ Spared
<1> DEFINE op == operations[c]
<1>1. op \in Operation /\ Owns(op) /\ Concerns(op) /\ op.pc = "plugin_lock"
  BY AnOperation DEF plugin_lock_for, At
<1>2. op.plugin \in Plugins /\ op.gate = "read" /\ op.lock = None /\ op.guard = FALSE
  <2>1. op.plugin \in Plugins
    BY <1>1 DEF Concerns, ExtensionHostsAssumption
  <2> QED
    BY <1>1, <2>1 DEF Owns, Operation, Where, WritePlaces
<1>3. PICK l \in IF plugin_locks[op.plugin] = None THEN Unowned ELSE {plugin_locks[op.plugin]} :
        /\ plugin_locks' = [plugin_locks EXCEPT ![op.plugin] = l]
        /\ Go(c, [op EXCEPT !.lock = l, !.pc = "plugin"], hosts)
  BY DEF plugin_lock_for
<1> DEFINE new == [op EXCEPT !.lock = l, !.pc = "plugin"]
<1>4. l \in Locks /\ l # None
  BY <1>2, <1>3 DEF Unowned, IInv, Types, ExtensionHostsAssumption
<1>5. /\ new \in Operation
      /\ new.pc = "plugin" /\ new.gate = "read" /\ new.kind = op.kind
      /\ new.key = op.key /\ new.plugin = op.plugin
      /\ new.lock = l /\ new.guard = FALSE
  <2>1. "plugin" \in Places
    BY DEF Places
  <2> HIDE DEF op
  <2> QED
    BY <1>1, <1>2, <1>4, <2>1 DEF Operation
<1>6. Go(c, new, hosts)
  BY <1>3
<1> HIDE DEF new
<1>7. Owns(new)
  BY <1>2, <1>4, <1>5 DEF Owns, Where, LockedPlaces, CallPlaces, WritePlaces
<1>8. Concerns(new)
  BY <1>1, <1>5 DEF Concerns, Where, CallPlaces
<1>9. Moves(c, new)
  BY <1>2, <1>5, <1>6, <1>7, <1>8 DEF Go, Moves, Sound
<1>10. KeepsLocks(c, new)
  <2>1. plugin_locks' \in [Plugins -> Locks \cup {None}]
    BY <1>3, <1>4 DEF IInv, Types
  <2>2. plugin_locks'[op.plugin] = l /\ \A p \in Plugins \ {op.plugin} :
                                           plugin_locks'[p] = plugin_locks[p]
    BY <1>2, <1>3 DEF IInv, Types
  <2>3. \A p \in Plugins \ {op.plugin} : plugin_locks[p] # l
    BY <1>2, <1>3, <1>4 DEF Unowned, IInv, LockInv
  <2>4. ASSUME NEW p \in Plugins, NEW q \in Plugins, plugin_locks'[p] # None,
               plugin_locks'[p] = plugin_locks'[q]
        PROVE  p = q
    BY <2>2, <2>3, <2>4 DEF IInv, LockInv
  <2>5. ASSUME NEW d \in Operations \ {c}, operations[d].lock # None
        PROVE  plugin_locks'[operations[d].plugin] = plugin_locks[operations[d].plugin]
    <3>1. operations[d].plugin \in Plugins
      BY <2>5, AnOperation DEF Owns
    <3>2. plugin_locks[operations[d].plugin] = operations[d].lock
      BY <2>5 DEF IInv, LockInv
    <3> QED
      BY <1>3, <2>2, <2>5, <3>1, <3>2
  <2> QED
    BY <1>5, <2>1, <2>2, <2>4, <2>5 DEF KeepsLocks
<1>11. KeepsWarm(c, new)
  BY <1>5, Cooler DEF plugin_lock_for, Where, IInv, Types
<1>12. KeepsHosts(c, new, hosts)
  BY <1>5, <1>6, SameHosts DEF plugin_lock_for, IInv, Types
<1> QED
  BY <1>9, <1>10, <1>11, <1>12, Kept

LEMMA LockPluginKeeps ==
    ASSUME IInv, ExtensionHostsAssumption, NEW c \in Operations, LockPlugin(c)
    PROVE  IInv' /\ Spared
<1> DEFINE op == operations[c]
<1>1. op \in Operation /\ Owns(op) /\ Concerns(op) /\ op.pc = "plugin"
  BY AnOperation DEF LockPlugin, At
<1>2. op.gate = "read" /\ Where(op) = "plugin"
  BY <1>1, AReader DEF WritePlaces
<1>3. op.lock # None
  BY <1>1, <1>2 DEF Owns, LockedPlaces
<1> DEFINE place == CASE op.kind = "recycle" -> "current"
                      [] op.kind = "dispose_plugin" -> "dispose_plugin"
                      [] OTHER -> "warm"
           new == [op EXCEPT !.guard = TRUE, !.pc = place]
<1>4. /\ op.kind \in {"hook", "command", "dispose_plugin", "recycle"}
      /\ place \in {"current", "dispose_plugin", "warm"}
      /\ place = "current" => op.kind = "recycle"
      /\ place = "warm" => op.kind \in {"hook", "command"}
  BY <1>1 DEF Concerns
<1>5. Go(c, new, hosts)
  BY DEF LockPlugin
<1> HIDE DEF place
<1>6. /\ new \in Operation
      /\ new.pc = place /\ new.gate = "read" /\ new.kind = op.kind
      /\ new.key = op.key /\ new.plugin = op.plugin /\ new.host = op.host
      /\ new.lock = op.lock /\ new.guard = TRUE
  <2>1. place \in Places
    BY <1>4 DEF Places
  <2> HIDE DEF op
  <2> QED
    BY <1>1, <1>2, <2>1 DEF Operation
<1> HIDE DEF new
<1>7. Sound(new)
  BY <1>1, <1>3, <1>4, <1>6 DEF Sound, Owns, Concerns, Where, WritePlaces, CallPlaces,
                                LockedPlaces
<1>8. Moves(c, new)
  BY <1>2, <1>5, <1>6, <1>7 DEF Go, Moves
<1>9. KeepsLocks(c, new)
  <2>1. \A d \in Operations : operations[d].lock = op.lock => ~operations[d].guard
    BY DEF LockPlugin, Clones
  <2> QED
    BY <1>3, <1>6, <2>1 DEF LockPlugin, Same, SameMaps, KeepsLocks, IInv, Types, LockInv
<1>10. KeepsWarm(c, new)
  BY <1>4, <1>6, Cooler DEF LockPlugin, Same, SameMaps, Where, IInv, Types
<1>11. KeepsHosts(c, new, hosts)
  BY <1>4, <1>5, <1>6, SameHosts DEF LockPlugin, Same, IInv, Types
<1> QED
  BY <1>8, <1>9, <1>10, <1>11, Kept

LEMMA DropGuardKeeps ==
    ASSUME IInv, ExtensionHostsAssumption, NEW c \in Operations, DropGuard(c)
    PROVE  IInv' /\ Spared
<1> DEFINE op == operations[c]
<1>1. op \in Operation /\ Owns(op) /\ Concerns(op) /\ op.pc = "drop_guard"
  BY AnOperation DEF DropGuard, At
<1>2. op.gate = "read" /\ Where(op) = "drop_guard"
  BY <1>1, AReader DEF WritePlaces
<1> DEFINE new == [op EXCEPT !.guard = FALSE, !.pc = "remove_lock"]
<1>3. Go(c, new, hosts)
  BY DEF DropGuard
<1>4. /\ new \in Operation
      /\ new.pc = "remove_lock" /\ new.gate = "read" /\ new.kind = op.kind
      /\ new.key = op.key /\ new.plugin = op.plugin /\ new.host = op.host
      /\ new.lock = op.lock /\ new.guard = FALSE
  <2>1. "remove_lock" \in Places
    BY DEF Places
  <2> HIDE DEF op
  <2> QED
    BY <1>1, <1>2, <2>1 DEF Operation
<1> HIDE DEF new
<1>5. Sound(new)
  BY <1>1, <1>2, <1>4 DEF Sound, Owns, Concerns, Where, WritePlaces, CallPlaces, LockedPlaces
<1> QED
  BY <1>2, <1>3, <1>4, <1>5, SimpleStep DEF DropGuard, Same, SameMaps, Where, IInv, Types

LEMMA NextItemIs ==
    ASSUME NEW op \in Operation, Owns(op), Concerns(op), op.gate = "read", op.kind = "recycle"
    PROVE  /\ Sound(NextItem(op))
           /\ NextItem(op).pc = "pick" /\ NextItem(op).gate = "read"
           /\ NextItem(op).lock = None /\ ~NextItem(op).guard
           /\ Where(NextItem(op)) = "pick"
<1> DEFINE new == NextItem(op)
<1>1. /\ new \in Operation
      /\ new.pc = "pick" /\ new.gate = "read" /\ new.kind = "recycle"
      /\ new.lock = None /\ new.guard = FALSE /\ new.host = None
  <2>1. "pick" \in Places
    BY DEF Places
  <2> QED
    BY <2>1 DEF Operation, NextItem
<1> HIDE DEF new
<1>2. Sound(new)
  BY <1>1 DEF Sound, Owns, Concerns, Where, WritePlaces, CallPlaces, LockedPlaces
<1> QED
  BY <1>1, <1>2 DEF new, Where

LEMMA remove_plugin_lock_if_unused_Keeps ==
    ASSUME IInv, ExtensionHostsAssumption, NEW c \in Operations, remove_plugin_lock_if_unused(c)
    PROVE  IInv' /\ Spared
<1> DEFINE op == operations[c]
<1>1. op \in Operation /\ Owns(op) /\ Concerns(op) /\ op.pc = "remove_lock"
  BY AnOperation DEF remove_plugin_lock_if_unused, At
<1>2. op.gate = "read" /\ Where(op) = "remove_lock"
  BY <1>1, AReader DEF WritePlaces
<1> DEFINE new == IF op.kind = "recycle" THEN NextItem(op) ELSE Idle
<1>3. Go(c, new, hosts)
  BY DEF remove_plugin_lock_if_unused
<1>4. /\ Sound(new) /\ new.gate \in {"read", "none"} /\ new.pc # "reply"
      /\ new.lock = None /\ ~new.guard /\ Where(new) \notin {"start", "cold"}
  BY <1>1, <1>2, NextItemIs, IdleIsSound
<1> HIDE DEF new
<1>5. Moves(c, new)
  BY <1>2, <1>3, <1>4 DEF Go, Moves
<1>6. KeepsLocks(c, new)
  <2>1. CASE plugin_locks[op.plugin] = op.lock /\ Unused(c)
    <3>1. plugin_locks' = WithoutLocks({op.plugin})
      BY <1>1, <2>1 DEF remove_plugin_lock_if_unused, WithoutLocks, IInv, Types
    <3>2. ASSUME NEW d \in Operations \ {c}, operations[d].lock # None
          PROVE  operations[d].plugin \notin {op.plugin}
      BY <2>1, <3>2 DEF IInv, LockInv, Unused, Clones
    <3> QED
      BY <1>4, <3>1, <3>2, WithoutSomeLocks
  <2>2. CASE ~(plugin_locks[op.plugin] = op.lock /\ Unused(c))
    BY <1>4, <2>2, SameLock DEF remove_plugin_lock_if_unused
  <2> QED
    BY <2>1, <2>2
<1>7. KeepsWarm(c, new)
  BY <1>4, Cooler DEF remove_plugin_lock_if_unused, IInv, Types
<1>8. KeepsHosts(c, new, hosts)
  BY <1>3, <1>4, SameHosts DEF remove_plugin_lock_if_unused, IInv, Types
<1> QED
  BY <1>5, <1>6, <1>7, <1>8, Kept

LEMMA FindWarmKeeps ==
    ASSUME IInv, ExtensionHostsAssumption, NEW c \in Operations, FindWarm(c)
    PROVE  IInv' /\ Spared
<1> DEFINE op == operations[c]
<1>1. op \in Operation /\ Owns(op) /\ Concerns(op) /\ op.pc = "warm"
  BY AnOperation DEF FindWarm, At
<1>2. op.gate = "read" /\ Where(op) = "warm"
  BY <1>1, AReader DEF WritePlaces
<1> DEFINE h == instances[op.key]
           new == IF h = None THEN [op EXCEPT !.pc = "clean"]
                  ELSE [op EXCEPT !.host = h, !.pc = "process"]
<1>3. Go(c, new, hosts)
  BY DEF FindWarm
<1>4. op.key \in Keys /\ op.kind \in {"hook", "command"} /\ h \in Hosts \cup {None}
  BY <1>1, <1>2 DEF Concerns, CallPlaces, IInv, Types
<1> HIDE DEF h
<1>5. /\ new \in Operation
      /\ new.pc = IF h = None THEN "clean" ELSE "process"
      /\ new.host = IF h = None THEN op.host ELSE h
      /\ new.gate = "read" /\ new.kind = op.kind
      /\ new.key = op.key /\ new.plugin = op.plugin
      /\ new.lock = op.lock /\ new.guard = op.guard
  <2>1. {"clean", "process"} \subseteq Places
    BY DEF Places
  <2> HIDE DEF op
  <2> QED
    BY <1>1, <1>2, <1>4, <2>1 DEF Operation
<1> HIDE DEF new
<1>6. Sound(new)
  BY <1>1, <1>2, <1>4, <1>5 DEF Sound, Owns, Concerns, Where, WritePlaces, CallPlaces,
                                LockedPlaces
<1> QED
  BY <1>2, <1>3, <1>5, <1>6, SimpleStep DEF FindWarm, Same, SameMaps, Where, IInv, Types

LEMMA ExecuteIfRunningKeeps ==
    ASSUME IInv, ExtensionHostsAssumption, NEW c \in Operations, ExecuteIfRunning(c)
    PROVE  IInv' /\ Spared
<1> DEFINE op == operations[c]
<1>1. op \in Operation /\ Owns(op) /\ Concerns(op) /\ op.pc = "process"
  BY AnOperation DEF ExecuteIfRunning, At
<1>2. op.gate = "read" /\ Where(op) = "process"
  BY <1>1, AReader DEF WritePlaces
<1> DEFINE h == op.host
           place == IF hosts[h].state = "running" THEN "reply" ELSE "remove"
           next == IF hosts[h].state = "running" THEN op.next ELSE "clean"
           processes == IF hosts[h].state = "running"
                        THEN [hosts EXCEPT ![h].holder = c] ELSE hosts
           new == [op EXCEPT !.pc = place, !.next = next]
<1>3. /\ h \in Hosts /\ hosts[h].holder = None
      /\ op.guard /\ op.kind \in {"hook", "command"} /\ hosts \in [Hosts -> Host]
  BY <1>1, <1>2 DEF ExecuteIfRunning, Owns, Concerns, CallPlaces, IInv, Types
<1>4. Go(c, new, processes)
  <2>1. [op EXCEPT !.pc = "reply"] = [op EXCEPT !.pc = "reply", !.next = op.next]
    BY <1>1 DEF Operation
  <2> QED
    BY <2>1 DEF ExecuteIfRunning
<1>5. processes \in [Hosts -> Host] /\ (place = "reply" => processes[h].holder = c)
  BY <1>3 DEF Host
<1>6. \A g \in Hosts : hosts[g].holder \notin {None, c} => processes[g] = hosts[g]
  BY <1>3
<1>7. place \in {"reply", "remove"} /\ (place = "remove" => next = "clean")
  OBVIOUS
<1> HIDE DEF processes
<1>8. /\ new \in Operation
      /\ new.pc = place /\ new.next = next /\ new.host = h
      /\ new.gate = "read" /\ new.kind = op.kind
      /\ new.key = op.key /\ new.plugin = op.plugin
      /\ new.lock = op.lock /\ new.guard = op.guard
  <2>1. {place, next} \subseteq Places
    BY <1>1, <1>7 DEF Places, Operation
  <2> HIDE DEF op, place, next
  <2> QED
    BY <1>1, <1>2, <2>1 DEF Operation, h
<1> HIDE DEF new, place, next
<1>9. Sound(new)
  BY <1>1, <1>3, <1>7, <1>8 DEF Sound, Owns, Concerns, Where, WritePlaces, CallPlaces,
                                LockedPlaces
<1>10. Moves(c, new)
  BY <1>2, <1>4, <1>8, <1>9 DEF Go, Moves
<1>11. KeepsLocks(c, new)
  BY <1>8, SameLock DEF ExecuteIfRunning, Same, SameMaps
<1>12. KeepsWarm(c, new)
  BY <1>7, <1>8, Cooler DEF ExecuteIfRunning, Same, SameMaps, Where, IInv, Types
<1>13. KeepsHosts(c, new, processes)
  BY <1>1, <1>4, <1>5, <1>6, <1>8 DEF ExecuteIfRunning, Same, Go, KeepsHosts, IInv, Types
<1> QED
  BY <1>10, <1>11, <1>12, <1>13, Kept

LEMMA RepliedKeeps ==
    ASSUME IInv, ExtensionHostsAssumption, NEW c \in Operations, Replied(c)
    PROVE  IInv' /\ Spared
<1> DEFINE op == operations[c]
<1>1. op \in Operation /\ Owns(op) /\ Concerns(op) /\ op.pc = "reply"
  BY AnOperation DEF Replied, At
<1>2. op.gate = "read" /\ Where(op) = "reply"
  BY <1>1, AReader DEF WritePlaces
<1> DEFINE h == op.host
<1>3. /\ h \in Hosts /\ hosts[h].holder = c
      /\ op.guard /\ op.kind \in {"hook", "command"} /\ hosts \in [Hosts -> Host]
  BY <1>1, <1>2 DEF Owns, Concerns, CallPlaces, IInv, Types, HostInv
<1> DEFINE Rest == /\ UNCHANGED plugin_locks /\ aborts' \in SUBSET Hosts
                   /\ instances' \in [Keys -> Hosts \cup {None}]
                   /\ \A k \in Keys : instances'[k] \in {instances[k], None}
<1>0. Rest
  BY DEF Replied, Same, SameMaps, IInv, Types
<1>4. CASE Go(c, Idle, [hosts EXCEPT ![h].holder = None])
  <2> DEFINE processes == [hosts EXCEPT ![h].holder = None]
  <2>1. /\ processes \in [Hosts -> Host]
        /\ \A g \in Hosts : hosts[g].holder \notin {None, c} => processes[g] = hosts[g]
    BY <1>3 DEF Host
  <2>2. Go(c, Idle, processes)
    BY <1>4
  <2> HIDE DEF processes
  <2> QED
    BY <1>0, <2>1, <2>2, IdleIsSound, SimpleStep
<1>5. ASSUME NEW state \in {hosts[h].state, "killed"},
             Go(c, [op EXCEPT !.pc = "remove", !.next = "idle"],
                [hosts EXCEPT ![h].state = state, ![h].holder = None])
      PROVE  IInv' /\ Spared
  <2> DEFINE processes == [hosts EXCEPT ![h].state = state, ![h].holder = None]
             new == [op EXCEPT !.pc = "remove", !.next = "idle"]
  <2>1. /\ processes \in [Hosts -> Host]
        /\ \A g \in Hosts : hosts[g].holder \notin {None, c} => processes[g] = hosts[g]
    BY <1>3, <1>5 DEF Host
  <2>2. /\ new \in Operation
        /\ new.pc = "remove" /\ new.next = "idle" /\ new.host = h
        /\ new.gate = "read" /\ new.kind = op.kind
        /\ new.key = op.key /\ new.plugin = op.plugin
        /\ new.lock = op.lock /\ new.guard = op.guard
    <3>1. {"remove", "idle"} \subseteq Places
      BY DEF Places
    <3> HIDE DEF op
    <3> QED
      BY <1>1, <1>2, <3>1 DEF Operation, h
  <2>3. Go(c, new, processes)
    BY <1>5
  <2> HIDE DEF processes, new
  <2>4. Sound(new)
    BY <1>1, <1>3, <2>2 DEF Sound, Owns, Concerns, Where, WritePlaces, CallPlaces, LockedPlaces
  <2> QED
    BY <1>0, <1>2, <2>1, <2>2, <2>3, <2>4, SimpleStep DEF Where
<1> QED
  BY <1>4, <1>5 DEF Replied

LEMMA RemoveIfCurrentKeeps ==
    ASSUME IInv, ExtensionHostsAssumption, NEW c \in Operations, RemoveIfCurrent(c)
    PROVE  IInv' /\ Spared
<1> DEFINE op == operations[c]
<1>1. op \in Operation /\ Owns(op) /\ Concerns(op) /\ op.pc = "remove"
  BY AnOperation DEF RemoveIfCurrent, At
<1>2. op.gate = "read" /\ Where(op) = "remove"
  BY <1>1, AReader DEF WritePlaces
<1> DEFINE S == IF IsCurrent(c) THEN {op.host} ELSE {}
           rest == [op EXCEPT !.host = None]
<1>3. /\ op.host \in Hosts /\ op.next \in {"clean", "idle"}
      /\ op.guard /\ op.kind \in {"hook", "command"} /\ hosts \in [Hosts -> Host]
  BY <1>1, <1>2 DEF Owns, Concerns, CallPlaces, IInv, Types
<1>4. /\ rest \in Operation
      /\ rest.gate = op.gate /\ rest.kind = op.kind /\ rest.key = op.key
      /\ rest.plugin = op.plugin /\ rest.lock = op.lock /\ rest.guard = op.guard
      /\ rest.todo = op.todo /\ rest.host = None
  BY <1>1 DEF Operation
<1>5. Go(c, Disposing(rest, S, op.next), hosts) /\ S \in SUBSET Hosts
  BY <1>3 DEF RemoveIfCurrent
<1>6. /\ instances' \in [Keys -> Hosts \cup {None}]
      /\ \A k \in Keys : instances'[k] \in {instances[k], None}
  BY WithoutSome DEF RemoveIfCurrent
<1>7. UNCHANGED plugin_locks /\ aborts' \in SUBSET Hosts
  BY DEF RemoveIfCurrent, IInv, Types
<1>8. /\ op.next \in AfterDisposal /\ op.next \notin {"start", "drop_guard"}
      /\ rest.gate # "none" /\ ~(rest.gate = "write") /\ op.next \notin WritePlaces
  BY <1>2, <1>3, <1>4 DEF AfterDisposal, WritePlaces
<1> HIDE DEF S, rest
<1>9. CASE op.next = "clean"
  BY <1>3, <1>4, <1>5, <1>6, <1>7, <1>8, <1>9, DisposingKeeps
<1>10. CASE op.next = "idle"
  BY <1>3, <1>4, <1>5, <1>6, <1>7, <1>8, <1>10, DisposingKeeps
<1> QED
  BY <1>3, <1>9, <1>10

LEMMA CleanKeeps ==
    ASSUME IInv, ExtensionHostsAssumption, NEW c \in Operations, Clean(c)
    PROVE  IInv' /\ Spared
<1> DEFINE op == operations[c]
<1>1. op \in Operation /\ Owns(op) /\ Concerns(op) /\ op.pc = "clean"
  BY AnOperation DEF Clean, At
<1>2. op.gate = "read" /\ Where(op) = "clean"
  BY <1>1, AReader DEF WritePlaces
<1>3. /\ op.guard /\ op.kind \in {"hook", "command"} /\ hosts \in [Hosts -> Host]
      /\ UNCHANGED plugin_locks /\ aborts' \in SUBSET Hosts
  BY <1>1, <1>2 DEF Owns, Concerns, CallPlaces, IInv, Types, Clean
<1>4. PICK idle \in SUBSET Warm :
        /\ instances' = Without(Outdated(op.key) \cup idle)
        /\ Go(c, Disposing(op, {instances[k] : k \in Outdated(op.key) \cup idle}, "start"), hosts)
  BY DEF Clean
<1> DEFINE removed == Outdated(op.key) \cup idle
           S == {instances[k] : k \in removed}
<1>5. S \in SUBSET Hosts
  BY DEF Outdated, Warm, IInv, Types
<1>6. /\ instances' \in [Keys -> Hosts \cup {None}]
      /\ \A k \in Keys : instances'[k] \in {instances[k], None}
  BY <1>4, WithoutSome
<1>7. \A j \in Warm' : PluginOf[j] = PluginOf[op.key] => j = op.key
  BY <1>4 DEF Warm, Without, Outdated
<1>8. Go(c, Disposing(op, S, "start"), hosts)
  BY <1>4
<1> HIDE DEF S
<1> QED
  BY <1>1, <1>2, <1>3, <1>5, <1>6, <1>7, <1>8, DisposingKeeps DEF AfterDisposal, WritePlaces

LEMMA StartKeeps ==
    ASSUME IInv, ExtensionHostsAssumption, NEW c \in Operations, Start(c)
    PROVE  IInv' /\ Spared
<1> DEFINE op == operations[c]
<1>1. op \in Operation /\ Owns(op) /\ Concerns(op) /\ op.pc = "start"
  BY AnOperation DEF Start, At
<1>2. op.gate = "read" /\ Where(op) = "start"
  BY <1>1, AReader DEF WritePlaces
<1> DEFINE Rest == /\ UNCHANGED plugin_locks /\ aborts' \in SUBSET Hosts
                   /\ instances' \in [Keys -> Hosts \cup {None}]
                   /\ \A k \in Keys : instances'[k] \in {instances[k], None}
<1>0. Rest
  BY DEF Start, Same, SameMaps, IInv, Types
<1>3. CASE Go(c, Idle, hosts)
  BY <1>3, IdleIsSound, SimpleStep DEF Start, Same, SameMaps, IInv, Types
<1>4. ASSUME NEW h \in Hosts \ Referenced,
             Go(c, [op EXCEPT !.host = h, !.pc = "cold"], [hosts EXCEPT ![h] = Started])
      PROVE  IInv' /\ Spared
  <2> DEFINE processes == [hosts EXCEPT ![h] = Started]
             new == [op EXCEPT !.host = h, !.pc = "cold"]
  <2>1. /\ processes \in [Hosts -> Host]
        /\ \A g \in Hosts : hosts[g].holder \notin {None, c} => processes[g] = hosts[g]
    BY DEF Host, Started, NoHost, IInv, Types, HostInv
  <2>2. /\ new \in Operation
        /\ new.pc = "cold" /\ new.host = h
        /\ new.gate = "read" /\ new.kind = op.kind
        /\ new.key = op.key /\ new.plugin = op.plugin
        /\ new.lock = op.lock /\ new.guard = op.guard
    <3>1. "cold" \in Places
      BY DEF Places
    <3> HIDE DEF op
    <3> QED
      BY <1>1, <1>2, <3>1 DEF Operation
  <2>3. Go(c, new, processes)
    BY <1>4
  <2> HIDE DEF processes, new
  <2>4. Sound(new)
    BY <1>1, <1>2, <2>2 DEF Sound, Owns, Concerns, Where, WritePlaces, CallPlaces, LockedPlaces
  <2> QED
    BY <1>0, <1>2, <2>1, <2>2, <2>3, <2>4, SimpleStep DEF Where
<1> QED
  BY <1>3, <1>4 DEF Start

LEMMA ColdCallFailsKeeps ==
    ASSUME IInv, ExtensionHostsAssumption, NEW c \in Operations, ColdCallFails(c)
    PROVE  IInv' /\ Spared
<1> DEFINE op == operations[c]
<1>1. op \in Operation /\ Owns(op) /\ Concerns(op) /\ op.pc = "cold"
  BY AnOperation DEF ColdCallFails, At
<1>2. op.gate = "read" /\ Where(op) = "cold"
  BY <1>1, AReader DEF WritePlaces
<1> DEFINE rest == [op EXCEPT !.host = None]
<1>3. op.host \in Hosts /\ hosts \in [Hosts -> Host]
  BY <1>1 DEF Owns, IInv, Types
<1>4. /\ rest \in Operation
      /\ rest.gate = op.gate /\ rest.kind = op.kind /\ rest.key = op.key
      /\ rest.plugin = op.plugin /\ rest.lock = op.lock /\ rest.guard = op.guard
      /\ rest.todo = op.todo /\ rest.host = None
  BY <1>1 DEF Operation
<1>5. Go(c, Disposing(rest, {op.host}, "idle"), hosts)
  BY DEF ColdCallFails
<1>6. UNCHANGED <<plugin_locks, instances>> /\ aborts' \in SUBSET Hosts
  BY DEF ColdCallFails, Same, SameMaps, IInv, Types
<1>7. instances' \in [Keys -> Hosts \cup {None}]
  BY <1>6 DEF IInv, Types
<1> HIDE DEF rest
<1> QED
  BY <1>2, <1>3, <1>4, <1>5, <1>6, <1>7, DisposingKeeps DEF AfterDisposal, WritePlaces

\* A new host enters the map of a cold plugin, whatever leaves it.
LEMMA Entered ==
    ASSUME IInv, ExtensionHostsAssumption, NEW c \in Operations, NEW new,
           operations[c].pc = "cold", Sound(new), Go(c, new, hosts),
           new.gate \in {operations[c].gate, "none"},
           new.pc # "reply", Where(new) \notin {"start", "cold"},
           \/ new.lock = None /\ ~new.guard
           \/ /\ new.lock = operations[c].lock /\ new.plugin = operations[c].plugin
              /\ new.guard => operations[c].guard,
           UNCHANGED <<plugin_locks, aborts>>, instances' \in [Keys -> Hosts \cup {None}],
           \A k \in Keys : instances'[k] \in {instances[k], None} \/ k = operations[c].key
    PROVE  IInv' /\ Spared
<1> DEFINE op == operations[c]
<1>1. /\ op.guard /\ op.key \in Keys /\ op.plugin = PluginOf[op.key] /\ op.lock # None
      /\ Alone(op, Warm)
  BY AnOperation DEF Owns, Concerns, CallPlaces, Where, IInv, WarmInv
<1>2. Moves(c, new)
  BY DEF Go, Moves
<1>3. /\ operations'[c] = new
      /\ \A d \in Operations \ {c} : operations'[d] = operations[d]
      /\ operations' \in [Operations -> Operation] /\ OperationsAreSound' /\ GateInv'
  BY <1>2, SoundKept
<1>4. KeepsLocks(c, new)
  BY SameLock
<1>5. LockInv'
  BY <1>2, <1>4, LocksKept
<1>6. Warm' \subseteq Warm \cup {op.key}
  BY DEF Warm
<1>7. \A j, k \in Warm' : PluginOf[j] = PluginOf[k] => j = k
  BY <1>1, <1>6 DEF Alone, IInv, WarmInv
<1>8. ASSUME NEW d \in Operations, Where(operations'[d]) \in {"start", "cold"}
      PROVE  Alone(operations'[d], Warm')
  <2>1. d # c /\ operations'[d] = operations[d]
    BY <1>3, <1>8
  <2>2. /\ operations[d].guard /\ operations[d].lock # None
        /\ Alone(operations[d], Warm)
    BY <1>8, <2>1, AnOperation DEF Owns, CallPlaces, IInv, WarmInv
  <2>3. operations[d].plugin # op.plugin
    BY <1>1, <2>1, <2>2 DEF IInv, LockInv
  <2> QED
    BY <1>1, <1>6, <2>1, <2>2, <2>3 DEF Alone
<1>9. KeepsHosts(c, new, hosts)
  BY SameHosts DEF IInv, Types
<1>10. hosts' \in [Hosts -> Host] /\ HostInv' /\ Spared
  BY <1>2, <1>9, HostsKept
<1>11. Types'
  BY <1>3, <1>4, <1>10 DEF Types, KeepsLocks, IInv
<1> QED
  BY <1>3, <1>5, <1>7, <1>8, <1>10, <1>11 DEF IInv, WarmInv

LEMMA InsertKeeps ==
    ASSUME IInv, ExtensionHostsAssumption, NEW c \in Operations, Insert(c)
    PROVE  IInv' /\ Spared
<1> DEFINE op == operations[c]
<1>1. op \in Operation /\ Owns(op) /\ Concerns(op) /\ op.pc = "cold"
  BY AnOperation DEF Insert, At
<1>2. op.gate = "read" /\ Where(op) = "cold"
  BY <1>1, AReader DEF WritePlaces
<1> DEFINE filled == [instances EXCEPT ![op.key] = op.host]
<1>3. /\ op.key \in Keys /\ op.host \in Hosts
      /\ UNCHANGED <<plugin_locks, aborts>>
      /\ instances \in [Keys -> Hosts \cup {None}]
  BY <1>1, <1>2 DEF Owns, Concerns, CallPlaces, Insert, IInv, Types
<1>4. filled \in [Keys -> Hosts \cup {None}] /\ \A k \in Keys \ {op.key} : filled[k] = instances[k]
  BY <1>3
<1> HIDE DEF filled
<1>5. CASE instances' = filled /\ Go(c, Idle, hosts)
  BY <1>1, <1>3, <1>4, <1>5, IdleIsSound, Entered
<1>6. ASSUME NEW k \in Keys, filled[k] # None, instances' = [filled EXCEPT ![k] = None],
             Go(c, Disposing(op, {filled[k]}, "idle"), hosts)
      PROVE  IInv' /\ Spared
  <2> DEFINE new == [op EXCEPT !.disposals = {filled[k]}, !.next = "idle", !.pc = "dispose"]
  <2>1. Go(c, new, hosts)
    BY <1>6 DEF Disposing
  <2>2. /\ new \in Operation
        /\ new.pc = "dispose" /\ new.next = "idle" /\ new.host = op.host
        /\ new.gate = "read" /\ new.kind = op.kind
        /\ new.key = op.key /\ new.plugin = op.plugin
        /\ new.lock = op.lock /\ new.guard = op.guard
    <3>1. {"dispose", "idle"} \subseteq Places /\ {filled[k]} \in SUBSET Hosts
      BY <1>4, <1>6 DEF Places
    <3> HIDE DEF op
    <3> QED
      BY <1>1, <1>2, <3>1 DEF Operation
  <2> HIDE DEF new
  <2>3. Sound(new)
    BY <1>1, <2>2 DEF Sound, Owns, Concerns, Where, WritePlaces, CallPlaces, LockedPlaces,
                      AfterDisposal
  <2>4. /\ instances' \in [Keys -> Hosts \cup {None}]
        /\ \A j \in Keys : instances'[j] \in {instances[j], None} \/ j = op.key
    BY <1>4, <1>6
  <2> QED
    BY <1>1, <1>2, <1>3, <2>1, <2>2, <2>3, <2>4, Entered DEF Where
<1> QED
  BY <1>5, <1>6 DEF Insert, filled

LEMMA LockDisposalKeeps ==
    ASSUME IInv, ExtensionHostsAssumption, NEW c \in Operations, LockDisposal(c)
    PROVE  IInv' /\ Spared
<1> DEFINE op == operations[c]
<1>1. op \in Operation /\ Owns(op) /\ Concerns(op) /\ op.pc = "dispose"
  BY AnOperation DEF LockDisposal, At
<1>2. PICK h \in op.disposals :
        /\ hosts[h].holder = None
        /\ Go(c, [op EXCEPT !.pc = "deactivate"], [hosts EXCEPT ![h].holder = c])
  BY DEF LockDisposal
<1> DEFINE processes == [hosts EXCEPT ![h].holder = c]
           new == [op EXCEPT !.pc = "deactivate"]
<1>3. /\ processes \in [Hosts -> Host]
      /\ \A g \in Hosts : hosts[g].holder \notin {None, c} => processes[g] = hosts[g]
  BY <1>1, <1>2 DEF Host, IInv, Types, Operation
<1>4. /\ UNCHANGED plugin_locks /\ aborts' \in SUBSET Hosts
      /\ instances' \in [Keys -> Hosts \cup {None}]
      /\ \A k \in Keys : instances'[k] \in {instances[k], None}
  BY DEF LockDisposal, Same, SameMaps, IInv, Types
<1>5. /\ new \in Operation
      /\ new.pc = "deactivate" /\ new.next = op.next /\ new.host = op.host
      /\ new.gate = op.gate /\ new.kind = op.kind
      /\ new.key = op.key /\ new.plugin = op.plugin
      /\ new.lock = op.lock /\ new.guard = op.guard
      /\ new.todo = op.todo /\ new.disposals = op.disposals
  <2>1. "deactivate" \in Places
    BY DEF Places
  <2> HIDE DEF op
  <2> QED
    BY <1>1, <2>1 DEF Operation
<1>6. Go(c, new, processes)
  BY <1>2
<1> HIDE DEF processes, new
<1>7. Sound(new)
  BY <1>1, <1>5 DEF Sound, Owns, Concerns, Where
<1> QED
  BY <1>1, <1>3, <1>4, <1>5, <1>6, <1>7, SimpleStep DEF Where

LEMMA FinishDisposalKeeps ==
    ASSUME IInv, ExtensionHostsAssumption, NEW c \in Operations, FinishDisposal(c)
    PROVE  IInv' /\ Spared
<1> DEFINE op == operations[c]
<1>1. op \in Operation /\ Owns(op) /\ Concerns(op) /\ op.pc = "deactivate"
  BY AnOperation DEF FinishDisposal, At
<1>2. PICK h \in op.disposals :
        hosts[h].holder = c /\ Go(c, Disposing(op, op.disposals \ {h}, op.next), Killed(h))
  BY DEF FinishDisposal
<1>3. /\ Killed(h) \in [Hosts -> Host]
      /\ \A g \in Hosts : hosts[g].holder \notin {None, c} => Killed(h)[g] = hosts[g]
  BY <1>1, <1>2 DEF Killed, Host, IInv, Types, Operation
<1>4. /\ UNCHANGED plugin_locks /\ aborts' \in SUBSET Hosts
      /\ instances' \in [Keys -> Hosts \cup {None}]
      /\ \A k \in Keys : instances'[k] \in {instances[k], None}
  BY DEF FinishDisposal, Same, SameMaps, IInv, Types
<1>5. /\ op.next \in AfterDisposal /\ op.gate # "none" /\ Where(op) = op.next
      /\ (op.gate = "write") <=> (op.next \in WritePlaces)
      /\ op.next = "drop_guard" => op.lock # None
      /\ op.next \in {"clean", "start"} => op.guard /\ op.kind \in {"hook", "command"}
  BY <1>1 DEF Owns, Concerns, Where, LockedPlaces, CallPlaces
<1>6. op.disposals \ {h} \in SUBSET Hosts
  BY <1>1 DEF Operation
<1> QED
  BY <1>1, <1>2, <1>3, <1>4, <1>5, <1>6, DisposingKeeps

LEMMA dispose_plugin_Keeps ==
    ASSUME IInv, ExtensionHostsAssumption, NEW c \in Operations, dispose_plugin(c)
    PROVE  IInv' /\ Spared
<1> DEFINE op == operations[c]
<1>1. op \in Operation /\ Owns(op) /\ Concerns(op) /\ op.pc = "dispose_plugin"
  BY AnOperation DEF dispose_plugin, At
<1>2. op.gate = "read" /\ Where(op) = "dispose_plugin"
  BY <1>1, AReader DEF WritePlaces
<1> DEFINE removed == {k \in Warm : PluginOf[k] = op.plugin}
           S == {instances[k] : k \in removed}
<1>3. /\ UNCHANGED plugin_locks /\ aborts' \in SUBSET Hosts /\ hosts \in [Hosts -> Host]
      /\ S \in SUBSET Hosts
  BY DEF dispose_plugin, IInv, Types, Warm
<1>4. /\ instances' \in [Keys -> Hosts \cup {None}]
      /\ \A k \in Keys : instances'[k] \in {instances[k], None}
  BY WithoutSome DEF dispose_plugin
<1>5. Go(c, Disposing(op, S, "drop_guard"), hosts)
  BY DEF dispose_plugin
<1>6. op.lock # None
  BY <1>1, <1>2 DEF Owns, LockedPlaces
<1> HIDE DEF S
<1> QED
  BY <1>1, <1>2, <1>3, <1>4, <1>5, <1>6, DisposingKeeps DEF AfterDisposal, WritePlaces

LEMMA AWriter ==
    ASSUME IInv, NEW c \in Operations, operations[c].pc \in WritePlaces
    PROVE  /\ operations[c].gate = "write" /\ operations[c].lock = None /\ ~operations[c].guard
           /\ \A d \in Operations \ {c} :
                 operations[d].lock = None /\ operations[d].host = None
                 /\ operations[d].todo = {} /\ operations[d].disposals = {}
<1>1. operations[c].gate = "write"
  BY AnOperation DEF Owns, Where, WritePlaces
<1>2. \A d \in Operations \ {c} : operations[d].gate = "none"
  BY <1>1 DEF IInv, GateInv
<1> QED
  BY <1>1, <1>2, AnOperation DEF Owns

LEMMA retain_plugins_Keeps ==
    ASSUME IInv, ExtensionHostsAssumption, NEW c \in Operations, retain_plugins(c)
    PROVE  IInv' /\ Spared
<1> DEFINE op == operations[c]
<1>1. op \in Operation /\ Owns(op) /\ Concerns(op) /\ op.pc = "retain"
  BY AnOperation DEF retain_plugins, At
<1> DEFINE removed == {k \in Warm : PluginOf[k] \notin op.plugins}
           S == {instances[k] : k \in removed}
           rest == [op EXCEPT !.plugins = {PluginOf[k] : k \in removed}]
<1>2. op.gate = "write"
  BY <1>1, AWriter DEF WritePlaces
<1>3. /\ UNCHANGED plugin_locks /\ aborts' \in SUBSET Hosts /\ hosts \in [Hosts -> Host]
      /\ S \in SUBSET Hosts
  BY DEF retain_plugins, IInv, Types, Warm
<1>4. /\ instances' \in [Keys -> Hosts \cup {None}]
      /\ \A k \in Keys : instances'[k] \in {instances[k], None}
  BY WithoutSome DEF retain_plugins
<1>5. Go(c, Disposing(rest, S, "orphans"), hosts)
  BY DEF retain_plugins
<1>6. /\ rest \in Operation
      /\ rest.gate = op.gate /\ rest.kind = op.kind /\ rest.key = op.key
      /\ rest.plugin = op.plugin /\ rest.lock = op.lock /\ rest.guard = op.guard
      /\ rest.todo = op.todo /\ rest.host = op.host
  <2>1. {PluginOf[k] : k \in removed} \in SUBSET Plugins
    BY DEF Warm, ExtensionHostsAssumption
  <2> HIDE DEF op, removed
  <2> QED
    BY <1>1, <2>1 DEF Operation
<1> HIDE DEF S, rest
<1> QED
  BY <1>1, <1>2, <1>3, <1>4, <1>5, <1>6, DisposingKeeps DEF AfterDisposal, WritePlaces

LEMMA dispose_idle_Keeps ==
    ASSUME IInv, ExtensionHostsAssumption, NEW c \in Operations, dispose_idle(c)
    PROVE  IInv' /\ Spared
<1> DEFINE op == operations[c]
<1>1. op \in Operation /\ Owns(op) /\ Concerns(op) /\ op.pc = "dispose_idle"
  BY AnOperation DEF dispose_idle, At
<1>2. op.gate = "write"
  BY <1>1, AWriter DEF WritePlaces
<1>3. PICK idle \in SUBSET Warm :
        /\ instances' = Without(idle)
        /\ Go(c, Disposing(op, {instances[k] : k \in idle}, "prune"), hosts)
  BY DEF dispose_idle
<1> DEFINE S == {instances[k] : k \in idle}
<1>4. /\ UNCHANGED plugin_locks /\ aborts' \in SUBSET Hosts /\ hosts \in [Hosts -> Host]
      /\ S \in SUBSET Hosts
  BY DEF dispose_idle, IInv, Types, Warm
<1>5. /\ instances' \in [Keys -> Hosts \cup {None}]
      /\ \A k \in Keys : instances'[k] \in {instances[k], None}
  BY <1>3, WithoutSome
<1>6. Go(c, Disposing(op, S, "prune"), hosts)
  BY <1>3
<1> HIDE DEF S
<1> QED
  BY <1>1, <1>2, <1>4, <1>5, <1>6, DisposingKeeps DEF AfterDisposal, WritePlaces

LEMMA dispose_all_Keeps ==
    ASSUME IInv, ExtensionHostsAssumption, NEW c \in Operations, dispose_all(c)
    PROVE  IInv' /\ Spared
<1> DEFINE op == operations[c]
<1>1. op \in Operation /\ Owns(op) /\ Concerns(op) /\ op.pc = "dispose_all"
  BY AnOperation DEF dispose_all, At
<1>2. op.gate = "write"
  BY <1>1, AWriter DEF WritePlaces
<1>3. /\ UNCHANGED plugin_locks /\ aborts' \in SUBSET Hosts /\ hosts \in [Hosts -> Host]
      /\ WarmHosts \in SUBSET Hosts
  BY DEF dispose_all, IInv, Types, Warm, WarmHosts
<1>4. /\ instances' \in [Keys -> Hosts \cup {None}]
      /\ \A k \in Keys : instances'[k] \in {instances[k], None}
  BY WithoutSome DEF dispose_all
<1>5. Go(c, Disposing(op, WarmHosts, "clear"), hosts)
  BY DEF dispose_all
<1> QED
  BY <1>1, <1>2, <1>3, <1>4, <1>5, DisposingKeeps DEF AfterDisposal, WritePlaces

\* A writer ends and takes locks out of the map, which are nobody's then.
LEMMA WriterEnds ==
    ASSUME IInv, ExtensionHostsAssumption, NEW c \in Operations, NEW S,
           operations[c].pc \in WritePlaces, plugin_locks' = WithoutLocks(S),
           UNCHANGED <<instances, aborts>>, Go(c, Idle, hosts)
    PROVE  IInv' /\ Spared
<1>1. Moves(c, Idle)
  BY IdleIsSound DEF Go, Moves
<1>2. KeepsLocks(c, Idle)
  BY AWriter, IdleIsSound, WithoutSomeLocks
<1>3. KeepsWarm(c, Idle)
  BY IdleIsSound, Cooler DEF IInv, Types
<1>4. KeepsHosts(c, Idle, hosts)
  BY IdleIsSound, SameHosts DEF IInv, Types
<1> QED
  BY <1>1, <1>2, <1>3, <1>4, Kept

LEMMA WriterEndKeeps ==
    ASSUME IInv, ExtensionHostsAssumption, NEW c \in Operations,
           \/ remove_plugin_lock_if_orphaned(c)
           \/ prune_orphaned_plugin_locks(c)
           \/ ClearLocks(c)
    PROVE  IInv' /\ Spared
<1>1. operations[c].pc \in WritePlaces
  BY DEF remove_plugin_lock_if_orphaned, prune_orphaned_plugin_locks, ClearLocks, At, WritePlaces
<1>2. UNCHANGED <<instances, aborts>> /\ Go(c, Idle, hosts)
  BY DEF remove_plugin_lock_if_orphaned, prune_orphaned_plugin_locks, ClearLocks
<1>3. \E S : plugin_locks' = WithoutLocks(S)
  BY DEF remove_plugin_lock_if_orphaned, prune_orphaned_plugin_locks, ClearLocks
<1> QED
  BY <1>1, <1>2, <1>3, WriterEnds

LEMMA CopyInstancesKeeps ==
    ASSUME IInv, ExtensionHostsAssumption, NEW c \in Operations, CopyInstances(c)
    PROVE  IInv' /\ Spared
<1> DEFINE op == operations[c]
<1>1. op \in Operation /\ Owns(op) /\ Concerns(op) /\ op.pc = "snapshot"
  BY AnOperation DEF CopyInstances, At
<1>2. op.gate = "read" /\ Where(op) = "snapshot"
  BY <1>1, AReader DEF WritePlaces
<1>3. /\ UNCHANGED plugin_locks /\ aborts' \in SUBSET Hosts
      /\ instances' \in [Keys -> Hosts \cup {None}]
      /\ \A k \in Keys : instances'[k] \in {instances[k], None}
      /\ hosts \in [Hosts -> Host]
  BY DEF CopyInstances, Same, SameMaps, IInv, Types
<1> DEFINE todo == {<<k, instances[k]>> : k \in Warm}
           new == [op EXCEPT !.todo = todo, !.pc = "pick"]
<1>4. Go(c, new, hosts)
  BY DEF CopyInstances
<1>5. todo \in SUBSET (Keys \X Hosts)
  BY DEF Warm, IInv, Types
<1>6. op.kind = "recycle" /\ op.lock = None
  BY <1>1, <1>2 DEF Owns, Concerns
<1> HIDE DEF todo
<1>7. /\ new \in Operation
      /\ new.pc = "pick" /\ new.gate = "read" /\ new.kind = "recycle"
      /\ new.lock = None /\ new.guard = op.guard
  <2>1. "pick" \in Places
    BY DEF Places
  <2> HIDE DEF op
  <2> QED
    BY <1>1, <1>2, <1>5, <1>6, <2>1 DEF Operation
<1> HIDE DEF new
<1>8. Sound(new) /\ ~new.guard
  BY <1>1, <1>6, <1>7 DEF Sound, Owns, Concerns, Where, WritePlaces, CallPlaces, LockedPlaces
<1> QED
  BY <1>2, <1>3, <1>4, <1>7, <1>8, SimpleStep DEF Where

LEMMA NextIdleKeeps ==
    ASSUME IInv, ExtensionHostsAssumption, NEW c \in Operations, NextIdle(c)
    PROVE  IInv' /\ Spared
<1> DEFINE op == operations[c]
<1>1. op \in Operation /\ Owns(op) /\ Concerns(op) /\ op.pc = "pick"
  BY AnOperation DEF NextIdle, At
<1>2. op.gate = "read" /\ Where(op) = "pick"
  BY <1>1, AReader DEF WritePlaces
<1>3. /\ UNCHANGED plugin_locks /\ aborts' \in SUBSET Hosts
      /\ instances' \in [Keys -> Hosts \cup {None}]
      /\ \A k \in Keys : instances'[k] \in {instances[k], None}
      /\ hosts \in [Hosts -> Host]
  BY DEF NextIdle, Same, SameMaps, IInv, Types
<1>4. op.kind = "recycle" /\ op.lock = None /\ op.guard = FALSE
  BY <1>1, <1>2 DEF Owns, Concerns, Operation
<1>5. PICK x \in op.todo :
        LET lock == plugin_locks[PluginOf[x[1]]]
            rest == [op EXCEPT !.todo = @ \ {x}]
        IN  Go(c, IF lock = None THEN rest
                  ELSE [rest EXCEPT !.key = x[1], !.plugin = PluginOf[x[1]],
                                    !.host = x[2], !.lock = lock, !.pc = "plugin"],
               hosts)
  BY DEF NextIdle
<1> DEFINE lock == plugin_locks[PluginOf[x[1]]]
           rest == [op EXCEPT !.todo = @ \ {x}]
           taken == [rest EXCEPT !.key = x[1], !.plugin = PluginOf[x[1]],
                                 !.host = x[2], !.lock = lock, !.pc = "plugin"]
<1>6. /\ x[1] \in Keys /\ x[2] \in Hosts /\ PluginOf[x[1]] \in Plugins
      /\ lock \in Locks \cup {None}
  BY <1>1 DEF Operation, ExtensionHostsAssumption, IInv, Types
<1>7. /\ rest \in Operation /\ rest.pc = "pick" /\ rest.gate = "read" /\ rest.kind = "recycle"
      /\ rest.lock = None /\ rest.guard = FALSE
  <2> HIDE DEF op
  <2> QED
    BY <1>1, <1>2, <1>4 DEF Operation
<1>8. CASE lock = None
  <2>1. Go(c, rest, hosts)
    BY <1>5, <1>8
  <2> HIDE DEF rest
  <2>2. Sound(rest)
    BY <1>7 DEF Sound, Owns, Concerns, Where, WritePlaces, CallPlaces, LockedPlaces
  <2> QED
    BY <1>2, <1>3, <1>7, <2>1, <2>2, SimpleStep DEF Where
<1>9. CASE lock # None
  <2>1. Go(c, taken, hosts)
    BY <1>5, <1>9
  <2>2. /\ taken \in Operation /\ taken.pc = "plugin" /\ taken.gate = "read"
        /\ taken.kind = "recycle" /\ taken.plugin = PluginOf[x[1]] /\ taken.host = x[2]
        /\ taken.lock = lock /\ taken.guard = FALSE
    <3>1. "plugin" \in Places
      BY DEF Places
    <3> HIDE DEF rest, lock
    <3> QED
      BY <1>6, <1>7, <3>1 DEF Operation
  <2> HIDE DEF taken
  <2>3. Sound(taken)
    BY <1>6, <1>9, <2>2 DEF Sound, Owns, Concerns, Where, WritePlaces, CallPlaces, LockedPlaces
  <2>4. Moves(c, taken)
    BY <1>2, <2>1, <2>2, <2>3 DEF Go, Moves
  <2>5. KeepsLocks(c, taken)
    BY <1>3, <2>2 DEF KeepsLocks, IInv, Types, LockInv
  <2>6. KeepsWarm(c, taken)
    BY <1>3, <2>2, Cooler DEF Where
  <2>7. KeepsHosts(c, taken, hosts)
    BY <1>3, <2>1, <2>2, SameHosts
  <2> QED
    BY <2>4, <2>5, <2>6, <2>7, Kept
<1> QED
  BY <1>8, <1>9

LEMMA RecycledKeeps ==
    ASSUME IInv, ExtensionHostsAssumption, NEW c \in Operations, Recycled(c)
    PROVE  IInv' /\ Spared
<1> DEFINE op == operations[c]
<1>1. op \in Operation /\ Owns(op) /\ Concerns(op) /\ op.pc = "pick"
  BY AnOperation DEF Recycled, At
<1>2. op.gate = "read" /\ Where(op) = "pick"
  BY <1>1, AReader DEF WritePlaces
<1>3. /\ UNCHANGED plugin_locks /\ aborts' \in SUBSET Hosts
      /\ instances' \in [Keys -> Hosts \cup {None}]
      /\ \A k \in Keys : instances'[k] \in {instances[k], None}
      /\ hosts \in [Hosts -> Host]
  BY DEF Recycled, Same, SameMaps, IInv, Types
<1> DEFINE new == [Idle EXCEPT !.kind = "dispose_idle", !.pc = "gate"]
<1>4. Go(c, new, hosts)
  BY DEF Recycled
<1>5. /\ new \in Operation
      /\ new.pc = "gate" /\ new.gate = "none" /\ new.kind = "dispose_idle"
      /\ new.lock = None /\ new.guard = FALSE /\ new.host = None /\ new.todo = {}
      /\ new.disposals = {}
  BY DEF Idle, Operation, Places
<1> HIDE DEF new
<1>6. Sound(new)
  BY <1>5 DEF Sound, Owns, Concerns, Where, WritePlaces, CallPlaces, LockedPlaces
<1> QED
  BY <1>3, <1>4, <1>5, <1>6, SimpleStep DEF Where

LEMMA CheckCurrentKeeps ==
    ASSUME IInv, ExtensionHostsAssumption, NEW c \in Operations, CheckCurrent(c)
    PROVE  IInv' /\ Spared
<1> DEFINE op == operations[c]
<1>1. op \in Operation /\ Owns(op) /\ Concerns(op) /\ op.pc = "current"
  BY AnOperation DEF CheckCurrent, At
<1>2. op.gate = "read" /\ Where(op) = "current"
  BY <1>1, AReader DEF WritePlaces
<1>3. /\ UNCHANGED plugin_locks /\ aborts' \in SUBSET Hosts
      /\ instances' \in [Keys -> Hosts \cup {None}]
      /\ \A k \in Keys : instances'[k] \in {instances[k], None}
      /\ hosts \in [Hosts -> Host]
  BY DEF CheckCurrent, Same, SameMaps, IInv, Types
<1>4. op.kind = "recycle" /\ op.host \in Hosts
  BY <1>1, <1>2 DEF Concerns
<1>5. CASE Go(c, NextItem(op), hosts)
  BY <1>1, <1>2, <1>3, <1>4, <1>5, NextItemIs, SimpleStep
<1>6. CASE Go(c, [op EXCEPT !.pc = "recycle"], hosts)
  <2> DEFINE new == [op EXCEPT !.pc = "recycle"]
  <2>1. /\ new \in Operation
        /\ new.pc = "recycle" /\ new.gate = "read" /\ new.kind = op.kind /\ new.host = op.host
        /\ new.plugin = op.plugin /\ new.lock = op.lock /\ new.guard = op.guard
    <3>1. "recycle" \in Places
      BY DEF Places
    <3> HIDE DEF op
    <3> QED
      BY <1>1, <1>2, <3>1 DEF Operation
  <2>2. Go(c, new, hosts)
    BY <1>6
  <2> HIDE DEF new
  <2>3. Sound(new)
    BY <1>1, <1>2, <1>4, <2>1 DEF Sound, Owns, Concerns, Where, WritePlaces, CallPlaces,
                                  LockedPlaces
  <2> QED
    BY <1>2, <1>3, <2>1, <2>2, <2>3, SimpleStep DEF Where
<1> QED
  BY <1>5, <1>6 DEF CheckCurrent

LEMMA RecycleKeeps ==
    ASSUME IInv, ExtensionHostsAssumption, NEW c \in Operations, Recycle(c)
    PROVE  IInv' /\ Spared
<1> DEFINE op == operations[c]
<1>1. op \in Operation /\ Owns(op) /\ Concerns(op) /\ op.pc = "recycle"
  BY AnOperation DEF Recycle, At
<1>2. op.gate = "read" /\ Where(op) = "recycle"
  BY <1>1, AReader DEF WritePlaces
<1>3. /\ UNCHANGED plugin_locks /\ aborts' \in SUBSET Hosts
      /\ instances' \in [Keys -> Hosts \cup {None}]
      /\ \A k \in Keys : instances'[k] \in {instances[k], None}
      /\ hosts \in [Hosts -> Host]
  BY DEF Recycle, Same, SameMaps, IInv, Types
<1> DEFINE h == op.host
<1>4. op.kind = "recycle" /\ h \in Hosts /\ hosts[h].holder = None
  BY <1>1, <1>2 DEF Concerns, Recycle
<1>5. CASE Go(c, NextItem(op), hosts)
  BY <1>1, <1>2, <1>3, <1>4, <1>5, NextItemIs, SimpleStep
<1>6. CASE Go(c, [op EXCEPT !.pc = "take"], Killed(h))
  <2> DEFINE new == [op EXCEPT !.pc = "take"]
  <2>1. /\ new \in Operation
        /\ new.pc = "take" /\ new.gate = "read" /\ new.kind = op.kind /\ new.host = h
        /\ new.plugin = op.plugin /\ new.lock = op.lock /\ new.guard = op.guard
    <3>1. "take" \in Places
      BY DEF Places
    <3> HIDE DEF op
    <3> QED
      BY <1>1, <1>2, <3>1 DEF Operation, h
  <2>2. Go(c, new, Killed(h))
    BY <1>6
  <2> HIDE DEF new
  <2>3. Sound(new)
    BY <1>1, <1>2, <1>4, <2>1 DEF Sound, Owns, Concerns, Where, WritePlaces, CallPlaces,
                                  LockedPlaces
  <2>4. /\ Killed(h) \in [Hosts -> Host]
        /\ \A g \in Hosts : hosts[g].holder \notin {None, c} => Killed(h)[g] = hosts[g]
    BY <1>3, <1>4 DEF Killed, Host
  <2> QED
    BY <1>2, <1>3, <2>1, <2>2, <2>3, <2>4, SimpleStep DEF Where
<1> QED
  BY <1>5, <1>6 DEF Recycle

LEMMA TakeRecycledKeeps ==
    ASSUME IInv, ExtensionHostsAssumption, NEW c \in Operations, TakeRecycled(c)
    PROVE  IInv' /\ Spared
<1> DEFINE op == operations[c]
<1>1. op \in Operation /\ Owns(op) /\ Concerns(op) /\ op.pc = "take"
  BY AnOperation DEF TakeRecycled, At
<1>2. op.gate = "read" /\ Where(op) = "take"
  BY <1>1, AReader DEF WritePlaces
<1>3. UNCHANGED plugin_locks /\ aborts' \in SUBSET Hosts /\ hosts \in [Hosts -> Host]
  BY DEF TakeRecycled, IInv, Types
<1>4. /\ instances' \in [Keys -> Hosts \cup {None}]
      /\ \A k \in Keys : instances'[k] \in {instances[k], None}
  BY WithoutSome DEF TakeRecycled
<1>5. op.kind = "recycle" /\ op.host \in Hosts /\ op.lock # None
  BY <1>1, <1>2 DEF Owns, Concerns, LockedPlaces
<1>6. CASE Go(c, NextItem(op), hosts)
  BY <1>1, <1>2, <1>3, <1>4, <1>5, <1>6, NextItemIs, SimpleStep
<1>7. CASE Go(c, Disposing([op EXCEPT !.host = None], {op.host}, "drop_guard"), hosts)
  <2> DEFINE rest == [op EXCEPT !.host = None]
  <2>1. /\ rest \in Operation
        /\ rest.gate = op.gate /\ rest.kind = op.kind /\ rest.key = op.key
        /\ rest.plugin = op.plugin /\ rest.lock = op.lock /\ rest.guard = op.guard
        /\ rest.todo = op.todo /\ rest.host = None
    BY <1>1 DEF Operation
  <2>2. Go(c, Disposing(rest, {op.host}, "drop_guard"), hosts)
    BY <1>7
  <2> HIDE DEF rest
  <2> QED
    BY <1>2, <1>3, <1>4, <1>5, <2>1, <2>2, DisposingKeeps DEF AfterDisposal, WritePlaces
<1> QED
  BY <1>6, <1>7 DEF TakeRecycled

LEMMA CutKeeps ==
    ASSUME IInv, ExtensionHostsAssumption, NEW c \in Operations, Cut(c)
    PROVE  IInv' /\ Spared
<1>1. /\ UNCHANGED plugin_locks /\ aborts' \in SUBSET Hosts
      /\ instances' \in [Keys -> Hosts \cup {None}]
      /\ \A k \in Keys : instances'[k] \in {instances[k], None}
      /\ Go(c, Idle, LetGo(c))
  BY DEF Cut, SameMaps, IInv, Types
<1>2. /\ LetGo(c) \in [Hosts -> Host]
      /\ \A h \in Hosts : hosts[h].holder \notin {None, c} => LetGo(c)[h] = hosts[h]
  BY DEF LetGo, Host, IInv, Types
<1> QED
  BY <1>1, <1>2, IdleIsSound, SimpleStep

LEMMA DeadlinePassesKeeps ==
    ASSUME IInv, ExtensionHostsAssumption, NEW c \in Operations, DeadlinePasses(c)
    PROVE  IInv' /\ Spared
<1> DEFINE op == operations[c]
           processes ==
               [h \in Hosts |-> IF h \in Abortable(c) THEN Killed(h)[h] ELSE LetGo(c)[h]]
<1>1. op \in Operation /\ Owns(op) /\ Concerns(op) /\ op.kind = "hook"
  BY AnOperation DEF DeadlinePasses
<1>2. /\ UNCHANGED plugin_locks /\ aborts' \in SUBSET Hosts
      /\ instances' \in [Keys -> Hosts \cup {None}]
      /\ \A k \in Keys : instances'[k] \in {instances[k], None}
  BY <1>1 DEF DeadlinePasses, SameMaps, IInv, Types, Operation
<1>3. processes \in [Hosts -> Host]
  BY DEF Killed, LetGo, Host, IInv, Types
<1>4. \A h \in Hosts : hosts[h].holder \notin {None, c} => processes[h] = hosts[h]
  BY DEF Abortable, LetGo
<1>5. Go(c, IF op.host = None THEN Idle ELSE [op EXCEPT !.disposals = {}, !.pc = "abort"],
         processes)
  BY DEF DeadlinePasses
<1> HIDE DEF processes
<1>6. CASE op.host = None
  BY <1>2, <1>3, <1>4, <1>5, <1>6, IdleIsSound, SimpleStep
<1>7. CASE op.host # None
  <2> DEFINE new == [op EXCEPT !.disposals = {}, !.pc = "abort"]
  <2>1. op.host \in Hosts /\ op.gate = "read"
    BY <1>1, <1>7 DEF Operation, Owns
  <2>2. /\ new \in Operation
        /\ new.pc = "abort" /\ new.gate = "read" /\ new.kind = "hook" /\ new.host = op.host
        /\ new.key = op.key /\ new.plugin = op.plugin
        /\ new.lock = op.lock /\ new.guard = op.guard
    <3>1. "abort" \in Places
      BY DEF Places
    <3> HIDE DEF op
    <3> QED
      BY <1>1, <2>1, <3>1 DEF Operation
  <2>3. Go(c, new, processes)
    BY <1>5, <1>7
  <2> HIDE DEF new
  <2>4. Sound(new)
    BY <1>1, <2>1, <2>2 DEF Sound, Owns, Concerns, Where, WritePlaces, CallPlaces, LockedPlaces
  <2> QED
    BY <1>2, <1>3, <1>4, <2>1, <2>2, <2>3, <2>4, SimpleStep DEF Where
<1> QED
  BY <1>6, <1>7

LEMMA AbortIfCurrentKeeps ==
    ASSUME IInv, ExtensionHostsAssumption, NEW c \in Operations, AbortIfCurrent(c)
    PROVE  IInv' /\ Spared
<1> DEFINE h == operations[c].host
           processes == IF IsCurrent(c) /\ hosts[h].holder = None THEN Killed(h) ELSE hosts
<1>1. h \in Hosts /\ hosts \in [Hosts -> Host]
  BY AnOperation DEF AbortIfCurrent, At, Owns, IInv, Types
<1>2. UNCHANGED plugin_locks /\ aborts' \in SUBSET Hosts
  BY <1>1 DEF AbortIfCurrent, IInv, Types
<1>3. /\ instances' \in [Keys -> Hosts \cup {None}]
      /\ \A k \in Keys : instances'[k] \in {instances[k], None}
  BY WithoutSome DEF AbortIfCurrent
<1>4. /\ processes \in [Hosts -> Host]
      /\ \A g \in Hosts : hosts[g].holder \notin {None, c} => processes[g] = hosts[g]
  BY <1>1 DEF Killed, Host
<1>5. Go(c, Idle, processes)
  BY DEF AbortIfCurrent
<1> HIDE DEF processes
<1> QED
  BY <1>2, <1>3, <1>4, <1>5, IdleIsSound, SimpleStep

\* A process that nobody has locked ends, or the child of any process by itself.
LEMMA ChildEnds ==
    ASSUME IInv, ExtensionHostsAssumption,
           UNCHANGED <<instances, plugin_locks, operations>>, aborts' \in SUBSET Hosts,
           hosts' \in [Hosts -> Host],
           \A g \in Hosts : g \notin Referenced' => hosts'[g] = NoHost,
           \A g \in Hosts \cap Referenced' :
              \/ hosts'[g] = hosts[g]
              \/ hosts[g].holder = None
              \/ hosts'[g].holder = hosts[g].holder /\ hosts'[g].state = "exited"
    PROVE  IInv' /\ Spared
<1>1. Types' /\ OperationsAreSound' /\ GateInv' /\ LockInv' /\ WarmInv'
  BY DEF IInv, Types, OperationsAreSound, GateInv, LockInv, WarmInv, Warm
<1>2. ASSUME NEW c \in Operations, operations[c].pc = "reply"
      PROVE  /\ hosts'[operations[c].host].holder = c
             /\ hosts'[operations[c].host].state \in {hosts[operations[c].host].state, "exited"}
  <2>1. /\ operations[c].host \in Hosts
        /\ hosts[operations[c].host].holder = c /\ c # None
    BY <1>2, AnOperation DEF Owns, IInv, HostInv, ExtensionHostsAssumption
  <2>2. operations[c].host \in HeldBy(c)'
    BY DEF HeldBy
  <2>3. operations[c].host \in Referenced'
    BY <2>2 DEF Referenced
  <2> QED
    BY <2>1, <2>3
<1>3. HostInv' /\ Spared
  BY <1>2 DEF HostInv, Spared, At
<1> QED
  BY <1>1, <1>3 DEF IInv

LEMMA AbortKeeps ==
    ASSUME IInv, ExtensionHostsAssumption, NEW h \in Hosts, Abort(h)
    PROVE  IInv' /\ Spared
<1>1. UNCHANGED <<instances, plugin_locks, operations>> /\ aborts' \in SUBSET Hosts
  BY DEF Abort, SameMaps, IInv, Types
<1>2. /\ hosts' = [i \in Hosts |-> IF i \in Referenced' THEN Killed(h)[i] ELSE NoHost]
      /\ hosts[h].holder = None
  BY DEF Abort
<1>3. Killed(h) \in [Hosts -> Host] /\ \A g \in Hosts \ {h} : Killed(h)[g] = hosts[g]
  BY DEF Killed, Host, IInv, Types
<1>4. hosts' \in [Hosts -> Host] /\ \A g \in Hosts : g \notin Referenced' => hosts'[g] = NoHost
  BY <1>2, <1>3 DEF NoHost, Host
<1>5. \A g \in Hosts \cap Referenced' : hosts'[g] = hosts[g] \/ hosts[g].holder = None
  BY <1>2, <1>3
<1> QED
  BY <1>1, <1>4, <1>5, ChildEnds

LEMMA ChildExitsKeeps ==
    ASSUME IInv, ExtensionHostsAssumption, NEW h \in Hosts, ChildExits(h)
    PROVE  IInv' /\ Spared
<1>1. UNCHANGED <<instances, plugin_locks, operations, aborts>> /\ aborts' \in SUBSET Hosts
  BY DEF ChildExits, Same, SameMaps, IInv, Types
<1>2. hosts' = [hosts EXCEPT ![h].state = "exited"] /\ hosts[h].state = "running"
  BY DEF ChildExits
<1>3. Referenced' = Referenced
  BY <1>1 DEF Referenced, WarmHosts, Warm, HeldBy
<1>4. hosts' \in [Hosts -> Host]
  BY <1>2 DEF Host, IInv, Types
<1>5. \A g \in Hosts : g \notin Referenced' => hosts'[g] = NoHost
  BY <1>2, <1>3 DEF NoHost, IInv, HostInv
<1>6. \A g \in Hosts \cap Referenced' :
         \/ hosts'[g] = hosts[g]
         \/ hosts'[g].holder = hosts[g].holder /\ hosts'[g].state = "exited"
  BY <1>2 DEF Host, IInv, Types
<1> QED
  BY <1>1, <1>4, <1>5, <1>6, ChildEnds

\* Calls, sweeps, retains and disposals begin.
Fresh(op) ==
    /\ op \in Operation /\ op.pc = "idle" /\ op.gate = "none" /\ op.lock = None
    /\ op.guard = FALSE /\ op.host = None /\ op.disposals = {} /\ op.todo = {}
    /\ op.kind # "none"
    /\ op.kind \in {"hook", "command"} => op.key \in Keys /\ op.plugin = PluginOf[op.key]
    /\ op.kind = "dispose_plugin" => op.plugin \in Plugins

LEMMA FreshKeeps ==
    ASSUME IInv, ExtensionHostsAssumption, NEW c \in Operations, NEW op, Fresh(op), Begin(c, op)
    PROVE  IInv' /\ Spared
<1>1. Concerns(op)
  BY DEF Fresh, Concerns, Where, CallPlaces
<1> QED
  BY <1>1, BeginKeeps DEF Fresh

LEMMA CallKeeps ==
    ASSUME IInv, ExtensionHostsAssumption, NEW c \in Operations, Call(c)
    PROVE  IInv' /\ Spared
<1> DEFINE kind == IF registry = "gateway" THEN "hook" ELSE "command"
<1>1. PICK k \in Keys :
        Begin(c, [Idle EXCEPT !.kind = kind, !.key = k, !.plugin = PluginOf[k]])
  BY DEF Call
<1>2. PluginOf[k] \in Plugins /\ kind \in {"hook", "command"}
  BY DEF ExtensionHostsAssumption
<1> HIDE DEF kind
<1>3. Fresh([Idle EXCEPT !.kind = kind, !.key = k, !.plugin = PluginOf[k]])
  BY <1>2 DEF Fresh, Idle, Operation, Places
<1> QED
  BY <1>1, <1>3, FreshKeeps

LEMMA SweepKeeps ==
    ASSUME IInv, ExtensionHostsAssumption, Sweep
    PROVE  IInv' /\ Spared
<1>1. Fresh([Idle EXCEPT !.kind = "recycle"])
  BY DEF Fresh, Idle, Operation, Places
<1>2. Begin(Sweeper, [Idle EXCEPT !.kind = "recycle"]) /\ Sweeper \in Operations
  BY DEF Sweep, Operations
<1> QED
  BY <1>1, <1>2, FreshKeeps

LEMMA RetainKeeps ==
    ASSUME IInv, ExtensionHostsAssumption, NEW c \in Operations, Retain(c)
    PROVE  IInv' /\ Spared
<1>1. PICK S \in SUBSET Plugins : Begin(c, [Idle EXCEPT !.kind = "retain", !.plugins = S])
  BY DEF Retain
<1>2. Fresh([Idle EXCEPT !.kind = "retain", !.plugins = S])
  BY DEF Fresh, Idle, Operation, Places
<1> QED
  BY <1>1, <1>2, FreshKeeps

LEMMA DisposeKeeps ==
    ASSUME IInv, ExtensionHostsAssumption, NEW c \in Operations, Dispose(c)
    PROVE  IInv' /\ Spared
<1>1. ASSUME NEW p \in Plugins
      PROVE  Fresh([Idle EXCEPT !.kind = "dispose_plugin", !.plugin = p])
  BY DEF Fresh, Idle, Operation, Places
<1>2. Fresh([Idle EXCEPT !.kind = "dispose_all"])
  BY DEF Fresh, Idle, Operation, Places
<1> QED
  BY <1>1, <1>2, FreshKeeps DEF Dispose

-----------------------------------------------------------------------------
\* The whole.

LEMMA InitIsSound ==
    ASSUME Init
    PROVE  IInv
<1>1. Types /\ OperationsAreSound
  BY IdleIsSound DEF Init, Types, OperationsAreSound, Sound, NoHost, Host
<1>2. GateInv /\ LockInv
  BY IdleIsSound DEF Init, GateInv, LockInv
<1>3. WarmInv /\ HostInv
  BY IdleIsSound DEF Init, WarmInv, HostInv, Warm
<1> QED
  BY <1>1, <1>2, <1>3 DEF IInv

LEMMA StepKeeps ==
    ASSUME IInv, ExtensionHostsAssumption, NEW c \in Operations, Step(c)
    PROVE  IInv' /\ Spared
  BY EnterGateKeeps, LockPluginKeeps, ExecuteIfRunningKeeps, LockDisposalKeeps, RecycleKeeps,
     plugin_lock_for_Keeps, DropGuardKeeps, remove_plugin_lock_if_unused_Keeps, FindWarmKeeps,
     RepliedKeeps, RemoveIfCurrentKeeps, CleanKeeps, StartKeeps, ColdCallFailsKeeps, InsertKeeps,
     FinishDisposalKeeps, dispose_plugin_Keeps, retain_plugins_Keeps, dispose_idle_Keeps,
     dispose_all_Keeps, WriterEndKeeps, CopyInstancesKeeps, NextIdleKeeps, RecycledKeeps,
     CheckCurrentKeeps, TakeRecycledKeeps, AbortIfCurrentKeeps DEF Step

LEMMA NextKeeps ==
    ASSUME IInv, ExtensionHostsAssumption, Next
    PROVE  IInv' /\ Spared
<1>1. Callers \subseteq Operations /\ Lifecycle \subseteq Operations
  BY DEF Operations
<1> QED
  BY <1>1, CallKeeps, SweepKeeps, RetainKeeps, DisposeKeeps, StepKeeps, CutKeeps,
     DeadlinePassesKeeps, AbortKeeps, ChildExitsKeeps DEF Next

LEMMA StutterKeeps ==
    ASSUME IInv, UNCHANGED vars
    PROVE  IInv'
<1>1. Types' /\ OperationsAreSound' /\ GateInv' /\ LockInv' /\ WarmInv'
  BY DEF vars, IInv, Types, OperationsAreSound, GateInv, LockInv, WarmInv, Warm
<1>2. Referenced' = Referenced
  BY DEF vars, Referenced, WarmHosts, Warm, HeldBy
<1>3. HostInv'
  BY <1>2 DEF vars, IInv, HostInv
<1> QED
  BY <1>1, <1>3 DEF IInv

LEMMA InvariantHolds == Spec => []IInv
<1>1. Init => IInv
  BY InitIsSound
<1>2. IInv /\ [Next]_vars => IInv'
  BY NextKeeps, StutterKeeps, ExtensionHostsAssumption
<1> QED
  BY <1>1, <1>2, PTL DEF Spec

\* Operations on one plugin never overlap, and a plugin never has two warm hosts, for any
\* sets of plugins, versions, hosts and operations: who has a lock has the one in the map,
\* and a cold start leaves its plugin cold until its own host enters.
THEOREM PluginIsAlwaysExclusive == Spec => []PluginIsExclusive
<1>1. IInv => PluginIsExclusive
  <2>1. ASSUME IInv, NEW c \in Operations, NEW d \in Operations,
               operations[c].guard, operations[d].guard,
               operations[c].plugin = operations[d].plugin
        PROVE  c = d
    <3>1. operations[c].lock # None /\ operations[d].lock # None
      BY <2>1, AnOperation DEF Owns
    <3>2. operations[c].lock = operations[d].lock
      BY <2>1, <3>1 DEF IInv, LockInv
    <3> QED
      BY <2>1, <3>2 DEF IInv, LockInv
  <2> QED
    BY <2>1 DEF PluginIsExclusive, IInv, WarmInv
<1> QED
  BY <1>1, InvariantHolds, PTL

\* Whoever holds the gate for writing sees every running child: a process has an owner, and
\* a writer is the only operation that owns anything.
THEOREM WriterAlwaysSeesEveryHost == Spec => []WriterSeesEveryHost
<1>1. ASSUME IInv, NEW c \in Operations, operations[c].gate = "write",
             NEW h \in Hosts, hosts[h].state = "running"
      PROVE  h \in WarmHosts \cup operations[c].disposals \cup aborts
  <2>1. h \in Referenced
    BY <1>1 DEF IInv, HostInv, NoHost
  <2>2. h # None
    BY ExtensionHostsAssumption DEF ExtensionHostsAssumption
  <2>3. ASSUME NEW d \in Operations, h \in HeldBy(d)
        PROVE  d = c /\ h \in operations[c].disposals
    <3>1. /\ operations[c].host = None /\ operations[c].todo = {}
      BY <1>1, AnOperation DEF Owns
    <3>2. d # c => /\ operations[d].host = None /\ operations[d].todo = {}
                   /\ operations[d].disposals = {}
      BY <1>1, AnOperation DEF Owns, IInv, GateInv
    <3> QED
      BY <2>2, <2>3, <3>1, <3>2 DEF HeldBy
  <2>4. CASE h \in UNION {HeldBy(d) : d \in Operations}
    <3>1. PICK d \in Operations : h \in HeldBy(d)
      BY <2>4
    <3> QED
      BY <2>3, <3>1
  <2> QED
    BY <2>1, <2>4 DEF Referenced
<1>2. IInv => WriterSeesEveryHost
  BY <1>1 DEF WriterSeesEveryHost
<1> QED
  BY <1>2, InvariantHolds, PTL

\* No step kills a child at work for a call of another operation, whatever evicts, sweeps or
\* aborts meanwhile: the call has its process locked.
THEOREM BusyHostIsAlwaysLeftAlone == Spec => BusyHostIsLeftAlone
<1>1. IInv /\ [Next]_vars => [Spared]_vars
  BY NextKeeps, ExtensionHostsAssumption
<1> QED
  BY <1>1, InvariantHolds, PTL DEF Spec, BusyHostIsLeftAlone, Spared

-----------------------------------------------------------------------------
\* The queue of the gate.

InQueue(queue) == {queue[i] : i \in DOMAIN queue}

Once(queue) == \A i, j \in DOMAIN queue : queue[i] = queue[j] => i = j

\* Whoever is at the gate is in the queue, and in it once.
QueueInv ==
    /\ <<registry, max_warm_instances>> \in Setups
    /\ gate_queue \in Seq(Operations)
    /\ InQueue(gate_queue) = {c \in Operations : At(c, "gate")}
    /\ Once(gate_queue)

\* What the step of an operation does to the queue.
Queues(c) ==
    /\ SameSetup
    /\ \A d \in Operations \ {c} : operations'[d] = operations[d]
    /\ \/ /\ UNCHANGED gate_queue
          /\ operations'[c].pc = "gate" <=> At(c, "gate")
       \/ /\ gate_queue' = Append(gate_queue, c)
          /\ ~At(c, "gate") /\ operations'[c].pc = "gate"
       \/ /\ gate_queue' = Tail(gate_queue) /\ Head(gate_queue) = c
          /\ At(c, "gate") /\ operations'[c].pc # "gate"
       \/ /\ gate_queue' = Leaves(c)
          /\ operations'[c].pc # "gate"

LEMMA Joins ==
    ASSUME NEW S, NEW queue \in Seq(S), NEW x \in S, Once(queue), x \notin InQueue(queue)
    PROVE  /\ Append(queue, x) \in Seq(S)
           /\ InQueue(Append(queue, x)) = InQueue(queue) \cup {x}
           /\ Once(Append(queue, x))
<1> DEFINE longer == Append(queue, x)
<1>1. /\ longer \in Seq(S) /\ Len(longer) = Len(queue) + 1 /\ Len(queue) \in Nat
      /\ DOMAIN queue = 1 .. Len(queue) /\ DOMAIN longer = 1 .. Len(queue) + 1
      /\ \A i \in 1 .. Len(queue) : longer[i] = queue[i]
      /\ longer[Len(queue) + 1] = x
  OBVIOUS
<1> HIDE DEF longer
<1>2. InQueue(longer) = InQueue(queue) \cup {x}
  BY <1>1 DEF InQueue
<1>3. Once(longer)
  BY <1>1 DEF InQueue, Once
<1> QED
  BY <1>1, <1>2, <1>3 DEF longer

LEMMA Enters ==
    ASSUME NEW S, NEW queue \in Seq(S), Once(queue), queue # <<>>
    PROVE  /\ Tail(queue) \in Seq(S)
           /\ InQueue(Tail(queue)) = InQueue(queue) \ {Head(queue)}
           /\ Once(Tail(queue))
<1> DEFINE rest == Tail(queue)
<1>1. /\ rest \in Seq(S) /\ Len(rest) = Len(queue) - 1 /\ Len(queue) \in Nat \ {0}
      /\ DOMAIN queue = 1 .. Len(queue) /\ DOMAIN rest = 1 .. Len(queue) - 1
      /\ \A i \in 1 .. Len(queue) - 1 : rest[i] = queue[i + 1]
      /\ Head(queue) = queue[1]
  OBVIOUS
<1> HIDE DEF rest
<1>2. Once(rest)
  BY <1>1 DEF Once
<1>3. InQueue(rest) = InQueue(queue) \ {queue[1]}
  <2>1. ASSUME NEW i \in 1 .. Len(queue) - 1
        PROVE  rest[i] \in InQueue(queue) \ {queue[1]}
    BY <1>1 DEF InQueue, Once
  <2>2. ASSUME NEW i \in 2 .. Len(queue)
        PROVE  queue[i] \in InQueue(rest)
    <3>1. i - 1 \in 1 .. Len(queue) - 1 /\ rest[i - 1] = queue[i]
      BY <1>1
    <3> QED
      BY <1>1, <3>1 DEF InQueue
  <2>3. InQueue(rest) \subseteq InQueue(queue) \ {queue[1]}
    BY <1>1, <2>1 DEF InQueue
  <2>4. InQueue(queue) \ {queue[1]} \subseteq InQueue(rest)
    <3> SUFFICES ASSUME NEW i \in 1 .. Len(queue), queue[i] # queue[1]
                 PROVE  queue[i] \in InQueue(rest)
      BY <1>1 DEF InQueue
    <3>1. i \in 2 .. Len(queue)
      BY <1>1
    <3> QED
      BY <2>2, <3>1
  <2> QED
    BY <2>3, <2>4
<1> QED
  BY <1>1, <1>2, <1>3 DEF rest

LEMMA GoesAway ==
    ASSUME NEW S, NEW queue \in Seq(S), NEW x, Once(queue)
    PROVE  /\ RemoveFirst(queue, x) \in Seq(S)
           /\ InQueue(RemoveFirst(queue, x)) = InQueue(queue) \ {x}
           /\ Once(RemoveFirst(queue, x))
<1> DEFINE rest == RemoveFirst(queue, x)
           n == Len(queue)
<1>1. n \in Nat /\ n = Len(queue) /\ DOMAIN queue = 1 .. n /\ \A i \in 1 .. n : queue[i] \in S
  OBVIOUS
<1> HIDE DEF n
<1>2. CASE x \notin InQueue(queue)
  <2>1. rest = queue
    BY <1>1, <1>2 DEF InQueue, RemoveFirst
  <2> QED
    BY <1>2, <2>1
<1>3. CASE x \in InQueue(queue)
  <2>1. PICK k \in 1 .. n : queue[k] = x
    BY <1>1, <1>3 DEF InQueue
  <2>2. {i \in 1 .. n : queue[i] = x} = {k}
    BY <1>1, <2>1 DEF Once
  <2>3. Min({k}) = k
    BY DEF Min
  <2>4. rest = SubSeq(queue, 1, k - 1) \o SubSeq(queue, k + 1, n)
    BY <1>1, <2>1, <2>2, <2>3 DEF RemoveFirst, RemoveAt, SelectInSeq
  <2>5. /\ rest \in Seq(S) /\ Len(rest) = n - 1 /\ DOMAIN rest = 1 .. n - 1
        /\ \A i \in 1 .. n - 1 : rest[i] = IF i < k THEN queue[i] ELSE queue[i + 1]
    <3> DEFINE front == SubSeq(queue, 1, k - 1)
               back == SubSeq(queue, k + 1, n)
    <3>1. /\ front \in Seq(S) /\ Len(front) = k - 1
          /\ \A i \in 1 .. k - 1 : front[i] = queue[i]
      BY <1>1, <2>1
    <3>2. /\ back \in Seq(S) /\ Len(back) = n - k
          /\ \A i \in 1 .. n - k : back[i] = queue[k + i]
      <4>1. /\ k + 1 \in Int /\ n \in Int /\ \A i \in k + 1 .. n : queue[i] \in S
            /\ n - (k + 1) + 1 = n - k /\ (k + 1 <= n \/ n - k = 0)
            /\ \A i \in 1 .. n - k : k + 1 + i - 1 = k + i
        BY <1>1, <2>1
      <4>2. /\ back \in Seq(S)
            /\ Len(back) = IF k + 1 <= n THEN n - (k + 1) + 1 ELSE 0
            /\ \A i \in 1 .. n - (k + 1) + 1 : back[i] = queue[k + 1 + i - 1]
        BY <4>1, SubSeqProperties
      <4> HIDE DEF back
      <4>3. Len(back) = n - k
        BY <1>1, <2>1, <4>1, <4>2
      <4> QED
        BY <4>1, <4>2, <4>3
    <3>3. rest = front \o back
      BY <2>4
    <3> HIDE DEF front, back, rest
    <3>4. /\ rest \in Seq(S) /\ Len(rest) = n - 1 /\ DOMAIN rest = 1 .. n - 1
      <4>1. rest \in Seq(S) /\ Len(rest) = Len(front) + Len(back)
        BY <3>1, <3>2, <3>3, ConcatProperties
      <4>2. Len(rest) = n - 1
        BY <1>1, <2>1, <3>1, <3>2, <4>1
      <4> QED
        BY <4>1, <4>2
    <3>5. ASSUME NEW i \in 1 .. n - 1
          PROVE  rest[i] = IF i < k THEN queue[i] ELSE queue[i + 1]
      <4>1. CASE i < k
        BY <1>1, <2>1, <3>1, <3>2, <3>3, <4>1
      <4>2. CASE ~(i < k)
        <5>1. rest[i] = back[i - (k - 1)]
          BY <1>1, <2>1, <3>1, <3>2, <3>3, <4>2
        <5>2. i - (k - 1) \in 1 .. n - k
          BY <1>1, <2>1, <4>2
        <5>3. k + (i - (k - 1)) = i + 1
          BY <1>1, <2>1
        <5> QED
          BY <3>2, <4>2, <5>1, <5>2, <5>3
      <4> QED
        BY <4>1, <4>2
    <3> QED
      BY <3>4, <3>5
  <2> HIDE DEF rest
  <2> DEFINE at(i) == IF i < k THEN i ELSE i + 1
  <2>6. /\ \A i \in 1 .. n - 1 : at(i) \in 1 .. n /\ at(i) # k /\ rest[i] = queue[at(i)]
        /\ \A i, j \in 1 .. n - 1 : at(i) = at(j) => i = j
    BY <1>1, <2>1, <2>5
  <2> HIDE DEF at
  <2>7. Once(rest)
    BY <1>1, <2>1, <2>5, <2>6 DEF Once
  <2>8. InQueue(rest) = InQueue(queue) \ {x}
    <3>1. ASSUME NEW i \in 1 .. n - 1
          PROVE  rest[i] \in InQueue(queue) \ {x}
      BY <1>1, <2>1, <2>6 DEF InQueue, Once
    <3>2. ASSUME NEW i \in 1 .. n, i # k
          PROVE  queue[i] \in InQueue(rest)
      <4> DEFINE j == IF i < k THEN i ELSE i - 1
      <4>1. j \in 1 .. n - 1 /\ rest[j] = queue[i]
        BY <1>1, <2>1, <2>5, <3>2
      <4> QED
        BY <2>5, <4>1 DEF InQueue
    <3> QED
      BY <1>1, <2>1, <2>5, <3>1, <3>2 DEF InQueue
  <2> QED
    BY <2>5, <2>7, <2>8 DEF rest
<1> QED
  BY <1>2, <1>3

LEMMA QueuesPreserve ==
    ASSUME QueueInv, NEW c \in Operations, Queues(c)
    PROVE  QueueInv'
<1>1. /\ \A d \in Operations \ {c} : operations'[d] = operations[d]
      /\ <<registry, max_warm_instances>>' \in Setups
      /\ gate_queue \in Seq(Operations) /\ Once(gate_queue)
      /\ InQueue(gate_queue) = {d \in Operations : At(d, "gate")}
  BY DEF Queues, QueueInv, SameSetup
<1>2. CASE UNCHANGED gate_queue /\ (operations'[c].pc = "gate" <=> At(c, "gate"))
  BY <1>1, <1>2 DEF QueueInv, At, Once, InQueue
<1>3. CASE gate_queue' = Append(gate_queue, c) /\ ~At(c, "gate") /\ operations'[c].pc = "gate"
  <2>1. /\ gate_queue' \in Seq(Operations) /\ Once(gate_queue')
        /\ InQueue(gate_queue') = InQueue(gate_queue) \cup {c}
    BY <1>1, <1>3, Joins
  <2> QED
    BY <1>1, <1>3, <2>1 DEF QueueInv, At, Once, InQueue
<1>4. CASE /\ gate_queue' = Tail(gate_queue) /\ Head(gate_queue) = c
           /\ At(c, "gate") /\ operations'[c].pc # "gate"
  <2>1. gate_queue # <<>>
    BY <1>1, <1>4 DEF InQueue
  <2>2. /\ gate_queue' \in Seq(Operations) /\ Once(gate_queue')
        /\ InQueue(gate_queue') = InQueue(gate_queue) \ {c}
    BY <1>1, <1>4, <2>1, Enters
  <2>3. {d \in Operations : At(d, "gate")}' = {d \in Operations : At(d, "gate")} \ {c}
    BY <1>1, <1>4 DEF At
  <2> QED
    BY <1>1, <2>2, <2>3 DEF QueueInv, Once, InQueue
<1>5. CASE gate_queue' = Leaves(c) /\ operations'[c].pc # "gate"
  <2>1. /\ gate_queue' \in Seq(Operations) /\ Once(gate_queue')
        /\ InQueue(gate_queue') = InQueue(gate_queue) \ {c}
    BY <1>1, <1>5, GoesAway DEF Leaves
  <2>2. {d \in Operations : At(d, "gate")}' = {d \in Operations : At(d, "gate")} \ {c}
    BY <1>1, <1>5 DEF At
  <2> QED
    BY <1>1, <2>1, <2>2 DEF QueueInv, Once, InQueue
<1> QED
  BY <1>2, <1>3, <1>4, <1>5 DEF Queues

LEMMA Went ==
    ASSUME IInv, NEW c \in Operations, NEW op, NEW processes, Go(c, op, processes)
    PROVE  operations'[c] = op /\ \A d \in Operations \ {c} : operations'[d] = operations[d]
  BY DEF IInv, Types, Go

\* A step that keeps away from the gate.
LEMMA AwayFromGate ==
    ASSUME IInv, NEW c \in Operations, NEW op, NEW processes, Go(c, op, processes),
           SameSetup, UNCHANGED gate_queue, ~At(c, "gate"), op.pc # "gate"
    PROVE  Queues(c)
  BY Went DEF Queues

LEMMA DisposingPlace ==
    ASSUME NEW op \in Operation, NEW S, NEW next \in AfterDisposal
    PROVE  Disposing(op, S, next).pc # "gate"
<1>1. CASE S = {} /\ next = "idle"
  BY <1>1 DEF Disposing, Idle
<1>2. CASE S = {} /\ next # "idle"
  <2>1. Disposing(op, S, next) = [op EXCEPT !.disposals = {}, !.next = "idle", !.pc = next]
    BY <1>2 DEF Disposing
  <2> QED
    BY <2>1 DEF AfterDisposal, Operation
<1>3. CASE S # {}
  <2>1. Disposing(op, S, next) =
            [op EXCEPT !.disposals = S, !.next = next, !.pc = "dispose"]
    BY <1>3 DEF Disposing
  <2> QED
    BY <2>1 DEF Operation
<1> QED
  BY <1>1, <1>2, <1>3

\* Its operation goes on away from the gate.
Away(c) == \E op, processes : Go(c, op, processes) /\ op.pc # "gate"

LEMMA GoesOnAway ==
    ASSUME NEW c, NEW op, NEW processes, Go(c, op, processes), op.pc # "gate"
    PROVE  Away(c)
  BY DEF Away

LEMMA StepQueues ==
    ASSUME IInv, NEW c \in Operations, Step(c)
    PROVE  Queues(c)
<1> DEFINE op == operations[c]
<1>1. op \in Operation /\ Concerns(op)
  BY AnOperation
<1>2. ASSUME NEW S, NEW next \in AfterDisposal
      PROVE  /\ Disposing(op, S, next).pc # "gate"
             /\ Disposing([op EXCEPT !.host = None], S, next).pc # "gate"
             /\ \A P \in SUBSET Plugins :
                    Disposing([op EXCEPT !.plugins = P], S, next).pc # "gate"
  <2>1. /\ [op EXCEPT !.host = None] \in Operation
        /\ \A P \in SUBSET Plugins : [op EXCEPT !.plugins = P] \in Operation
    BY <1>1 DEF Operation
  <2> QED
    BY <1>1, <2>1, DisposingPlace
<1>3. Idle.pc # "gate" /\ NextItem(op).pc # "gate"
  BY <1>1 DEF Idle, NextItem, Operation
<1>4. {"clean", "start", "idle", "drop_guard", "orphans", "prune", "clear"} \subseteq AfterDisposal
  BY DEF AfterDisposal
<1>5. /\ Same => SameSetup /\ UNCHANGED gate_queue
      /\ \A place \in Places \ {"gate"} : At(c, place) => ~At(c, "gate")
      /\ \A place \in Places : [op EXCEPT !.pc = place].pc = place
  BY <1>1 DEF Same, At, Operation
<1>6. CASE EnterGate(c)
  <2>1. FirstPlace(op.kind) # "gate"
    BY <1>1 DEF FirstPlace, Operation
  <2> DEFINE new == [op EXCEPT !.gate = IF Exclusive(op.kind) THEN "write" ELSE "read",
                               !.pc = FirstPlace(op.kind)]
  <2>2. Go(c, new, hosts) /\ new.pc = FirstPlace(op.kind)
    BY <1>1, <1>6 DEF EnterGate, Operation
  <2> HIDE DEF new
  <2>3. operations'[c].pc = FirstPlace(op.kind)
    BY <2>2, Went
  <2> QED
    BY <1>6, <2>1, <2>2, <2>3, Went DEF EnterGate, Queues
<1>7. CASE Recycled(c)
  <2>1. [Idle EXCEPT !.kind = "dispose_idle", !.pc = "gate"].pc = "gate"
    BY DEF Idle
  <2> QED
    BY <1>7, <2>1, Went DEF Recycled, Queues, At
<1>8. CASE \/ LockPlugin(c) \/ ExecuteIfRunning(c) \/ LockDisposal(c) \/ Recycle(c)
           \/ DropGuard(c) \/ FindWarm(c) \/ Replied(c) \/ Start(c)
  <2>1. ~At(c, "gate") /\ SameSetup /\ UNCHANGED gate_queue
    BY <1>5, <1>8 DEF LockPlugin, ExecuteIfRunning, LockDisposal, Recycle, DropGuard, FindWarm,
                      Replied, Start, At
  <2>2. Away(c)
    <3>1. CASE LockPlugin(c)
      <4> DEFINE new == [op EXCEPT !.guard = TRUE,
                                !.pc = CASE op.kind = "recycle" -> "current"
                                         [] op.kind = "dispose_plugin" -> "dispose_plugin"
                                         [] OTHER -> "warm"]
      <4>1. Go(c, new, hosts)
        BY <3>1 DEF LockPlugin
      <4>2. new.pc # "gate"
        BY <1>1 DEF Operation
      <4> HIDE DEF new
      <4> QED
        BY <4>1, <4>2, GoesOnAway
    <3>2. CASE ExecuteIfRunning(c)
      <4> DEFINE called == [op EXCEPT !.pc = "reply"]
                 missed == [op EXCEPT !.pc = "remove", !.next = "clean"]
      <4>1. \/ Go(c, called, [hosts EXCEPT ![op.host].holder = c])
            \/ Go(c, missed, hosts)
        BY <3>2 DEF ExecuteIfRunning
      <4>2. called.pc # "gate" /\ missed.pc # "gate"
        BY <1>1 DEF Operation
      <4> HIDE DEF called, missed
      <4> QED
        BY <4>1, <4>2, GoesOnAway
    <3>3. CASE LockDisposal(c)
      <4> DEFINE new == [op EXCEPT !.pc = "deactivate"]
      <4>1. \E processes : Go(c, new, processes)
        BY <3>3 DEF LockDisposal
      <4>2. new.pc # "gate"
        BY <1>1 DEF Operation
      <4> HIDE DEF new
      <4> QED
        BY <4>1, <4>2, GoesOnAway
    <3>4. CASE Recycle(c)
      <4> DEFINE new == [op EXCEPT !.pc = "take"]
      <4>1. Go(c, new, Killed(op.host)) \/ Go(c, NextItem(op), hosts)
        BY <3>4 DEF Recycle
      <4>2. new.pc # "gate"
        BY <1>1 DEF Operation
      <4> HIDE DEF new
      <4> QED
        BY <1>3, <4>1, <4>2, GoesOnAway
    <3>5. CASE DropGuard(c)
      <4> DEFINE new == [op EXCEPT !.guard = FALSE, !.pc = "remove_lock"]
      <4>1. Go(c, new, hosts)
        BY <3>5 DEF DropGuard
      <4>2. new.pc # "gate"
        BY <1>1 DEF Operation
      <4> HIDE DEF new
      <4> QED
        BY <4>1, <4>2, GoesOnAway
    <3>6. CASE FindWarm(c)
      <4> DEFINE new == IF instances[op.key] = None THEN [op EXCEPT !.pc = "clean"]
                        ELSE [op EXCEPT !.host = instances[op.key], !.pc = "process"]
      <4>1. Go(c, new, hosts)
        BY <3>6 DEF FindWarm
      <4>2. new.pc # "gate"
        BY <1>1 DEF Operation
      <4> HIDE DEF new
      <4> QED
        BY <4>1, <4>2, GoesOnAway
    <3>7. CASE Replied(c)
      <4> DEFINE failed == [op EXCEPT !.pc = "remove", !.next = "idle"]
      <4>1. \/ Go(c, Idle, [hosts EXCEPT ![op.host].holder = None])
            \/ \E state : Go(c, failed, [hosts EXCEPT ![op.host].state = state,
                                                     ![op.host].holder = None])
        BY <3>7 DEF Replied
      <4>2. failed.pc # "gate"
        BY <1>1 DEF Operation
      <4> HIDE DEF failed
      <4> QED
        BY <1>3, <4>1, <4>2, GoesOnAway
    <3>8. CASE Start(c)
      <4>1. ASSUME NEW h \in Hosts,
                   Go(c, [op EXCEPT !.host = h, !.pc = "cold"], [hosts EXCEPT ![h] = Started])
            PROVE  Away(c)
        <5> DEFINE new == [op EXCEPT !.host = h, !.pc = "cold"]
        <5>1. new.pc # "gate"
          BY <1>1 DEF Operation
        <5>2. Go(c, new, [hosts EXCEPT ![h] = Started])
          BY <4>1
        <5> HIDE DEF new
        <5> QED
          BY <5>1, <5>2, GoesOnAway
      <4>2. CASE Go(c, Idle, hosts)
        BY <1>3, <4>2, GoesOnAway
      <4> QED
        BY <3>8, <4>1, <4>2 DEF Start
    <3> QED
      BY <1>8, <3>1, <3>2, <3>3, <3>4, <3>5, <3>6, <3>7, <3>8
  <2> QED
    BY <2>1, <2>2, AwayFromGate DEF Away
<1>9. CASE \/ plugin_lock_for(c) \/ remove_plugin_lock_if_unused(c) \/ RemoveIfCurrent(c)
           \/ Clean(c) \/ ColdCallFails(c) \/ Insert(c) \/ FinishDisposal(c)
           \/ dispose_plugin(c) \/ retain_plugins(c)
  <2>1. ~At(c, "gate") /\ SameSetup /\ UNCHANGED gate_queue
    BY <1>5, <1>9 DEF plugin_lock_for, remove_plugin_lock_if_unused, RemoveIfCurrent, Clean,
                      ColdCallFails, Insert, FinishDisposal, dispose_plugin, retain_plugins, At
  <2>2. Away(c)
    <3>1. CASE plugin_lock_for(c)
      <4>1. PICK l : Go(c, [op EXCEPT !.lock = l, !.pc = "plugin"], hosts)
        BY <3>1 DEF plugin_lock_for
      <4> DEFINE new == [op EXCEPT !.lock = l, !.pc = "plugin"]
      <4>2. new.pc # "gate"
        BY <1>1 DEF Operation
      <4>3. Go(c, new, hosts)
        BY <4>1
      <4> HIDE DEF new
      <4> QED
        BY <4>2, <4>3, GoesOnAway
    <3>2. CASE remove_plugin_lock_if_unused(c)
      <4>1. Go(c, NextItem(op), hosts) \/ Go(c, Idle, hosts)
        BY <3>2 DEF remove_plugin_lock_if_unused
      <4> QED
        BY <1>3, <4>1, GoesOnAway
    <3>3. CASE RemoveIfCurrent(c)
      <4>1. op.next \in AfterDisposal
        BY <1>1, <1>4, <3>3 DEF RemoveIfCurrent, At, Concerns
      <4> QED
        BY <1>2, <3>3, <4>1, GoesOnAway DEF RemoveIfCurrent
    <3>4. CASE Clean(c)
      BY <1>2, <1>4, <3>4, GoesOnAway DEF Clean
    <3>5. CASE ColdCallFails(c)
      BY <1>2, <1>4, <3>5, GoesOnAway DEF ColdCallFails
    <3>6. CASE Insert(c)
      <4>1. \/ Go(c, Idle, hosts)
            \/ \E h : Go(c, Disposing(op, {h}, "idle"), hosts)
        BY <3>6 DEF Insert
      <4> QED
        BY <1>2, <1>3, <1>4, <4>1, GoesOnAway
    <3>7. CASE FinishDisposal(c)
      <4>1. op.next \in AfterDisposal
        BY <1>1, <3>7 DEF FinishDisposal, At, Concerns
      <4> QED
        BY <1>2, <3>7, <4>1, GoesOnAway DEF FinishDisposal
    <3>8. CASE dispose_plugin(c)
      BY <1>2, <1>4, <3>8, GoesOnAway DEF dispose_plugin
    <3>9. CASE retain_plugins(c)
      <4> DEFINE removed == {k \in Warm : PluginOf[k] \notin op.plugins}
                 P == {PluginOf[k] : k \in removed}
      <4>1. P \in SUBSET Plugins
        BY ExtensionHostsAssumption DEF ExtensionHostsAssumption, Warm
      <4>2. Go(c, Disposing([op EXCEPT !.plugins = P], {instances[k] : k \in removed}, "orphans"),
               hosts)
        BY <3>9 DEF retain_plugins
      <4> HIDE DEF P, removed
      <4> QED
        BY <1>2, <1>4, <4>1, <4>2, GoesOnAway
    <3> QED
      BY <1>9, <3>1, <3>2, <3>3, <3>4, <3>5, <3>6, <3>7, <3>8, <3>9
  <2> QED
    BY <2>1, <2>2, AwayFromGate DEF Away
<1>10. CASE \/ remove_plugin_lock_if_orphaned(c) \/ dispose_idle(c)
            \/ prune_orphaned_plugin_locks(c) \/ dispose_all(c) \/ ClearLocks(c)
            \/ CopyInstances(c) \/ NextIdle(c) \/ CheckCurrent(c) \/ TakeRecycled(c)
            \/ AbortIfCurrent(c)
  <2>1. ~At(c, "gate") /\ SameSetup /\ UNCHANGED gate_queue
    BY <1>5, <1>10 DEF remove_plugin_lock_if_orphaned, dispose_idle, prune_orphaned_plugin_locks,
        dispose_all, ClearLocks, CopyInstances, NextIdle, CheckCurrent, TakeRecycled,
        AbortIfCurrent, At
  <2>2. Away(c)
    <3>1. CASE remove_plugin_lock_if_orphaned(c)
      BY <1>3, <3>1, GoesOnAway DEF remove_plugin_lock_if_orphaned
    <3>2. CASE dispose_idle(c)
      BY <1>2, <1>4, <3>2, GoesOnAway DEF dispose_idle
    <3>3. CASE prune_orphaned_plugin_locks(c)
      BY <1>3, <3>3, GoesOnAway DEF prune_orphaned_plugin_locks
    <3>4. CASE dispose_all(c)
      BY <1>2, <1>4, <3>4, GoesOnAway DEF dispose_all
    <3>5. CASE ClearLocks(c)
      BY <1>3, <3>5, GoesOnAway DEF ClearLocks
    <3>6. CASE CopyInstances(c)
      <4> DEFINE new == [op EXCEPT !.todo = {<<k, instances[k]>> : k \in Warm}, !.pc = "pick"]
      <4>1. Go(c, new, hosts)
        BY <3>6 DEF CopyInstances
      <4>2. new.pc # "gate"
        BY <1>1 DEF Operation
      <4> HIDE DEF new
      <4> QED
        BY <4>1, <4>2, GoesOnAway
    <3>7. CASE NextIdle(c)
      <4>1. PICK x : LET lock == plugin_locks[PluginOf[x[1]]]
                         rest == [op EXCEPT !.todo = @ \ {x}]
                     IN  Go(c, IF lock = None THEN rest
                               ELSE [rest EXCEPT !.key = x[1], !.plugin = PluginOf[x[1]],
                                                 !.host = x[2], !.lock = lock, !.pc = "plugin"],
                            hosts)
        BY <3>7 DEF NextIdle
      <4> DEFINE lock == plugin_locks[PluginOf[x[1]]]
                 rest == [op EXCEPT !.todo = @ \ {x}]
                 new == IF lock = None THEN rest
                        ELSE [rest EXCEPT !.key = x[1], !.plugin = PluginOf[x[1]],
                                          !.host = x[2], !.lock = lock, !.pc = "plugin"]
      <4>2. op.pc = "pick"
        BY <3>7 DEF NextIdle, At
      <4>3. new.pc # "gate"
        BY <1>1, <4>2 DEF Operation
      <4>4. Go(c, new, hosts)
        BY <4>1
      <4> HIDE DEF new
      <4> QED
        BY <4>3, <4>4, GoesOnAway
    <3>8. CASE CheckCurrent(c)
      <4> DEFINE new == [op EXCEPT !.pc = "recycle"]
      <4>1. Go(c, new, hosts) \/ Go(c, NextItem(op), hosts)
        BY <3>8 DEF CheckCurrent
      <4>2. new.pc # "gate"
        BY <1>1 DEF Operation
      <4> HIDE DEF new
      <4> QED
        BY <1>3, <4>1, <4>2, GoesOnAway
    <3>9. CASE TakeRecycled(c)
      <4> DEFINE new == Disposing([op EXCEPT !.host = None], {op.host}, "drop_guard")
      <4>1. Go(c, new, hosts) \/ Go(c, NextItem(op), hosts)
        BY <3>9 DEF TakeRecycled
      <4>2. new.pc # "gate"
        BY <1>2, <1>4
      <4> HIDE DEF new
      <4> QED
        BY <1>3, <4>1, <4>2, GoesOnAway
    <3>10. CASE AbortIfCurrent(c)
      BY <1>3, <3>10, GoesOnAway DEF AbortIfCurrent
    <3> QED
      BY <1>10, <3>1, <3>2, <3>3, <3>4, <3>5, <3>6, <3>7, <3>8, <3>9, <3>10
  <2> QED
    BY <2>1, <2>2, AwayFromGate DEF Away
<1> QED
  BY <1>6, <1>7, <1>8, <1>9, <1>10 DEF Step

\* An operation begins, or is cut.
LEMMA BeginQueues ==
    ASSUME IInv, NEW c \in Operations, NEW op \in Operation, Begin(c, op)
    PROVE  Queues(c)
<1>1. [op EXCEPT !.pc = "gate"].pc = "gate"
  BY DEF Operation
<1> QED
  BY <1>1, Went DEF Begin, Queues, At

LEMMA CutQueues ==
    ASSUME IInv, NEW c \in Operations, Cut(c) \/ DeadlinePasses(c)
    PROVE  Queues(c)
<1>1. operations[c] \in Operation /\ Idle.pc # "gate"
  BY AnOperation DEF Idle
<1>2. CASE Cut(c)
  BY <1>1, <1>2, Went DEF Cut, Queues
<1>3. CASE DeadlinePasses(c)
  <2>1. ~At(c, "gate") /\ SameSetup /\ UNCHANGED gate_queue
    BY <1>3 DEF DeadlinePasses, At
  <2>2. Away(c)
    <3> DEFINE op == operations[c]
               new == IF op.host = None THEN Idle
                      ELSE [op EXCEPT !.disposals = {}, !.pc = "abort"]
    <3>1. new.pc # "gate"
      BY <1>1 DEF Operation
    <3>2. \E processes : Go(c, new, processes)
      BY <1>3 DEF DeadlinePasses
    <3> HIDE DEF new
    <3> QED
      BY <3>1, <3>2, GoesOnAway
  <2> QED
    BY <2>1, <2>2, AwayFromGate DEF Away
<1> QED
  BY <1>2, <1>3

LEMMA FreshQueues ==
    ASSUME IInv, NEW c \in Operations, Call(c) \/ Retain(c) \/ Dispose(c) \/ (c = Sweeper /\ Sweep)
    PROVE  Queues(c)
<1>1. Idle \in Operation
  BY IdleIsSound DEF Sound
<1>2. CASE Call(c)
  <2> DEFINE kind == IF registry = "gateway" THEN "hook" ELSE "command"
  <2>1. PICK k \in Keys :
          Begin(c, [Idle EXCEPT !.kind = kind, !.key = k, !.plugin = PluginOf[k]])
    BY <1>2 DEF Call
  <2>2. PluginOf[k] \in Plugins /\ kind \in {"hook", "command"}
    BY ExtensionHostsAssumption DEF ExtensionHostsAssumption
  <2> HIDE DEF kind
  <2>3. [Idle EXCEPT !.kind = kind, !.key = k, !.plugin = PluginOf[k]] \in Operation
    BY <1>1, <2>2 DEF Operation
  <2> QED
    BY <2>1, <2>3, BeginQueues
<1>3. CASE Retain(c)
  <2>1. PICK S \in SUBSET Plugins : Begin(c, [Idle EXCEPT !.kind = "retain", !.plugins = S])
    BY <1>3 DEF Retain
  <2>2. [Idle EXCEPT !.kind = "retain", !.plugins = S] \in Operation
    BY <1>1 DEF Operation
  <2> QED
    BY <2>1, <2>2, BeginQueues
<1>4. CASE Dispose(c)
  <2>1. /\ \A p \in Plugins : [Idle EXCEPT !.kind = "dispose_plugin", !.plugin = p] \in Operation
        /\ [Idle EXCEPT !.kind = "dispose_all"] \in Operation
    BY <1>1 DEF Operation
  <2> QED
    BY <1>4, <2>1, BeginQueues DEF Dispose
<1>5. CASE c = Sweeper /\ Sweep
  <2>1. [Idle EXCEPT !.kind = "recycle"] \in Operation
    BY <1>1 DEF Operation
  <2> QED
    BY <1>5, <2>1, BeginQueues DEF Sweep
<1> QED
  BY <1>2, <1>3, <1>4, <1>5

LEMMA NextQueues ==
    ASSUME IInv, QueueInv, [Next]_vars
    PROVE  QueueInv'
<1>1. Callers \subseteq Operations /\ Lifecycle \subseteq Operations /\ Sweeper \in Operations
  BY DEF Operations
<1>2. ASSUME UNCHANGED <<registry, max_warm_instances, gate_queue, operations>>
      PROVE  QueueInv'
  BY <1>2 DEF QueueInv, At
<1>3. ASSUME NEW h \in Hosts, Abort(h) \/ ChildExits(h)
      PROVE  QueueInv'
  BY <1>2, <1>3 DEF Abort, ChildExits, Same, SameSetup
<1>4. CASE UNCHANGED vars
  BY <1>2, <1>4 DEF vars
<1>5. CASE Next
  BY <1>1, <1>3, <1>5, StepQueues, CutQueues, FreshQueues, QueuesPreserve DEF Next
<1> QED
  BY <1>4, <1>5

LEMMA QueueHolds == Spec => []QueueInv
<1>1. Init => QueueInv
  <2> SUFFICES ASSUME Init PROVE QueueInv
    OBVIOUS
  <2>1. <<registry, max_warm_instances>> \in Setups
    BY ExtensionHostsAssumption DEF ExtensionHostsAssumption, Init
  <2>2. {c \in Operations : At(c, "gate")} = {}
    BY IdleIsSound DEF Init, At
  <2> QED
    BY <2>1, <2>2 DEF Init, QueueInv, InQueue, Once
<1>2. IInv /\ QueueInv /\ [Next]_vars => QueueInv'
  BY NextQueues
<1> QED
  BY <1>1, <1>2, InvariantHolds, PTL DEF Spec

\* Every state is well typed, and exactly the operations that wait for operation_gate are in
\* its queue, each once: also when a hook that waits is cut, or the sweeper comes back for
\* its second turn (execute_gateway_hook, recycle_idle_processes, dispose_idle).
THEOREM TypeCorrect == Spec => []TypeOK
<1>1. IInv /\ QueueInv => TypeOK
  BY DEF IInv, Types, QueueInv, InQueue, Once, At, TypeOK
<1> QED
  BY <1>1, InvariantHolds, QueueHolds, PTL

=============================================================================
