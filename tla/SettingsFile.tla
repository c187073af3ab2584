----------------------------- MODULE SettingsFile -----------------------------
(***************************************************************************)
(* The settings file and its cache (infra/settings/persistence.rs).  An     *)
(* update reads, changes and writes the settings under SETTINGS_WRITE_LOCK; *)
(* a read takes no lock, fills the cache that the next update starts from,  *)
(* and writes the defaults when it finds no file.  A write goes through     *)
(* settings.json.tmp and settings.json.bak with two renames.                *)
(*                                                                          *)
(* Settings are a value per owner: each update changes the fields of one    *)
(* owner.  Any step on the disk may fail, and the process may end between   *)
(* any two.                                                                 *)
(***************************************************************************)
EXTENDS Naturals

CONSTANTS
    Owners,             \* writers, each with the fields it owns
    Readers,            \* threads that only read
    Values,             \* what a field may hold, 0 as its default
    MaxCrashes,         \* bound of the model
    None                \* no file, no cached settings, no holder of the lock

Settings == [Owners -> Values]
DefaultSettings == [o \in Owners |-> 0]
Threads == Owners \cup Readers

VARIABLES
    path, tmp, bak,     \* settings.json and its two companions
    cache,              \* SETTINGS_CACHE while it is fresh
    lock,               \* holder of SETTINGS_WRITE_LOCK
    threads,            \* where each thread is and the settings it holds
    committed,          \* history: what the last successful update wrote
    crashes

vars == <<path, tmp, bak, cache, lock, threads, committed, crashes>>
disk == <<path, tmp, bak>>

\* value: what an owner sets its fields to; mutated: it has done so.
Idle == [pc |-> "idle", settings |-> None, value |-> 0, mutated |-> FALSE]

Go(t, pc, settings) == [threads EXCEPT ![t].pc = pc, ![t].settings = settings]

\* read has its answer: an update changes it and writes, a plain read returns.
Answered(t, settings) ==
    IF t \in Owners
    THEN [threads EXCEPT ![t].pc = "write", ![t].mutated = TRUE,
                         ![t].settings = [settings EXCEPT ![t] = threads[t].value]]
    ELSE [threads EXCEPT ![t] = Idle]

Fail(t) ==
    /\ threads' = [threads EXCEPT ![t] = Idle]
    /\ lock' = IF lock = t THEN None ELSE lock

------------------------------------------------------------------------------
Init ==
    /\ path = DefaultSettings
    /\ tmp = None
    /\ bak = None
    /\ cache = None
    /\ lock = None
    /\ threads = [t \in Threads |-> Idle]
    /\ committed = DefaultSettings
    /\ crashes = 0

update(t) ==
    /\ t \in Owners /\ threads[t].pc = "idle" /\ lock = None
    /\ lock' = t
    /\ \E value \in Values :
          threads' = [threads EXCEPT ![t].pc = "read", ![t].value = value]
    /\ UNCHANGED <<disk, cache, committed, crashes>>

read(t) ==
    /\ t \in Readers /\ threads[t].pc = "idle"
    /\ threads' = [threads EXCEPT ![t].pc = "read"]
    /\ UNCHANGED <<disk, cache, lock, committed, crashes>>

(* read_unlocked.                                                          *)

ReadCache(t) ==
    /\ threads[t].pc = "read"
    /\ threads' = IF cache # None THEN Answered(t, cache)
                  ELSE IF path # None THEN Go(t, "load", None)
                  ELSE Go(t, "write", DefaultSettings)
    /\ UNCHANGED <<disk, cache, lock, committed, crashes>>

Load(t) ==
    /\ threads[t].pc = "load"
    /\ \/ /\ path # None
          /\ threads' = Go(t, "fill", path)
          /\ UNCHANGED lock
       \/ path = None /\ Fail(t)
    /\ UNCHANGED <<disk, cache, committed, crashes>>

cache_settings(t) ==
    /\ threads[t].pc = "fill"
    /\ cache' = threads[t].settings
    /\ threads' = Answered(t, threads[t].settings)
    /\ UNCHANGED <<disk, lock, committed, crashes>>

(* write_unlocked.                                                         *)

WriteTemp(t) ==
    /\ threads[t].pc = "write"
    /\ \/ /\ tmp' = threads[t].settings
          /\ threads' = [threads EXCEPT ![t].pc = "backup"]
          /\ UNCHANGED lock
       \/ Fail(t) /\ UNCHANGED tmp
    /\ UNCHANGED <<path, bak, cache, committed, crashes>>

BackUp(t) ==
    /\ threads[t].pc = "backup"
    /\ \/ /\ bak' = path
          /\ path' = None
          /\ threads' = [threads EXCEPT ![t].pc = "rename"]
          /\ UNCHANGED <<tmp, lock>>
       \/ /\ path # None
          /\ bak' = None
          /\ tmp' = None
          /\ Fail(t)
          /\ UNCHANGED path
    /\ UNCHANGED <<cache, committed, crashes>>

\* The temporary file may be gone: a read that wrote the defaults has the same one.
Finalize(t) ==
    /\ threads[t].pc = "rename"
    /\ \/ /\ tmp # None
          /\ path' = tmp
          /\ tmp' = None
          /\ threads' = [threads EXCEPT ![t].pc = "cache"]
          /\ UNCHANGED <<bak, lock>>
       \/ /\ \/ path' = (IF bak # None THEN bak ELSE path) /\ bak' = None
             \/ UNCHANGED <<path, bak>>
          /\ tmp' = IF bak # None THEN None ELSE tmp
          /\ Fail(t)
    /\ UNCHANGED <<cache, committed, crashes>>

\* The defaults are cached once more, and an update goes on with them.
Finish(t) ==
    LET thread == threads[t] IN
    /\ thread.pc = "cache"
    /\ bak' = None
    /\ cache' = thread.settings
    /\ IF thread.mutated
       THEN committed' = thread.settings /\ Fail(t)
       ELSE threads' = Answered(t, thread.settings) /\ UNCHANGED <<committed, lock>>
    /\ UNCHANGED <<path, tmp, crashes>>

\* CACHE_TTL
Expire ==
    /\ cache # None
    /\ cache' = None
    /\ UNCHANGED <<disk, lock, threads, committed, crashes>>

Crash ==
    /\ crashes < MaxCrashes
    /\ crashes' = crashes + 1
    /\ cache' = None
    /\ lock' = None
    /\ threads' = [t \in Threads |-> Idle]
    /\ UNCHANGED <<disk, committed>>

Next ==
    \/ Expire \/ Crash
    \/ \E t \in Threads :
          \/ update(t) \/ read(t) \/ ReadCache(t) \/ Load(t) \/ cache_settings(t)
          \/ WriteTemp(t) \/ BackUp(t) \/ Finalize(t) \/ Finish(t)

Spec == Init /\ [][Next]_vars

------------------------------------------------------------------------------
(* An update that succeeds keeps what the updates before it wrote, but for *)
(* the fields of its owner, who holds the lock then: whatever reads run     *)
(* beside it, it starts from the settings written last.                    *)
UnownedFieldsSurvive == [][\A o \in Owners \ {lock} : committed'[o] = committed[o]]_vars

=============================================================================
