------------------------------ MODULE StateStore ------------------------------
(***************************************************************************)
(* The state store of Boot (crates/boot/src/state.rs): one file per key, a *)
(* cache of them in memory, and migrations with a snapshot and a           *)
(* write-ahead log.  Boot may stop between any two writes.                 *)
(*                                                                         *)
(* fs::write truncates a file and then fills it; a file truncated and not  *)
(* filled is Torn, and load_all skips it.  Of the log the model keeps what *)
(* recovery reads: whether it is there, and whether its last line is       *)
(* COMMIT.  (A line cut short is not parsed, so it is as good as absent;   *)
(* TRANSFORM and VALIDATE lines only say that the last is not COMMIT.)     *)
(* The log is removed before another migration begins, so it names one     *)
(* snapshot, the last one taken.                                           *)
(***************************************************************************)
CONSTANTS
    Keys,      \* names of values
    Entries,   \* values, each with its schema version
    Absent,    \* no file, no value
    Torn       \* a file that was truncated and not filled

ASSUME StoreAssumption ==
    /\ Absent # Torn
    /\ Entries \cap {Absent, Torn} = {}
    /\ Keys \cap {Absent, Torn} = {}

VARIABLES
    files,      \* state/<key>.json
    snapshot,   \* state/snapshots/snap_<from>_<to>.json of the last migration
    log,        \* state/wal/migration.log
    cache,      \* StateStore::cache
    at,         \* what Boot is doing
    write,      \* file write under way: its key and the value to fill in
    todo        \* keys restore_from_snapshot has still to write

vars == <<files, snapshot, log, cache, at, write, todo>>

Contents == [Keys -> Entries \cup {Absent}]
NoWrite == [key |-> Absent, entry |-> Absent]
Phases ==
    {"down",          \* Boot is not running
     "idle",          \* no migration
     "snapshotting",  \* begin: the snapshot file is being written
     "open",          \* a MigrationTransaction exists
     "restoring",     \* restore_from_snapshot writes the files
     "removing"}      \* nothing left to do but to remove the log

TypeOK ==
    /\ files \in [Keys -> Entries \cup {Absent, Torn}]
    /\ snapshot \in Contents \cup {Absent, Torn}
    /\ log \in {"none", "begun", "committed"}
    /\ cache \in Contents
    /\ at \in Phases
    /\ write \in [key : Keys, entry : Entries] \cup {NoWrite}
    /\ todo \subseteq Keys

\* An installation with any contents, before Boot starts.
Init ==
    /\ files \in Contents
    /\ snapshot = Absent
    /\ log = "none"
    /\ cache = [k \in Keys |-> Absent]
    /\ at = "down"
    /\ write = NoWrite
    /\ todo = {}

\* Mutant: an unreadable file is taken for a value.
LoadedUnchecked == files

\* What load_all reads.
Loaded == [k \in Keys |-> IF files[k] \in Entries THEN files[k] ELSE Absent]

\* The keys a snapshot holds.
Kept(s) == {k \in Keys : s[k] # Absent}

-----------------------------------------------------------------------------
(* fs::write of a key's file, in two steps.                                *)

Truncate(k, e) ==
    /\ write = NoWrite
    /\ write' = [key |-> k, entry |-> e]
    /\ files' = [files EXCEPT ![k] = Torn]

\* set: the cache follows once the file is written; restore_from_snapshot
\* replaces it at the end.
Fill ==
    /\ write # NoWrite
    /\ files' = [files EXCEPT ![write.key] = write.entry]
    /\ cache' = IF at = "restoring" THEN cache
                ELSE [cache EXCEPT ![write.key] = write.entry]
    /\ write' = NoWrite
    /\ UNCHANGED <<snapshot, log, at, todo>>

-----------------------------------------------------------------------------
(* Starting.                                                               *)

\* Mutant: a committed migration is taken for an incomplete one.
LoadRollsBack ==
    /\ at = "down"
    /\ cache' = Loaded
    /\ \/ log = "none" /\ at' = "idle" /\ UNCHANGED todo
       \/ log # "none" /\ at' = "restoring" /\ todo' = Kept(snapshot)
    /\ UNCHANGED <<files, snapshot, log, write>>

\* init: load_all, then recover_from_wal looks at the log.  A snapshot that
\* is not whole would keep Boot from starting: SnapshotUsable says there is
\* none, and that the code's skip of a missing one is never taken.
Load ==
    /\ at = "down"
    /\ cache' = Loaded
    /\ \/ log = "none" /\ at' = "idle" /\ UNCHANGED todo
       \/ log = "committed" /\ at' = "removing" /\ UNCHANGED todo
       \/ /\ log = "begun"
          /\ snapshot \notin {Absent, Torn}
          /\ at' = "restoring"
          /\ todo' = Kept(snapshot)
    /\ UNCHANGED <<files, snapshot, log, write>>

-----------------------------------------------------------------------------
(* Values and migrations.                                                  *)

Set(k, e) ==
    /\ at = "idle"
    /\ Truncate(k, e)
    /\ UNCHANGED <<snapshot, log, cache, at, todo>>

\* begin: the snapshot is written, then BEGIN_MIGRATION is logged.
Snapshot ==
    /\ at = "idle" /\ write = NoWrite
    /\ at' = "snapshotting"
    /\ snapshot' = Torn
    /\ UNCHANGED <<files, log, cache, write, todo>>

SnapshotWritten ==
    /\ at = "snapshotting" /\ snapshot = Torn
    /\ snapshot' = cache
    /\ UNCHANGED <<files, log, cache, at, write, todo>>

\* Mutant: BEGIN is logged without waiting for the snapshot.
BeginEarly ==
    /\ at = "snapshotting"
    /\ log' = "begun"
    /\ at' = "open"
    /\ UNCHANGED <<files, snapshot, cache, write, todo>>

Begin ==
    /\ at = "snapshotting" /\ snapshot # Torn
    /\ log' = "begun"
    /\ at' = "open"
    /\ UNCHANGED <<files, snapshot, cache, write, todo>>

\* transform: TRANSFORM is logged and the value set; the VALIDATE line comes
\* with the end of the write.
Transform(k, e) ==
    /\ at = "open"
    /\ Truncate(k, e)
    /\ UNCHANGED <<snapshot, log, cache, at, todo>>

Commit ==
    /\ at = "open" /\ write = NoWrite
    /\ log' = "committed"
    /\ at' = "removing"
    /\ UNCHANGED <<files, snapshot, cache, write, todo>>

\* The transaction is dropped without commit.
Abort ==
    /\ at = "open" /\ write = NoWrite
    /\ at' = "restoring"
    /\ todo' = Kept(snapshot)
    /\ UNCHANGED <<files, snapshot, log, cache, write>>

-----------------------------------------------------------------------------
(* restore_from_snapshot, for recovery and for a dropped transaction.      *)

RestoreKey(k) ==
    /\ at = "restoring"
    /\ k \in todo
    /\ todo' = todo \ {k}
    /\ Truncate(k, snapshot[k])
    /\ UNCHANGED <<snapshot, log, cache, at>>

\* Mutant: the files are restored, the cache is not.
RestoredFilesOnly ==
    /\ at = "restoring" /\ todo = {} /\ write = NoWrite
    /\ at' = "removing"
    /\ UNCHANGED <<files, snapshot, log, cache, write, todo>>

Restored ==
    /\ at = "restoring" /\ todo = {} /\ write = NoWrite
    /\ cache' = snapshot
    /\ at' = "removing"
    /\ UNCHANGED <<files, snapshot, log, write, todo>>

RemoveLog ==
    /\ at = "removing"
    /\ log' = "none"
    /\ at' = "idle"
    /\ UNCHANGED <<files, snapshot, cache, write, todo>>

-----------------------------------------------------------------------------

\* Boot stops, at any moment: memory is lost.
Crash ==
    /\ at # "down"
    /\ at' = "down"
    /\ cache' = [k \in Keys |-> Absent]
    /\ write' = NoWrite
    /\ todo' = {}
    /\ UNCHANGED <<files, snapshot, log>>

Next ==
    \/ Load
    \/ Fill
    \/ \E k \in Keys, e \in Entries : Set(k, e) \/ Transform(k, e)
    \/ Snapshot
    \/ SnapshotWritten
    \/ Begin
    \/ Commit
    \/ Abort
    \/ \E k \in Keys : RestoreKey(k)
    \/ Restored
    \/ RemoveLog
    \/ Crash

Spec == Init /\ [][Next]_vars

-----------------------------------------------------------------------------
(* Properties.                                                             *)

\* Outside migrations and restorations, what the store answers is what a
\* restart would read, but for the file being written: nothing lives in
\* memory only.
CacheOnDisk ==
    at \in {"idle", "snapshotting"} =>
        \A k \in Kept(cache) : files[k] = cache[k] \/ k = write.key

\* A log that asks for a rollback always finds the whole snapshot it needs:
\* recovery cannot make Boot refuse to start (the `?` in recover_from_wal).
SnapshotUsable == log = "begun" => snapshot \in Contents

\* The contents the store has, or will have after a restart.
Effective ==
    IF log = "begun" THEN snapshot
    ELSE IF at = "down" THEN Loaded ELSE cache

\* The contents with the changes of the open migration.
Draft == IF at = "open" THEN cache ELSE Effective

\* The key whose new value is being written (a restored value is not new).
Writing == IF at = "restoring" THEN Absent ELSE write.key

\* What lies in files and is not in the contents.
Leftover == [k \in Keys |-> IF Effective[k] = Absent THEN Loaded[k] ELSE Absent]

Atomic == INSTANCE AtomicStore WITH
    db <- Effective,
    draft <- Draft,
    open <- at = "open",
    writing <- Writing,
    leftover <- Leftover

\* The store keeps the promise of AtomicStore: migrations are atomic.
MigrationsAtomic == Atomic!Spec
=============================================================================
