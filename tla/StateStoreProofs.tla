--------------------------- MODULE StateStoreProofs ---------------------------
(***************************************************************************)
(* StateStore keeps its type, always finds the snapshot it needs, and      *)
(* implements AtomicStore.                                                 *)
(***************************************************************************)
EXTENDS StateStore, TLAPS

-----------------------------------------------------------------------------
(* The inductive invariant.                                                *)

\* What Boot is doing and what the log says go together.
LogSound ==
    /\ at \in {"idle", "snapshotting"} => log = "none"
    /\ at \in {"open", "restoring"} => log = "begun"
    /\ log = "begun" => snapshot \in Contents

\* A file is Torn while it is written, and writes are made in three phases.
WriteSound ==
    /\ write # NoWrite => /\ at \in {"idle", "open", "restoring"}
                          /\ files[write.key] = Torn
    /\ at = "restoring" =>
          /\ todo \subseteq Kept(snapshot)
          /\ write # NoWrite => /\ write.entry = snapshot[write.key]
                                /\ write.key \in Kept(snapshot)

\* Memory, files and snapshot agree as far as they have to.
CacheSound ==
    /\ at \in {"idle", "snapshotting", "open", "removing"} =>
          \A k \in Kept(cache) : files[k] = cache[k] \/ k = write.key
    /\ at = "snapshotting" => snapshot \in {Torn, cache}
    /\ at = "open" => Kept(snapshot) \subseteq Kept(cache)
    /\ at = "restoring" =>
          \A k \in Kept(snapshot) \ todo :
              files[k] = snapshot[k] \/ k = write.key
    /\ at = "removing" /\ log = "begun" => cache = snapshot

IInv == TypeOK /\ LogSound /\ WriteSound /\ CacheSound

-----------------------------------------------------------------------------

LEMMA InitInv == Init => IInv
  BY StoreAssumption
     DEF Init, IInv, TypeOK, LogSound, WriteSound, CacheSound, Contents,
         Phases, NoWrite, Kept

\* Loading gives contents.
LEMMA LoadedType == TypeOK => Loaded \in Contents
  BY DEF TypeOK, Loaded, Contents

\* A truncated file is not read.
LEMMA LoadedTorn ==
  ASSUME TypeOK, NEW k \in Keys, files' = [files EXCEPT ![k] = Torn]
  PROVE  Loaded' = [Loaded EXCEPT ![k] = Absent]
  BY StoreAssumption DEF TypeOK, Loaded

LEMMA NextInv == IInv /\ [Next]_vars => IInv'
<1> SUFFICES ASSUME IInv, [Next]_vars PROVE IInv'
  OBVIOUS
<1> USE StoreAssumption
        DEF IInv, TypeOK, LogSound, WriteSound, CacheSound, Phases, NoWrite
<1>1. CASE Load
  BY <1>1, LoadedType DEF Load, Loaded, Kept, Contents
<1>2. CASE Fill
  BY <1>2 DEF Fill, Kept, Contents
<1>3. ASSUME NEW k \in Keys, NEW e \in Entries, Set(k, e) \/ Transform(k, e)
      PROVE IInv'
  BY <1>3 DEF Set, Transform, Truncate, Kept, Contents
<1>4. CASE Snapshot
  BY <1>4 DEF Snapshot, Kept, Contents
<1>5. CASE SnapshotWritten
  BY <1>5 DEF SnapshotWritten, Kept, Contents
<1>6. CASE Begin
  BY <1>6 DEF Begin, Kept, Contents
<1>7. CASE Commit
  BY <1>7 DEF Commit, Kept, Contents
<1>8. CASE Abort
  BY <1>8 DEF Abort, Kept, Contents
<1>9. ASSUME NEW k \in Keys, RestoreKey(k)
      PROVE IInv'
  BY <1>9 DEF RestoreKey, Truncate, Kept, Contents
<1>10. CASE Restored
  BY <1>10 DEF Restored, Kept, Contents
<1>11. CASE RemoveLog
  BY <1>11 DEF RemoveLog, Kept, Contents
<1>12. CASE Crash
  BY <1>12 DEF Crash, Kept, Contents
<1>13. CASE UNCHANGED vars
  BY <1>13 DEF vars, Kept, Contents
<1> QED
  BY <1>1, <1>2, <1>3, <1>4, <1>5, <1>6, <1>7, <1>8, <1>9, <1>10, <1>11,
     <1>12, <1>13 DEF Next

LEMMA Inductive == Spec => []IInv
  BY InitInv, NextInv, PTL DEF Spec
-----------------------------------------------------------------------------
(* Type, recovery and durability.                                          *)

\* Every variable keeps its type, for all keys and values.
THEOREM TypeCorrect == Spec => []TypeOK
<1>1. IInv => TypeOK
  BY DEF IInv
<1> QED
  BY Inductive, <1>1, PTL

\* A log that asks for a rollback names a snapshot that is whole: Boot can
\* always start (recover_from_wal).
THEOREM Recoverable == Spec => []SnapshotUsable
<1>1. IInv => SnapshotUsable
  BY DEF IInv, LogSound, SnapshotUsable
<1> QED
  BY Inductive, <1>1, PTL

\* Outside migrations nothing lives in memory only (set, restore_from_snapshot).
THEOREM Durable == Spec => []CacheOnDisk
<1>1. IInv => CacheOnDisk
  BY DEF IInv, CacheSound, CacheOnDisk
<1> QED
  BY Inductive, <1>1, PTL

-----------------------------------------------------------------------------
(* Refinement.                                                             *)

\* An installation starts with its files as contents and nothing left over.
LEMMA InitRefines == Init => Atomic!Init
  BY StoreAssumption
     DEF Init, Atomic!Init, Atomic!Empty, Effective, Draft, Writing, Leftover,
         Loaded, Contents, NoWrite

\* Every step of the store is a step of AtomicStore or changes nothing there.
LEMMA StepRefines == IInv /\ IInv' /\ [Next]_vars => [Atomic!Next]_Atomic!vars
<1> SUFFICES ASSUME IInv, IInv', [Next]_vars
             PROVE  Atomic!Next \/ UNCHANGED Atomic!vars
  BY DEF Atomic!vars
<1> USE StoreAssumption
        DEF IInv, TypeOK, LogSound, WriteSound, CacheSound, NoWrite, Kept,
            Contents, Effective, Draft, Writing, Leftover, Loaded
<1>1. CASE Load
  BY <1>1 DEF Load, Atomic!vars
<1>2. CASE Fill
  <2>0. PICK k \in Keys, e \in Entries : write = [key |-> k, entry |-> e]
    BY <1>2 DEF Fill
  <2>1. CASE at = "idle"
    <3>1. Effective = cache /\ Effective' = [cache EXCEPT ![k] = e]
      BY <1>2, <2>0, <2>1 DEF Fill
    <3>2. Leftover' = Leftover
      BY <1>2, <2>0, <2>1, <3>1 DEF Fill
    <3>3. Atomic!Set(e)
      BY <1>2, <2>0, <2>1, <3>1, <3>2 DEF Fill, Atomic!Set
    <3> QED
      BY <3>3 DEF Atomic!Next
  <2>2. CASE at = "open"
    <3>1. /\ Effective = snapshot /\ Effective' = snapshot
          /\ Draft = cache /\ Draft' = [cache EXCEPT ![k] = e]
      BY <1>2, <2>0, <2>2 DEF Fill
    <3>2. Leftover' = IF snapshot[k] = Absent THEN [Leftover EXCEPT ![k] = e]
                      ELSE Leftover
      BY <1>2, <2>0, <2>2, <3>1 DEF Fill
    <3>3. Atomic!Transform(e)
      BY <1>2, <2>0, <2>2, <3>1, <3>2 DEF Fill, Atomic!Transform
    <3> QED
      BY <3>3 DEF Atomic!Next
  <2>3. CASE at = "restoring"
    BY <1>2, <2>3 DEF Fill, Atomic!vars
  <2> QED
    BY <1>2, <2>1, <2>2, <2>3 DEF Fill
<1>3. ASSUME NEW k \in Keys, NEW e \in Entries, Set(k, e) \/ Transform(k, e)
      PROVE  Atomic!Next
  <2>1. /\ Effective' = Effective /\ Draft' = Draft
        /\ Writing = Absent /\ Writing' = k
    BY <1>3 DEF Set, Transform, Truncate
  <2>2. Leftover' = [Leftover EXCEPT ![k] = Absent]
    <3>1. Loaded' = [Loaded EXCEPT ![k] = Absent]
      BY <1>3, LoadedTorn DEF Set, Transform, Truncate
    <3>2. Loaded \in Contents
      BY LoadedType
    <3> HIDE DEF Loaded, Effective
    <3> QED
      BY <2>1, <3>1, <3>2
  <2>3. Atomic!StartWrite(k)
    BY <1>3, <2>1, <2>2 DEF Set, Transform, Atomic!StartWrite
  <2> QED
    BY <2>3 DEF Atomic!Next
<1>4. CASE Snapshot
  BY <1>4 DEF Snapshot, Atomic!vars
<1>5. CASE SnapshotWritten
  BY <1>5 DEF SnapshotWritten, Atomic!vars
<1>6. CASE Begin
  BY <1>6 DEF Begin, Atomic!Begin, Atomic!Next
<1>7. CASE Commit
  BY <1>7 DEF Commit, Atomic!Commit, Atomic!Hidden, Atomic!Next
<1>8. CASE Abort
  BY <1>8 DEF Abort, Atomic!Rollback, Atomic!Next
<1>9. ASSUME NEW k \in Keys, RestoreKey(k)
      PROVE  UNCHANGED Atomic!vars
  BY <1>9 DEF RestoreKey, Truncate, Atomic!vars
<1>10. CASE Restored
  BY <1>10 DEF Restored, Atomic!vars
<1>11. CASE RemoveLog
  BY <1>11 DEF RemoveLog, Atomic!vars
<1>12. CASE Crash
  <2>1. CASE at = "open"
    BY <1>12, <2>1 DEF Crash, Atomic!StopInMigration, Atomic!Next
  <2>2. CASE at # "open" /\ log = "begun"
    BY <1>12, <2>2 DEF Crash, Atomic!vars
  <2>3. CASE at # "open" /\ log # "begun"
    <3>1. /\ at \in {"idle", "snapshotting", "removing"}
          /\ Effective = cache /\ Writing = write.key
      BY <1>12, <2>3 DEF Crash, Phases
    <3>2. Effective' = Loaded /\ Draft' = Loaded /\ Writing' = Absent
      <4>1. /\ log' # "begun" /\ at' = "down" /\ write'.key = Absent
            /\ Loaded' = Loaded
        BY <1>12, <2>3 DEF Crash
      <4> HIDE DEF Loaded
      <4> QED
        BY <4>1
    <3>3. ASSUME NEW k \in Keys
          PROVE  Loaded[k] = IF k = Writing THEN Absent
                             ELSE IF cache[k] = Absent THEN Leftover[k]
                             ELSE cache[k]
      BY <3>1
    <3>4. Leftover' = [k \in Keys |-> Absent]
      BY <1>12, <3>2 DEF Crash
    <3>5. Loaded = [k \in Keys |-> IF k = Writing THEN Absent
                                  ELSE Atomic!Revived(Effective)[k]]
      BY <3>1, <3>3 DEF Atomic!Revived
    <3>6. Atomic!StopOutside
      BY <1>12, <2>3, <3>2, <3>4, <3>5 DEF Crash, Atomic!StopOutside, Atomic!Empty
    <3> QED
      BY <3>6 DEF Atomic!Next
  <2> QED
    BY <2>1, <2>2, <2>3
<1>13. CASE UNCHANGED vars
  BY <1>13 DEF vars, Atomic!vars
<1> QED
  BY <1>1, <1>2, <1>3, <1>4, <1>5, <1>6, <1>7, <1>8, <1>9, <1>10, <1>11,
     <1>12, <1>13 DEF Next

\* Migrations are atomic: their changes take effect together or not at all,
\* whenever Boot stops (MigrationTransaction, recover_from_wal).
THEOREM Refinement == Spec => MigrationsAtomic
  BY InitRefines, StepRefines, Inductive, PTL
     DEF Spec, MigrationsAtomic, Atomic!Spec
=============================================================================
