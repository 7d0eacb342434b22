----------------------------- MODULE AtomicStore -----------------------------
(***************************************************************************)
(* What the state store promises: values set outside a migration replace   *)
(* the old ones, and the changes of a migration take effect together or    *)
(* not at all, whatever the moment Boot stops.                             *)
(*                                                                         *)
(* Two limits of the promise are part of it.  A value being set when Boot  *)
(* stops is lost, the old one with it.  And what a migration wrote to keys *)
(* that did not exist is left over when it is rolled back: it is in the    *)
(* store again after the next restart.                                     *)
(***************************************************************************)
CONSTANTS Keys, Entries, Absent

VARIABLES
    db,        \* the contents, as readers see them or will after a restart
    draft,     \* the contents with the changes of the open migration
    open,      \* is a migration open?
    writing,   \* key being written, Absent if none
    leftover   \* values that are not in db but reappear at a restart

vars == <<db, draft, open, writing, leftover>>

Empty == [k \in Keys |-> Absent]

\* Contents c after a restart: leftovers come back.
Revived(c) == [k \in Keys |-> IF c[k] = Absent THEN leftover[k] ELSE c[k]]

\* The leftovers that contents c do not hide.
Hidden(c) == [k \in Keys |-> IF c[k] = Absent THEN leftover[k] ELSE Absent]

Init ==
    /\ db \in [Keys -> Entries \cup {Absent}]
    /\ draft = db
    /\ open = FALSE
    /\ writing = Absent
    /\ leftover = Empty

StartWrite(k) ==
    /\ writing = Absent
    /\ writing' = k
    /\ leftover' = [leftover EXCEPT ![k] = Absent]
    /\ UNCHANGED <<db, draft, open>>

Set(e) ==
    /\ writing # Absent /\ ~open
    /\ writing' = Absent
    /\ db' = [db EXCEPT ![writing] = e]
    /\ draft' = db'
    /\ UNCHANGED <<open, leftover>>

Begin ==
    /\ ~open /\ writing = Absent
    /\ open' = TRUE
    /\ UNCHANGED <<db, draft, writing, leftover>>

Transform(e) ==
    /\ writing # Absent /\ open
    /\ writing' = Absent
    /\ draft' = [draft EXCEPT ![writing] = e]
    /\ leftover' = IF db[writing] = Absent
                   THEN [leftover EXCEPT ![writing] = e] ELSE leftover
    /\ UNCHANGED <<db, open>>

Commit ==
    /\ open /\ writing = Absent
    /\ open' = FALSE
    /\ db' = draft
    /\ leftover' = Hidden(draft)
    /\ UNCHANGED <<draft, writing>>

Rollback ==
    /\ open /\ writing = Absent
    /\ open' = FALSE
    /\ draft' = db
    /\ UNCHANGED <<db, writing, leftover>>

\* Boot stops and starts again: an open migration is rolled back, or what
\* was being set is lost and leftovers come back.
StopInMigration ==
    /\ open
    /\ open' = FALSE
    /\ writing' = Absent
    /\ draft' = db
    /\ UNCHANGED <<db, leftover>>

StopOutside ==
    /\ ~open
    /\ writing' = Absent
    /\ db' = [k \in Keys |-> IF k = writing THEN Absent ELSE Revived(db)[k]]
    /\ draft' = db'
    /\ leftover' = Empty
    /\ UNCHANGED open

Next ==
    \/ \E k \in Keys : StartWrite(k)
    \/ \E e \in Entries : Set(e) \/ Transform(e)
    \/ Begin
    \/ Commit
    \/ Rollback
    \/ StopInMigration
    \/ StopOutside

Spec == Init /\ [][Next]_vars
=============================================================================
