------------------------------- MODULE Restore -------------------------------
(***************************************************************************)
(* Uploads with backups, whole-server restores, crashes and boots          *)
(* (backup.service.ts, backup-restore-apply.ts, db.module.ts,              *)
(* boot-guard.ts).                                                         *)
(*                                                                         *)
(* A backup snapshots the database and then copies the files of its        *)
(* committed rows one by one while the server serves; what is gone by then *)
(* is recorded as missing.  A restore moves the database and the uploads   *)
(* aside, moves the archive's in, checks, and reopens.  The AI key file,   *)
(* moved like them, the validation of an archive, a boot that allows a     *)
(* fresh database, and the failure of a rollback itself are left out.      *)
(***************************************************************************)
EXTENDS Uploads

CONSTANTS
    MaxCrashes,     \* bound
    MaxRestores     \* bound; Env says where they may fail: "snapshot_fails",
                    \* "apply_fails", "cleanup_fails"

ASSUME RestoreBounds == MaxCrashes \in Nat /\ MaxRestores \in Nat

VARIABLES
    copy,           \* the backup being made
    archive,        \* the backup that was made
    aside,          \* .restore-rollback-*: the database and uploads that were
    failing,        \* the restore has thrown
    before,         \* ghost: the database, uploads and acked it began with
    torn,           \* ghost: a crash came between the two swaps
    spent           \* how many crashes and restores there were

vars == <<db, disk, power, loop, render, faults, acked, late,
          copy, archive, aside, failing, before, torn, spent>>
restorevars == <<copy, archive, aside, failing, before, torn, spent>>

NothingAside == [db |-> Missing, disk |-> Missing]
NotRestoring == [db |-> Missing, disk |-> Missing, acked |-> {}, checked |-> FALSE]

Steps == {"idle", "stage", "link", "unlink", "commit", "rollback", "forget", "erase",
          "set_db_aside", "set_disk_aside", "copy_in", "swap_db", "swap_disk", "check",
          "cleanup", "undo_disk", "undo_db", "reopen"}
Copies == [db : Databases, todo : SUBSET Id, files : SUBSET Id, gone : SUBSET Id]
Archives == [db : Databases, files : SUBSET Id, gone : SUBSET Id]

(* What is not there is no backup.                                          *)
ASSUME MissingIsNoBackup == Missing \notin Copies \cup Archives

TypeOK ==
    /\ UploadsTypeOK
    /\ aside \in [db : Databases \cup {Missing}, disk : (SUBSET Path) \cup {Missing}]
    /\ before \in [db : Databases \cup {Missing}, disk : (SUBSET Path) \cup {Missing},
                   acked : SUBSET Id, checked : BOOLEAN]
    /\ archive \in Archives \cup {Missing} /\ copy \in Copies \cup {Missing}
    /\ failing \in BOOLEAN /\ torn \in BOOLEAN
    /\ spent \in [crashes : Nat, restores : Nat]
    /\ loop \in [at : Steps, id : 0..N]

Init ==
    /\ db = NewDb /\ disk = {} /\ power = "up" /\ loop = Idle /\ render = 0 /\ faults = 0
    /\ acked = {} /\ late = {} /\ copy = Missing /\ archive = Missing
    /\ aside = NothingAside /\ failing = FALSE /\ before = NotRestoring /\ torn = FALSE
    /\ spent = [crashes |-> 0, restores |-> 0]

-----------------------------------------------------------------------------
(* buildBackup.                                                             *)
Snapshot ==
    /\ Serving /\ copy = Missing /\ archive = Missing /\ spent.restores < MaxRestores
    /\ copy' = [db |-> db, todo |-> {a \in Id : db.rows[a] = "committed"},
                files |-> {}, gone |-> {}]
    /\ UNCHANGED <<upvars, archive, aside, failing, before, torn, spent>>

CopyFile(a) ==
    /\ Serving /\ copy # Missing /\ a \in copy.todo
    /\ copy' = IF File(a) \in Files
               THEN [copy EXCEPT !.todo = @ \ {a}, !.files = @ \cup {a}]
               ELSE [copy EXCEPT !.todo = @ \ {a}, !.gone = @ \cup {a}]
    /\ UNCHANGED <<upvars, archive, aside, failing, before, torn, spent>>

FinishBackup ==
    /\ Serving /\ copy # Missing /\ copy.todo = {}
    /\ archive' = [db |-> copy.db, files |-> copy.files, gone |-> copy.gone]
    /\ copy' = Missing
    /\ UNCHANGED <<upvars, aside, failing, before, torn, spent>>

-----------------------------------------------------------------------------
(* restoreFile, from withDatabaseClosed on: applyRestoredState.             *)
BeginRestore ==
    /\ Serving /\ copy = Missing /\ archive # Missing /\ spent.restores < MaxRestores
    /\ Then("set_db_aside", 0) /\ spent' = [spent EXCEPT !.restores = @ + 1]
    /\ before' = [db |-> db, disk |-> disk, acked |-> acked, checked |-> FALSE]
    /\ UNCHANGED <<db, disk, power, render, acked, late, copy, archive, aside, failing, torn, faults>>

(* The restore throws where it stands and goes on at step `to'.             *)
Throw(kind, to) ==
    Fails(kind) /\ failing' = TRUE /\ Then(to, 0)

Continue(step) == Then(step, 0) /\ UNCHANGED <<failing, faults>>

(* Until all is set aside a failure is not rolled back: the flag comes last.*)
SetDbAside ==
    /\ At("set_db_aside")
    /\ \/ /\ Continue("set_disk_aside") /\ db' = Missing /\ aside' = [aside EXCEPT !.db = db]
       \/ Throw("snapshot_fails", "reopen") /\ UNCHANGED <<db, aside>>
    /\ UNCHANGED <<disk, power, render, acked, late, copy, archive, before, torn, spent>>

SetDiskAside ==
    /\ At("set_disk_aside")
    /\ \/ /\ Continue("copy_in") /\ disk' = Missing /\ aside' = [aside EXCEPT !.disk = disk]
       \/ Throw("snapshot_fails", "reopen") /\ UNCHANGED <<disk, aside>>
    /\ UNCHANGED <<db, power, render, acked, late, copy, archive, before, torn, spent>>

CopyIn ==
    /\ At("copy_in")
    /\ Continue("swap_db") \/ Throw("apply_fails", "undo_disk")
    /\ UNCHANGED <<db, disk, power, render, acked, late, copy, archive, aside, before, torn, spent>>

SwapDb ==
    /\ At("swap_db")
    /\ \/ Continue("swap_disk") /\ db' = archive.db
       \/ Throw("apply_fails", "undo_disk") /\ UNCHANGED db
    /\ UNCHANGED <<disk, power, render, acked, late, copy, archive, aside, before, torn, spent>>

(* An archive without files has no uploads tree to move in.                 *)
SwapDisk ==
    /\ At("swap_disk")
    /\ \/ /\ Continue("check") /\ acked' = archive.files
          /\ disk' = IF archive.files = {} THEN Missing ELSE {File(a) : a \in archive.files}
       \/ Throw("apply_fails", "undo_disk") /\ UNCHANGED <<disk, acked>>
    /\ UNCHANGED <<db, power, render, late, copy, archive, aside, before, torn, spent>>

(* Mutant: what was is thrown away before what is there now was checked.    *)
KeptTillCheckedNot == NothingAside

KeptTillChecked == aside

Check ==
    /\ At("check") /\ aside' = KeptTillChecked
    /\ \/ Continue("cleanup") /\ before' = [before EXCEPT !.checked = TRUE]
       \/ Throw("apply_fails", "undo_disk") /\ UNCHANGED before
    /\ UNCHANGED <<db, disk, power, render, acked, late, copy, archive, torn, spent>>

(* Removing what was set aside may fail when some of it is gone, and then   *)
(* that is rolled back too.                                                 *)
Cleanup ==
    /\ At("cleanup")
    /\ \/ Continue("reopen") /\ aside' = NothingAside
       \/ /\ Throw("cleanup_fails", "undo_disk")
          /\ aside' \in [db : {aside.db, Missing}, disk : {aside.disk, Missing}]
    /\ UNCHANGED <<db, disk, power, render, acked, late, copy, archive, before, torn, spent>>

(* Mutant: only a database that was swapped in where none is, is replaced.  *)
UndoneDbIfGone == IF db = Missing THEN aside.db ELSE db

(* rollback: uploads first, then the database, then what is left over.      *)
UndoneDisk == aside.disk
UndoneDb == aside.db

UndoDisk ==
    /\ At("undo_disk") /\ Then("undo_db", 0)
    /\ disk' = UndoneDisk /\ acked' = before.acked
    /\ aside' = [aside EXCEPT !.disk = Missing]
    /\ UNCHANGED <<db, power, render, late, copy, archive, failing, before, torn, spent, faults>>

UndoDb ==
    /\ At("undo_db") /\ Then("reopen", 0)
    /\ db' = UndoneDb /\ aside' = NothingAside
    /\ UNCHANGED <<disk, power, render, acked, late, copy, archive, failing, before, torn, spent, faults>>

(* Mutant: an empty database is made where there is none.                   *)
MountedFresh(d) == TRUE

(* assertDataMount, the install having had a database.                      *)
Mounted(d) == d # Missing

(* openDatabase creates the database when the guard lets it.                *)
Opened == IF db = Missing THEN NewDb ELSE db

(* withDatabaseClosed opens whatever is there, failure or not.              *)
Reopen ==
    /\ At("reopen") /\ loop' = Idle
    /\ IF ~Mounted(db) THEN power' = "closed" /\ UNCHANGED <<db, disk, faults, before>>
       ELSE /\ UNCHANGED power /\ before' = NotRestoring
            /\ IF failing \/ db = Missing THEN db' = Opened /\ UNCHANGED <<disk, faults>>
               ELSE Recovered(TRUE)
    /\ failing' = FALSE /\ archive' = Missing
    /\ UNCHANGED <<render, acked, late, copy, aside, torn, spent>>

-----------------------------------------------------------------------------
(* The process dies, wherever it is.                                        *)
Crash ==
    /\ power # "down" /\ spent.crashes < MaxCrashes
    /\ spent' = [spent EXCEPT !.crashes = @ + 1]
    /\ power' = "down" /\ loop' = Idle /\ render' = 0 /\ copy' = Missing /\ failing' = FALSE
    /\ torn' = (torn \/ (db # Missing /\ loop.at \in {"swap_disk", "undo_disk", "undo_db"}))
    /\ UNCHANGED <<db, disk, acked, late, archive, aside, before, faults>>

(* The process comes up: guard, open, recover the uploads, drain.           *)
Boot ==
    /\ power = "down" /\ Mounted(db) /\ ~torn
    /\ power' = "up" /\ before' = NotRestoring
    /\ IF db = Missing THEN db' = Opened /\ UNCHANGED <<disk, faults>> ELSE Recovered(FALSE)
    /\ UNCHANGED <<loop, render, acked, late, copy, archive, aside, failing, torn, spent>>

RestoreNext ==
    \/ SetDbAside \/ SetDiskAside \/ CopyIn \/ SwapDb \/ SwapDisk \/ Check \/ Cleanup
    \/ UndoDisk \/ UndoDb \/ Reopen

Next ==
    \/ UploadsNext /\ UNCHANGED restorevars
    \/ Snapshot \/ FinishBackup \/ \E a \in Id : CopyFile(a)
    \/ BeginRestore \/ RestoreNext \/ Crash \/ Boot

Spec == Init /\ [][Next]_vars

(* The event loop goes on, a supervisor restarts the process, and the drain *)
(* comes round every fifteen minutes; no path resists it for ever.          *)
Progress ==
    \/ UploadsNext /\ loop # Idle /\ UNCHANGED restorevars
    \/ RestoreNext \/ Boot

Fairness ==
    /\ WF_vars(Progress) /\ SF_vars(Drain({}) /\ UNCHANGED restorevars)

FairSpec == Spec /\ Fairness

-----------------------------------------------------------------------------
(* An upload the server said it has is there, row and bytes, whenever the   *)
(* server serves, until somebody deletes it or a restore brings back a time *)
(* before it: neither the drain, the cleanup, a recovery, a failed restore  *)
(* nor the boot of a wrong mount may lose it.                               *)
AcknowledgedStays ==
    power = "up" /\ loop = Idle /\ ~torn =>
        \A a \in acked : db.rows[a] = "committed" /\ File(a) \in Files

(* Bytes on disk belong to a row, or wait to be erased, or to the handler   *)
(* at work: a deletion that was confirmed leaves nothing behind (issue      *)
(* 727), save a thumbnail whose rendering outlived the row.                 *)
NoOrphanBytes ==
    power = "up" /\ loop = Idle /\ ~torn =>
        \A p \in Files : \/ db.rows[p[1]] # "none" \/ db.queue[p] # "none"
                         \/ p[2] = "thumb" /\ p[1] \in late

(* Until the restored state has passed its check the previous one exists,   *)
(* in place or set aside, whatever fails and whenever the process dies.     *)
PreviousStateKept ==
    before.db # Missing /\ ~before.checked =>
        before.db \in {db, aside.db} /\ before.disk \in {disk, aside.disk}

(* A restore that fails leaves the server as it was (issue 497).            *)
FailedRestoreRestores ==
    At("reopen") /\ failing => db = before.db /\ disk = before.disk

(* Bytes that are queued for erasure and whose row is gone.                 *)
Owed ==
    IF db = Missing THEN {}
    ELSE {p \in Files : db.queue[p] # "none" /\ db.rows[p[1]] = "none"}

(* What is owed is erased in the end, crashes and failures notwithstanding. *)
ErasureHappens == Owed # {} ~> Owed = {}
=============================================================================
