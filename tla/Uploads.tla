------------------------------- MODULE Uploads -------------------------------
(***************************************************************************)
(* Uploaded files (attachments.service.ts, fs-deletion.service.ts,         *)
(* attachment-derivatives.service.ts): rows in the database and bytes in   *)
(* the uploads tree, kept in step through failures and deaths of the       *)
(* process.                                                                *)
(*                                                                         *)
(* One process; its database driver and most of its file calls are         *)
(* synchronous, so a handler runs to its end before the next one starts    *)
(* and only a crash comes between its steps.  Rendering a thumbnail really *)
(* waits: other handlers run meanwhile.  The three sizes of a thumbnail    *)
(* are one, a path is an attachment and a kind, quotas, references from    *)
(* maps and portraits, and the purge of a whole campaign are left out.     *)
(***************************************************************************)
EXTENDS Naturals

CONSTANTS
    N,              \* bound: attachment ids
    MaxFaults,      \* bound: failures
    Missing,        \* what is not there
    Env             \* what may happen: "io_fails", and see Restore

ASSUME UploadBounds == N \in Nat /\ MaxFaults \in Nat

VARIABLES
    db,             \* the database: rows, sqlite_sequence, the erasure queue
                    \* and the planned thumbnails, or Missing
    disk,           \* the uploads tree: the paths that exist, or Missing
    power,          \* "up", "down", or "closed": up without a database
    loop,           \* what the event loop is in the middle of
    render,         \* the attachment being rendered, 0 for none
    faults,         \* how many things have failed
    acked,          \* ghost: uploads the server said it has
    late            \* ghost: thumbnails that outlived their row

upvars == <<db, disk, power, loop, render, faults, acked, late>>

Id == 1..N
Path == Id \X {"stage", "file", "thumb"}
Stage(a) == <<a, "stage">>
File(a) == <<a, "file">>
Thumb(a) == <<a, "thumb">>

NewDb == [rows |-> [a \in Id |-> "none"], next |-> 1, plan |-> {},
          queue |-> [p \in Path |-> "none"]]
Databases == [rows : [Id -> {"none", "reserved", "committed"}], next : 1..(N + 1),
              plan : SUBSET Id, queue : [Path -> {"none", "held", "pending"}]]
Idle == [at |-> "idle", id |-> 0]

(* What is not there is neither a database nor a tree.                      *)
ASSUME MissingIsNothing == Missing \notin Databases /\ \A S \in SUBSET Path : S # Missing

Files == IF disk = Missing THEN {} ELSE disk
Serving == power = "up" /\ loop = Idle
At(step) == power = "up" /\ loop.at = step

UploadsTypeOK ==
    /\ \/ db = Missing
       \/ db \in Databases /\ \A a \in Id : db.rows[a] # "none" => a < db.next
    /\ disk = Missing \/ disk \subseteq Path
    /\ power \in {"up", "down", "closed"} /\ (power = "up" /\ loop = Idle => db # Missing)
    /\ loop.id \in 0..N /\ render \in 0..N /\ acked \subseteq Id /\ late \subseteq Id

-----------------------------------------------------------------------------
(* createAndPublish: reserve, stage, link, unlink, commit.                  *)

(* The next step of the handler, which works on a.                          *)
Then(step, a) == loop' = [at |-> step, id |-> a]

(* AUTOINCREMENT: an id is given once.                                      *)
Sequence(a) == a + 1

Reserve ==
    LET a == db.next
    IN  /\ Serving /\ a \in Id /\ Then("stage", a)
        /\ db' = [db EXCEPT !.rows[a] = "reserved", !.next = Sequence(a)]
        /\ UNCHANGED <<disk, power, render, faults, acked, late>>

(* Something that may fail does.                                            *)
Fails(kind) == kind \in Env /\ faults < MaxFaults /\ faults' = faults + 1

(* A step of the upload that changes files and commits nothing.             *)
FileStep(from, to, files) ==
    /\ At(from)
    /\ \/ Then(to, loop.id) /\ disk' = files /\ UNCHANGED faults
       \/ Fails("io_fails") /\ Then("rollback", loop.id) /\ UNCHANGED disk
    /\ UNCHANGED <<db, power, render, acked, late>>

StageBytes == FileStep("stage", "link", Files \cup {Stage(loop.id)})

(* A link to a name that exists is refused.                                 *)
LinkBytes ==
    IF File(loop.id) \in Files
    THEN FileStep("link", "rollback", Files \ {Stage(loop.id)})
    ELSE FileStep("link", "unlink", Files \cup {File(loop.id)})

UnlinkStage == FileStep("unlink", "commit", Files \ {Stage(loop.id)})

CommitPublication ==
    LET a == loop.id
    IN  /\ At("commit")
        /\ \/ /\ db' = [db EXCEPT !.rows[a] = "committed", !.plan = @ \cup {a}]
              /\ acked' = acked \cup {a} /\ loop' = Idle /\ UNCHANGED faults
           \/ Fails("io_fails") /\ Then("rollback", a) /\ UNCHANGED <<db, acked>>
        /\ UNCHANGED <<disk, power, render, late>>

(* rollbackReservation of those of ids that are still reserved: all their   *)
(* bytes go, then the row; and what else is to be scrubbed.                 *)
RolledBack(ids, strays) ==
    LET gone == {a \in ids : db.rows[a] = "reserved"}
    IN  /\ db' = [db EXCEPT !.rows = [a \in Id |-> IF a \in gone THEN "none" ELSE @[a]],
                            !.plan = @ \ gone]
        /\ disk' = IF disk = Missing THEN Missing
                   ELSE {p \in disk \ strays : p[1] \notin gone}

(* Some of S, or none, cannot be removed just now.                          *)
Resists(bad, S) == (bad = {} /\ UNCHANGED faults) \/ (bad \in SUBSET S /\ bad # {} /\ Fails("io_fails"))

Rollback ==
    /\ At("rollback") /\ loop' = Idle
    /\ \E bad \in SUBSET {loop.id} : Resists(bad, Id) /\ RolledBack({loop.id} \ bad, {})
    /\ UNCHANGED <<power, render, acked, late>>

-----------------------------------------------------------------------------
(* remove: hold the paths for erasure, drop the row, erase them.            *)
Erasable(a) == {File(a), Thumb(a)}

Hold(a) ==
    /\ Serving /\ db.rows[a] = "committed" /\ Then("forget", a)
    /\ db' = [db EXCEPT !.queue = [p \in Path |-> IF p \in Erasable(a) THEN "held" ELSE @[p]]]
    /\ UNCHANGED <<disk, power, render, faults, acked, late>>

Forget ==
    LET a == loop.id
    IN  /\ At("forget")
        /\ \/ /\ db' = [db EXCEPT !.rows[a] = "none", !.plan = @ \ {a}]
              /\ acked' = acked \ {a} /\ Then("erase", a) /\ UNCHANGED faults
           \/ Fails("io_fails") /\ loop' = Idle /\ UNCHANGED <<db, acked>>
        /\ UNCHANGED <<disk, power, render, late>>

(* completeReservedUploadPaths, path by path: one that resists is armed.    *)
Erase(p) ==
    /\ At("erase") /\ p \in Erasable(loop.id) /\ db.queue[p] = "held"
    /\ \/ disk' = Files \ {p} /\ db' = [db EXCEPT !.queue[p] = "none"] /\ UNCHANGED faults
       \/ /\ p \in Files /\ Fails("io_fails")
          /\ db' = [db EXCEPT !.queue[p] = "pending"] /\ UNCHANGED disk
    /\ loop' = IF \E q \in Erasable(loop.id) \ {p} : db.queue[q] = "held" THEN loop ELSE Idle
    /\ UNCHANGED <<power, render, acked, late>>

-----------------------------------------------------------------------------
(* Mutants: holds are left to the handler that will never come back;        *)
(* dropped.                                                                *)
ReconciledNever(p) == db.queue[p]
ReconciledDropped(p) == IF db.queue[p] = "held" THEN "none" ELSE db.queue[p]

(* reconcileHeldRows: a hold that outlived its handler.                     *)
Reconciled(p) ==
    CASE db.queue[p] # "held" -> db.queue[p]
      [] db.queue[p] = "held" /\ db.rows[p[1]] # "none" -> "none"
      [] db.queue[p] = "held" /\ db.rows[p[1]] = "none" -> "pending"

(* drainQueue, where the paths in bad resist.                               *)
Drained(bad) ==
    LET gone == {p \in Path \ bad : Reconciled(p) = "pending"}
    IN  /\ db' = [db EXCEPT !.queue = [p \in Path |-> IF p \in gone THEN "none" ELSE Reconciled(p)]]
        /\ disk' = IF disk = Missing THEN Missing ELSE disk \ gone

Drain(bad) ==
    /\ Serving /\ \E p \in Path : db.queue[p] # "none"
    /\ Resists(bad, Files) /\ Drained(bad) /\ UNCHANGED <<power, loop, render, acked, late>>

DrainQueue == \E bad \in SUBSET Files : Drain(bad)

(* cleanupOrphans: rows without bytes and bytes without a row; a stage      *)
(* belongs to a reservation.  It refuses when the tree itself is not there. *)
CleanupOrphans ==
    LET orphans == {a \in Id : db.rows[a] = "committed" /\ File(a) \notin Files}
        owned == {p \in Path : IF p[2] = "stage" THEN db.rows[p[1]] = "reserved"
                               ELSE db.rows[p[1]] # "none"}
    IN  /\ Serving /\ disk # Missing
        /\ db' = [db EXCEPT !.rows = [a \in Id |-> IF a \in orphans THEN "none" ELSE @[a]],
                            !.plan = @ \ orphans]
        /\ disk' = disk \cap owned /\ acked' = acked \ orphans
        /\ late' = late \cup {a \in orphans : Thumb(a) \in Files}
        /\ UNCHANGED <<power, loop, render, faults>>

-----------------------------------------------------------------------------
(* generateForAttachment: reads the row and the bytes, renders, and writes  *)
(* without another look at the row.                                         *)
RenderStart(a) ==
    /\ Serving /\ render = 0 /\ a \in db.plan
    /\ db.rows[a] = "committed" /\ File(a) \in Files /\ render' = a
    /\ UNCHANGED <<db, disk, power, loop, faults, acked, late>>

RenderFinish ==
    /\ Serving /\ render # 0 /\ render' = 0
    /\ \/ /\ disk' = Files \cup {Thumb(render)}
          /\ late' = IF db.rows[render] = "none" THEN late \cup {render} ELSE late
          /\ UNCHANGED faults
       \/ Fails("io_fails") /\ UNCHANGED <<disk, late>>
    /\ db' = [db EXCEPT !.plan = @ \ {render}]
    /\ UNCHANGED <<power, loop, acked>>

(* recoverPendingPublications: interrupted uploads, and stages that no      *)
(* reservation owns, anywhere or where there had been an upload.            *)
Recovered(everywhere) ==
    LET scrub == everywhere \/ \E a \in Id : db.rows[a] = "reserved"
        strays == {Stage(a) : a \in {b \in Id : scrub /\ db.rows[b] # "reserved"}}
    IN  \E bad \in SUBSET Id : Resists(bad, Id) /\ RolledBack(Id \ bad, strays)

UploadsNext ==
    \/ Reserve \/ StageBytes \/ LinkBytes \/ UnlinkStage \/ CommitPublication \/ Rollback
    \/ \E a \in Id : Hold(a) \/ RenderStart(a)
    \/ Forget \/ \E p \in Path : Erase(p)
    \/ DrainQueue \/ CleanupOrphans \/ RenderFinish
=============================================================================
