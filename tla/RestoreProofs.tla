---------------------------- MODULE RestoreProofs ----------------------------
(***************************************************************************)
(* What is proved about Uploads and Restore for any number of attachments, *)
(* failures, crashes and restores: that acknowledged uploads stay, that no *)
(* bytes are orphaned, and that a restore keeps what was until it is done. *)
(***************************************************************************)
EXTENDS Restore, TLAPS

FilesIn(f) == IF f = Missing THEN {} ELSE f

(* A database as the server leaves it: ids are given in order, and what is  *)
(* queued for erasure was uploaded and, once armed, has no row.             *)
Sound(d) ==
    /\ d \in Databases
    /\ \A a \in Id : d.rows[a] # "none" => a < d.next
    /\ \A p \in Path :
         /\ d.queue[p] # "none" => p[1] < d.next /\ d.rows[p[1]] # "reserved"
         /\ d.queue[p] = "pending" => d.rows[p[1]] = "none"

(* The acknowledged uploads acks are in the database d and the tree f.      *)
Present(d, f, acks) ==
    \A a \in acks : d.rows[a] = "committed" /\ File(a) \in FilesIn(f)

(* Every byte of the tree f has an owner in the database d.                 *)
Owned(d, f, strays) ==
    /\ \A p \in FilesIn(f) : \/ d.rows[p[1]] # "none" \/ d.queue[p] # "none"
                             \/ p[2] = "thumb" /\ p[1] \in strays
    /\ \A a \in Id : d.rows[a] = "committed" => Stage(a) \notin FilesIn(f)

(* "cleanup_fails" \in Env: a cleanup that fails half way took some of what *)
(* was set aside.                                                           *)
Whole == "cleanup_fails" \notin Env

(* The database d and the tree f agree, the acknowledged uploads are acks   *)
(* and the thumbnails without a row those of strays.                        *)
Good(d, f, strays, acks) ==
    /\ Sound(d) /\ f \in (SUBSET Path) \cup {Missing} /\ strays \subseteq Id /\ acks \subseteq Id
    /\ Owned(d, f, strays) /\ (Whole => Present(d, f, acks))

Uploading == {"stage", "link", "unlink", "commit", "rollback", "forget", "erase"}
Restoring == Steps \ (Uploading \cup {"idle"})

(* What the handler at work has done so far.                                *)
HandlerInv ==
    power = "up" /\ loop.at \in Uploading =>
      /\ loop.id \in Id /\ db # Missing
      /\ loop.at \in {"stage", "link", "unlink", "commit"} => db.rows[loop.id] = "reserved"
      /\ loop.at \in {"unlink", "commit"} => File(loop.id) \in Files
      /\ loop.at = "commit" => Stage(loop.id) \notin Files
      /\ loop.at = "forget" =>
           /\ db.rows[loop.id] = "committed"
           /\ \A p \in Erasable(loop.id) : db.queue[p] = "held"
      /\ loop.at = "erase" => db.rows[loop.id] = "none"

(* Backups are sound and hold committed uploads.                            *)
BackupInv ==
    /\ copy # Missing => /\ Sound(copy.db)
                         /\ \A a \in copy.todo \cup copy.files : copy.db.rows[a] = "committed"
    /\ archive # Missing => /\ Sound(archive.db)
                            /\ \A a \in archive.files : archive.db.rows[a] = "committed"

(* The database and the tree agree, save between the two swaps.             *)
PlaceInv ==
    /\ db # Missing => Sound(db)
    /\ db # Missing /\ ~torn /\ loop.at \notin {"swap_disk", "undo_disk", "undo_db"} =>
         Good(db, disk, late, acked)

(* So did they when the restore began.                                      *)
BeforeInv ==
    before.db # Missing => Good(before.db, before.disk, late, before.acked)

AllAside == aside.db = before.db /\ aside.disk = before.disk

(* Where a restore has put the database and the tree that were.             *)
RestoreInv ==
    /\ power = "up" /\ loop.at \notin Restoring => before.db = Missing
    /\ power = "up" /\ loop.at \in Restoring => before.db # Missing /\ archive # Missing
    /\ power # "up" => loop = Idle
    /\ torn => power = "down"
    /\ failing => power = "up" /\ loop.at \in {"undo_disk", "undo_db", "reopen"}
    /\ At("set_db_aside") => db = before.db /\ disk = before.disk /\ ~before.checked
    /\ At("set_disk_aside") =>
         db = Missing /\ aside.db = before.db /\ disk = before.disk /\ ~before.checked
    /\ loop.at \in {"copy_in", "swap_db"} =>
         db = Missing /\ disk = Missing /\ AllAside /\ ~before.checked
    /\ At("swap_disk") =>
         db = archive.db /\ disk = Missing /\ AllAside /\ ~before.checked
    /\ At("check") => db # Missing /\ AllAside /\ ~before.checked
    /\ At("cleanup") => db # Missing /\ AllAside /\ before.checked
    /\ At("undo_disk") =>
         /\ failing /\ (Whole \/ ~before.checked => AllAside)
         /\ aside.db \in {before.db, Missing} /\ aside.disk \in {before.disk, Missing}
    /\ At("undo_db") =>
         /\ failing /\ disk \in {before.disk, Missing} /\ aside.db \in {before.db, Missing}
         /\ Whole \/ ~before.checked => aside.db = before.db /\ disk = before.disk
         /\ acked = before.acked
    /\ At("reopen") /\ failing =>
         "snapshot_fails" \in Env \/ ~Whole \/ (db = before.db /\ disk = before.disk)

IInv ==
    /\ TypeOK /\ HandlerInv /\ BackupInv /\ PlaceInv /\ BeforeInv /\ RestoreInv
    /\ PreviousStateKept

-----------------------------------------------------------------------------
(* Paths and databases.                                                     *)

(* The three paths of an attachment.                                        *)
LEMMA PathFacts ==
    /\ \A a \in Id :
         /\ Stage(a) \in Path /\ Stage(a)[1] = a /\ Stage(a)[2] = "stage"
         /\ File(a) \in Path /\ File(a)[1] = a /\ File(a)[2] = "file"
         /\ Thumb(a) \in Path /\ Thumb(a)[1] = a /\ Thumb(a)[2] = "thumb"
    /\ \A p \in Path :
         /\ p[1] \in Id
         /\ p = Stage(p[1]) \/ p = File(p[1]) \/ p = Thumb(p[1])
  BY DEF Path, Stage, File, Thumb

(* A database of four fields.                                               *)
LEMMA DatabaseFields ==
    ASSUME NEW d
    PROVE  d \in Databases =>
             /\ d.rows \in [Id -> {"none", "reserved", "committed"}]
             /\ d.next \in 1..(N + 1) /\ d.plan \in SUBSET Id
             /\ d.queue \in [Path -> {"none", "held", "pending"}]
             /\ d # Missing
  BY MissingIsNothing DEF Databases

(* The ids of a database are numbers.                                       *)
LEMMA Ids == Id \subseteq Nat /\ N \in Nat /\ 0 \notin Id /\ (0..N) = Id \cup {0}
  BY UploadBounds DEF Id

(* Something that fails is counted and changes nothing else.                *)
LEMMA TreeFacts ==
    /\ disk \in (SUBSET Path) \cup {Missing} => Files \subseteq Path
    /\ \A S \in SUBSET Path : S # Missing /\ FilesIn(S) = S
    /\ FilesIn(disk) = Files /\ FilesIn(Missing) = {}
  BY MissingIsNothing DEF Files, FilesIn

UpInv ==
    /\ UploadsTypeOK /\ HandlerInv /\ Good(db, disk, late, acked)
    /\ power = "up" /\ loop \in [at : Uploading \cup {"idle"}, id : 0..N]

(* What is left to show of a step of the uploads.                           *)
LEMMA UpFromGood ==
    ASSUME Good(db, disk, late, acked)', HandlerInv', power' = "up",
           loop' \in [at : Uploading \cup {"idle"}, id : 0..N], render' \in 0..N
    PROVE  UpInv'
<1>1. db' # Missing
  BY DatabaseFields DEF Good, Sound
<1>2. UploadsTypeOK'
  <2>1. /\ (db \in Databases)' /\ (\A a \in Id : db.rows[a] # "none" => a < db.next)'
        /\ disk' \in (SUBSET Path) \cup {Missing}
        /\ acked' \subseteq Id /\ late' \subseteq Id
    BY DEF Good, Sound
  <2>2. QED
    BY <1>1, <2>1 DEF UploadsTypeOK
<1>3. QED
  BY <1>2 DEF UpInv

(* What the handler, the tree and the database are typed.                   *)
LEMMA UpTypes ==
    ASSUME UpInv
    PROVE  /\ db \in Databases /\ db # Missing /\ Sound(db) /\ Owned(db, disk, late)
           /\ Whole => Present(db, disk, acked)
           /\ disk \in (SUBSET Path) \cup {Missing} /\ Files \subseteq Path
           /\ FilesIn(disk) = Files
           /\ loop \in [at : Uploading \cup {"idle"}, id : 0..N] /\ render \in 0..N
           /\ acked \subseteq Id /\ late \subseteq Id /\ power = "up"
           /\ HandlerInv
<1>1. /\ Good(db, disk, late, acked) /\ UploadsTypeOK /\ power = "up" /\ HandlerInv
      /\ loop \in [at : Uploading \cup {"idle"}, id : 0..N]
  BY DEF UpInv
<1>2. QED
  BY <1>1, DatabaseFields, TreeFacts DEF Good, Sound, UploadsTypeOK

(* An id is reserved that no row, upload or erasure has.                    *)
LEMMA ReserveKeeps == ASSUME UpInv, Reserve PROVE UpInv'
<1> DEFINE a == db.next
<1>1. /\ a \in Id /\ loop' = [at |-> "stage", id |-> a] /\ power' = "up" /\ render' = render
      /\ disk' = disk /\ late' = late /\ acked' = acked
  BY UpTypes DEF Reserve, Then
<1>2. /\ db' \in Databases /\ db'.next = a + 1 /\ db'.queue = db.queue
      /\ db'.rows = [db.rows EXCEPT ![a] = "reserved"]
  <2>1. a + 1 \in 1..(N + 1)
    BY <1>1, Ids DEF Id
  <2>2. db' = [db EXCEPT !.rows[a] = "reserved", !.next = a + 1]
    BY DEF Reserve, Sequence
  <2>3. QED
    BY <2>1, <2>2, <1>1, UpTypes DEF Databases
<1>3. db.rows[a] = "none" /\ (\A p \in Path : p[1] = a => db.queue[p] = "none")
  <2>1. db.rows[a] = "none"
    BY <1>1, UpTypes, Ids DEF Sound
  <2>2. \A p \in Path : p[1] = a => db.queue[p] = "none"
    BY <1>1, UpTypes, Ids DEF Sound
  <2>3. QED
    BY <2>1, <2>2
<1> HIDE DEF a
<1>4. /\ db'.rows[a] = "reserved" /\ (\A x \in Id \ {a} : db'.rows[x] = db.rows[x])
  BY <1>1, <1>2, UpTypes, DatabaseFields
<1>5. Sound(db')
  <2>1. \A x \in Id : x < db.next => x < db'.next
    BY <1>1, <1>2, UpTypes, DatabaseFields, Ids DEF a
  <2>2. a < db'.next
    BY <1>1, <1>2, Ids
  <2>3. \A x \in Id : db'.rows[x] # "none" => x < db'.next
    BY <1>4, <2>1, <2>2, UpTypes DEF Sound
  <2>4. ASSUME NEW p \in Path
        PROVE  /\ db'.queue[p] # "none" => p[1] < db'.next /\ db'.rows[p[1]] # "reserved"
               /\ db'.queue[p] = "pending" => db'.rows[p[1]] = "none"
    <3>1. CASE p[1] = a
      BY <1>2, <1>3, <3>1
    <3>2. CASE p[1] # a
      BY <1>2, <1>4, <2>1, <3>2, PathFacts, UpTypes DEF Sound
    <3>3. QED
      BY <3>1, <3>2
  <2>5. QED
    BY <1>2, <2>3, <2>4 DEF Sound
<1>6. Owned(db', disk', late')
  <2>1. \A p \in Files : p[1] \in Id /\ (db.rows[p[1]] # "none" => db'.rows[p[1]] # "none")
    BY <1>4, PathFacts, UpTypes
  <2>2. \A x \in Id : db'.rows[x] = "committed" => db.rows[x] = "committed"
    BY <1>4
  <2>3. QED
    BY <1>1, <1>2, <2>1, <2>2, UpTypes DEF Owned
<1>7. Whole => Present(db', disk', acked')
  BY <1>1, <1>3, <1>4, UpTypes DEF Present
<1>8. Good(db, disk, late, acked)'
  BY <1>1, <1>5, <1>6, <1>7, UpTypes DEF Good
<1>9. HandlerInv'
  <2>1. db' # Missing
    BY <1>2, DatabaseFields
  <2>2. QED
    BY <1>1, <1>4, <2>1 DEF HandlerInv, Uploading
<1>10. QED
  BY <1>1, <1>8, <1>9, Ids, UpTypes, UpFromGood DEF Uploading

(* A handler at work has an id and a database.                              *)
LEMMA HandlerFacts ==
    ASSUME UpInv
    PROVE  /\ loop.at \in Uploading => loop.id \in Id
           /\ loop.at \in {"stage", "link", "unlink", "commit"} => db.rows[loop.id] = "reserved"
           /\ loop.at \in {"unlink", "commit"} => File(loop.id) \in Files
           /\ loop.at = "commit" => Stage(loop.id) \notin Files
           /\ loop.at = "forget" => db.rows[loop.id] = "committed"
           /\ loop.at = "forget" => \A p \in Erasable(loop.id) : db.queue[p] = "held"
           /\ loop.at = "erase" => db.rows[loop.id] = "none"
  BY UpTypes DEF HandlerInv, Uploading

(* A step of an upload that touches the files of its reservation only, and  *)
(* no file but a stage of another.                                          *)
LEMMA FileStepKeeps ==
    ASSUME UpInv, NEW from \in {"stage", "link", "unlink"},
           NEW to \in {"link", "unlink", "commit", "rollback"}, NEW files \in SUBSET Path,
           FileStep(from, to, files),
           \A p \in files : p \in Files \/ p[1] = loop.id,
           \A p \in Files : p[2] # "stage" => p \in files,
           to \in {"unlink", "commit"} => File(loop.id) \in files,
           to = "commit" => Stage(loop.id) \notin files
    PROVE  UpInv'
<1>1. /\ loop.at = from /\ loop.id \in Id /\ db.rows[loop.id] = "reserved"
      /\ db' = db /\ power' = "up" /\ render' = render /\ acked' = acked /\ late' = late
  BY HandlerFacts, UpTypes DEF FileStep, At, Uploading
<1>2. \/ loop' = [at |-> to, id |-> loop.id] /\ disk' = files
      \/ loop' = [at |-> "rollback", id |-> loop.id] /\ disk' = disk
  BY DEF FileStep, Then
<1>3. CASE disk' = disk /\ loop' = [at |-> "rollback", id |-> loop.id]
  <2>1. Good(db, disk, late, acked)'
    BY <1>1, <1>3 DEF UpInv
  <2>2. HandlerInv'
    BY <1>1, <1>3, UpTypes DEF HandlerInv, Uploading
  <2>3. QED
    BY <1>1, <1>3, <2>1, <2>2, UpTypes, UpFromGood DEF Uploading
<1>4. CASE disk' = files /\ loop' = [at |-> to, id |-> loop.id]
  <2>1. FilesIn(disk') = files /\ Files' = files
    BY <1>4, TreeFacts DEF Files
  <2>2. Owned(db', disk', late')
    <3>1. ASSUME NEW p \in files
          PROVE  \/ db.rows[p[1]] # "none" \/ db.queue[p] # "none"
                 \/ p[2] = "thumb" /\ p[1] \in late
      BY <1>1, UpTypes DEF Owned
    <3>2. ASSUME NEW a \in Id, db.rows[a] = "committed" PROVE Stage(a) \notin files
      <4>1. a # loop.id /\ Stage(a) \notin Files
        BY <1>1, <3>2, UpTypes DEF Owned
      <4>2. QED
        BY <4>1, PathFacts
    <3>3. QED
      BY <1>1, <2>1, <3>1, <3>2 DEF Owned
  <2>3. Whole => Present(db', disk', acked')
    BY <1>1, <2>1, UpTypes, PathFacts DEF Present
  <2>4. Good(db, disk, late, acked)'
    BY <1>1, <1>4, <2>2, <2>3, UpTypes DEF Good
  <2>5. HandlerInv'
    BY <1>1, <1>4, <2>1, UpTypes DEF HandlerInv, Uploading
  <2>6. QED
    BY <1>1, <1>4, <2>4, <2>5, UpTypes, UpFromGood DEF Uploading
<1>5. QED
  BY <1>2, <1>3, <1>4

(* Staging, linking under the name and removing the stage.                  *)
LEMMA UploadStepsKeep ==
    ASSUME UpInv, StageBytes \/ LinkBytes \/ UnlinkStage PROVE UpInv'
<1>1. /\ loop.at \in {"stage", "link", "unlink"} /\ loop.id \in Id
      /\ loop.at = "unlink" => File(loop.id) \in Files
  <2>1. loop.at \in {"stage", "link", "unlink"}
    BY DEF StageBytes, LinkBytes, UnlinkStage, FileStep, At
  <2>2. QED
    BY <2>1, HandlerFacts DEF Uploading
<1> DEFINE i == loop.id
<1>2. /\ Stage(i) \in Path /\ Stage(i)[1] = i /\ Stage(i)[2] = "stage"
      /\ File(i) \in Path /\ File(i)[1] = i /\ File(i)[2] = "file" /\ Files \subseteq Path
  BY <1>1, PathFacts, UpTypes
<1>3. CASE StageBytes
  <2>1. FileStep("stage", "link", Files \cup {Stage(i)})
    BY <1>3 DEF StageBytes
  <2>2. QED
    BY <1>2, <2>1, FileStepKeeps
<1>4. CASE LinkBytes /\ File(i) \in Files
  <2>1. FileStep("link", "rollback", Files \ {Stage(i)})
    BY <1>4 DEF LinkBytes
  <2>2. QED
    BY <1>2, <2>1, FileStepKeeps
<1>5. CASE LinkBytes /\ File(i) \notin Files
  <2>1. FileStep("link", "unlink", Files \cup {File(i)})
    BY <1>5 DEF LinkBytes
  <2>2. QED
    BY <1>2, <2>1, FileStepKeeps
<1>6. CASE UnlinkStage
  <2>1. FileStep("unlink", "commit", Files \ {Stage(i)}) /\ File(i) \in Files
    BY <1>1, <1>6 DEF UnlinkStage, FileStep, At
  <2>2. QED
    BY <1>2, <2>1, FileStepKeeps
<1>7. QED
  BY <1>3, <1>4, <1>5, <1>6

(* A row that is committed has its bytes, no stage, and is not queued.      *)
LEMMA CommitKeeps == ASSUME UpInv, CommitPublication PROVE UpInv'
<1> DEFINE a == loop.id
<1>1. /\ loop.at = "commit" /\ a \in Id /\ db.rows[a] = "reserved" /\ File(a) \in Files
      /\ Stage(a) \notin Files
      /\ power' = "up" /\ disk' = disk /\ render' = render /\ late' = late
  BY HandlerFacts, UpTypes DEF CommitPublication, At, Uploading
<1>2. CASE loop' = [at |-> "rollback", id |-> a] /\ db' = db /\ acked' = acked
  <2>1. Good(db, disk, late, acked)'
    BY <1>1, <1>2 DEF UpInv
  <2>2. HandlerInv'
    BY <1>1, <1>2, UpTypes DEF HandlerInv, Uploading
  <2>3. QED
    BY <1>1, <1>2, <2>1, <2>2, UpTypes, UpFromGood DEF Uploading
<1>3. CASE /\ db' = [db EXCEPT !.rows[a] = "committed", !.plan = @ \cup {a}]
           /\ acked' = acked \cup {a} /\ loop' = Idle
  <2>1. /\ db' \in Databases /\ db'.next = db.next /\ db'.queue = db.queue
        /\ db'.rows = [db.rows EXCEPT ![a] = "committed"]
    BY <1>1, <1>3, UpTypes DEF Databases
  <2> HIDE DEF a
  <2>2. /\ db'.rows[a] = "committed" /\ (\A x \in Id \ {a} : db'.rows[x] = db.rows[x])
        /\ \A x \in Id : db.rows[x] # "none" => db'.rows[x] # "none"
    BY <1>1, <2>1, UpTypes, DatabaseFields
  <2>3. Sound(db')
    <3>1. \A p \in Path : p[1] = a => db.queue[p] = "none"
      <4>1. ASSUME NEW p \in Path, p[1] = a PROVE db.queue[p] = "none"
        BY <1>1, <4>1, UpTypes DEF Sound
      <4>2. QED
        BY <4>1
    <3>2. \A x \in Id : db'.rows[x] # "none" => x < db'.next
      BY <1>1, <2>1, <2>2, UpTypes DEF Sound
    <3>3. ASSUME NEW p \in Path
          PROVE  /\ db'.queue[p] # "none" => p[1] < db'.next /\ db'.rows[p[1]] # "reserved"
                 /\ db'.queue[p] = "pending" => db'.rows[p[1]] = "none"
      <4>1. CASE p[1] = a
        BY <2>1, <3>1, <4>1
      <4>2. CASE p[1] # a
        BY <2>1, <2>2, <4>2, PathFacts, UpTypes DEF Sound
      <4>3. QED
        BY <4>1, <4>2
    <3>4. QED
      BY <2>1, <3>2, <3>3 DEF Sound
  <2>4. Owned(db', disk', late')
    <3>1. \A p \in Files : p[1] \in Id
      BY PathFacts, UpTypes
    <3>2. \A x \in Id : db'.rows[x] = "committed" => db.rows[x] = "committed" \/ x = a
      BY <2>2
    <3>3. \A x \in Id : db'.rows[x] = "committed" => Stage(x) \notin Files
      BY <1>1, <3>2, UpTypes DEF Owned, a
    <3>4. QED
      BY <1>1, <2>1, <2>2, <3>1, <3>3, UpTypes DEF Owned
  <2>5. Whole => Present(db', disk', acked')
    BY <1>1, <1>3, <2>2, UpTypes DEF Present, a
  <2>6. Good(db, disk, late, acked)'
    BY <1>1, <1>3, <2>3, <2>4, <2>5, UpTypes DEF Good, a
  <2>7. loop' = [at |-> "idle", id |-> 0]
    BY <1>3 DEF Idle
  <2>8. HandlerInv'
    BY <2>7 DEF HandlerInv, Uploading
  <2>9. QED
    BY <1>1, <2>6, <2>7, <2>8, Ids, UpTypes, UpFromGood
<1>4. QED
  BY <1>2, <1>3 DEF CommitPublication, Then

(* Reservations that are rolled back take all their bytes with them.        *)
LEMMA RolledBackKeeps ==
    ASSUME NEW ids \in SUBSET Id, NEW strays, NEW acks, Good(db, disk, late, acks),
           RolledBack(ids, strays), late' = late,
           \A p \in strays : \E a \in Id : p = Stage(a)
    PROVE  Good(db', disk', late', acks) /\ (disk' = Missing <=> disk = Missing)
<1> DEFINE gone == {a \in ids : db.rows[a] = "reserved"}
<1>1. /\ Sound(db) /\ db \in Databases /\ Owned(db, disk, late)
      /\ disk \in (SUBSET Path) \cup {Missing} /\ late \subseteq Id /\ acks \subseteq Id
      /\ Whole => Present(db, disk, acks)
  BY DEF Good, Sound
<1>2. /\ db' \in Databases /\ db'.next = db.next /\ db'.queue = db.queue
      /\ db'.rows = [a \in Id |-> IF a \in gone THEN "none" ELSE db.rows[a]]
  <2>1. db' = [db EXCEPT !.rows = [a \in Id |-> IF a \in gone THEN "none" ELSE db.rows[a]],
                         !.plan = db.plan \ gone]
    BY DEF RolledBack
  <2>2. [a \in Id |-> IF a \in gone THEN "none" ELSE db.rows[a]]
           \in [Id -> {"none", "reserved", "committed"}]
    BY <1>1, DatabaseFields
  <2>3. QED
    BY <2>1, <2>2, <1>1 DEF Databases
<1>3. /\ disk = Missing => disk' = Missing
      /\ disk # Missing => disk' = {p \in disk \ strays : p[1] \notin gone}
  BY DEF RolledBack
<1>4. \A a \in gone : a \in Id /\ db.rows[a] = "reserved"
  OBVIOUS
<1> HIDE DEF gone
<1>5. \A a \in Id : /\ a \in gone => db'.rows[a] = "none"
                    /\ a \notin gone => db'.rows[a] = db.rows[a]
  BY <1>2
<1>6. /\ disk' \in (SUBSET Path) \cup {Missing} /\ (disk' = Missing <=> disk = Missing)
      /\ FilesIn(disk') = {p \in FilesIn(disk) \ strays : p[1] \notin gone}
      /\ FilesIn(disk) \subseteq Path
  <2>1. CASE disk = Missing
    BY <2>1, <1>3 DEF FilesIn
  <2>2. CASE disk # Missing
    <3>1. disk' \in SUBSET Path
      BY <1>1, <1>3, <2>2
    <3>2. FilesIn(disk') = disk' /\ FilesIn(disk) = disk /\ disk' # Missing
      BY <3>1, <1>1, <2>2, TreeFacts
    <3>3. QED
      BY <1>1, <1>3, <2>2, <3>1, <3>2
  <2>3. QED
    BY <2>1, <2>2
<1>7. Sound(db')
  <2>1. \A a \in Id : db'.rows[a] # "none" => a < db'.next
    BY <1>1, <1>2, <1>5 DEF Sound
  <2>2. ASSUME NEW p \in Path
        PROVE  /\ db'.queue[p] # "none" => p[1] < db'.next /\ db'.rows[p[1]] # "reserved"
               /\ db'.queue[p] = "pending" => db'.rows[p[1]] = "none"
    BY <1>1, <1>2, <1>5, PathFacts DEF Sound
  <2>3. QED
    BY <1>2, <2>1, <2>2 DEF Sound
<1>8. Owned(db', disk', late')
  <2>1. \A p \in FilesIn(disk') : p \in FilesIn(disk) /\ db'.rows[p[1]] = db.rows[p[1]]
    BY <1>5, <1>6, PathFacts
  <2>2. \A x \in Id : db'.rows[x] = "committed" => db.rows[x] = "committed"
    BY <1>5
  <2>3. QED
    BY <1>1, <1>2, <1>6, <2>1, <2>2 DEF Owned
<1>9. Whole => Present(db', disk', acks)
  <2>1. ASSUME NEW a \in acks, Present(db, disk, acks)
        PROVE  db'.rows[a] = "committed" /\ File(a) \in FilesIn(disk')
    <3>1. a \in Id /\ db.rows[a] = "committed" /\ File(a) \in FilesIn(disk) /\ a \notin gone
      BY <1>1, <1>4, <2>1 DEF Present
    <3>2. File(a) \notin strays /\ File(a)[1] = a
      BY <3>1, PathFacts
    <3>3. QED
      BY <3>1, <3>2, <1>5, <1>6
  <2>2. QED
    BY <1>1, <2>1 DEF Present
<1>10. QED
  BY <1>1, <1>6, <1>7, <1>8, <1>9 DEF Good

(* The handler gives up.                                                    *)
LEMMA RollbackKeeps == ASSUME UpInv, Rollback PROVE UpInv'
<1>1. /\ loop.at = "rollback" /\ loop.id \in Id
      /\ loop' = Idle /\ power' = "up" /\ render' = render /\ acked' = acked /\ late' = late
  BY HandlerFacts, UpTypes DEF Rollback, At, Uploading
<1>2. PICK bad \in SUBSET {loop.id} : RolledBack({loop.id} \ bad, {})
  BY DEF Rollback
<1>3. Good(db', disk', late', acked)
  BY <1>1, <1>2, RolledBackKeeps DEF UpInv
<1>4. loop' = [at |-> "idle", id |-> 0]
  BY <1>1 DEF Idle
<1>5. HandlerInv'
  BY <1>4 DEF HandlerInv, Uploading
<1>6. QED
  BY <1>1, <1>3, <1>4, <1>5, Ids, UpTypes, UpFromGood

(* The paths of an upload are held for erasure while it still has its row.  *)
LEMMA HoldKeeps == ASSUME UpInv, NEW a \in Id, Hold(a) PROVE UpInv'
<1>1. /\ db.rows[a] = "committed" /\ loop' = [at |-> "forget", id |-> a]
      /\ disk' = disk /\ power' = "up" /\ render' = render /\ acked' = acked /\ late' = late
  BY UpTypes DEF Hold, Then
<1>2. /\ db' \in Databases /\ db'.next = db.next /\ db'.rows = db.rows
      /\ db'.queue = [p \in Path |-> IF p \in Erasable(a) THEN "held" ELSE db.queue[p]]
  <2>1. db' = [db EXCEPT !.queue = [p \in Path |-> IF p \in Erasable(a) THEN "held"
                                                   ELSE db.queue[p]]]
    BY DEF Hold
  <2>2. [p \in Path |-> IF p \in Erasable(a) THEN "held" ELSE db.queue[p]]
           \in [Path -> {"none", "held", "pending"}]
    BY UpTypes, DatabaseFields
  <2>3. QED
    BY <2>1, <2>2, UpTypes DEF Databases
<1>3. Erasable(a) \subseteq Path /\ (\A p \in Erasable(a) : p[1] = a)
  BY PathFacts DEF Erasable
<1>4. /\ \A p \in Erasable(a) : db'.queue[p] = "held"
      /\ \A p \in Path \ Erasable(a) : db'.queue[p] = db.queue[p]
  BY <1>2, <1>3
<1>5. Sound(db')
  <2>1. ASSUME NEW p \in Path
        PROVE  /\ db'.queue[p] # "none" => p[1] < db'.next /\ db'.rows[p[1]] # "reserved"
               /\ db'.queue[p] = "pending" => db'.rows[p[1]] = "none"
    <3>1. CASE p \in Erasable(a)
      BY <1>1, <1>2, <1>3, <1>4, <3>1, UpTypes DEF Sound
    <3>2. CASE p \notin Erasable(a)
      BY <1>2, <1>4, <3>2, UpTypes DEF Sound
    <3>3. QED
      BY <3>1, <3>2
  <2>2. QED
    BY <1>2, <2>1, UpTypes DEF Sound
<1>6. Owned(db', disk', late')
  <2>1. \A p \in Files : db.queue[p] # "none" => db'.queue[p] # "none"
    BY <1>4, UpTypes
  <2>2. QED
    BY <1>1, <1>2, <2>1, UpTypes DEF Owned
<1>7. Good(db, disk, late, acked)'
  BY <1>1, <1>2, <1>5, <1>6, UpTypes DEF Good, Present
<1>8. HandlerInv'
  <2>1. db' # Missing
    BY <1>2, DatabaseFields
  <2>2. QED
    BY <1>1, <1>2, <1>4, <2>1 DEF HandlerInv, Uploading
<1>9. QED
  BY <1>1, <1>7, <1>8, Ids, UpTypes, UpFromGood DEF Uploading

(* The row goes, and its bytes are queued.                                  *)
LEMMA ForgetKeeps == ASSUME UpInv, Forget PROVE UpInv'
<1> DEFINE a == loop.id
<1>1. /\ loop.at = "forget" /\ a \in Id /\ db.rows[a] = "committed"
      /\ \A p \in Erasable(a) : db.queue[p] = "held"
      /\ power' = "up" /\ disk' = disk /\ render' = render /\ late' = late
  BY HandlerFacts, UpTypes DEF Forget, At, Uploading
<1>2. CASE loop' = Idle /\ db' = db /\ acked' = acked
  <2>1. Good(db, disk, late, acked)'
    BY <1>1, <1>2 DEF UpInv
  <2>2. loop' = [at |-> "idle", id |-> 0]
    BY <1>2 DEF Idle
  <2>3. HandlerInv'
    BY <2>2 DEF HandlerInv, Uploading
  <2>4. QED
    BY <1>1, <2>1, <2>2, <2>3, Ids, UpTypes, UpFromGood
<1>3. CASE /\ db' = [db EXCEPT !.rows[a] = "none", !.plan = @ \ {a}]
           /\ acked' = acked \ {a} /\ loop' = [at |-> "erase", id |-> a]
  <2>1. /\ db' \in Databases /\ db'.next = db.next /\ db'.queue = db.queue
        /\ db'.rows = [db.rows EXCEPT ![a] = "none"]
    BY <1>1, <1>3, UpTypes DEF Databases
  <2> HIDE DEF a
  <2>2. /\ db'.rows[a] = "none" /\ (\A x \in Id \ {a} : db'.rows[x] = db.rows[x])
        /\ \A x \in Id : db'.rows[x] # "none" => db'.rows[x] = db.rows[x]
    BY <1>1, <2>1, UpTypes, DatabaseFields
  <2>3. Sound(db')
    <3>1. \A x \in Id : db'.rows[x] # "none" => x < db'.next
      BY <2>1, <2>2, UpTypes DEF Sound
    <3>2. ASSUME NEW p \in Path
          PROVE  /\ db'.queue[p] # "none" => p[1] < db'.next /\ db'.rows[p[1]] # "reserved"
                 /\ db'.queue[p] = "pending" => db'.rows[p[1]] = "none"
      BY <2>1, <2>2, PathFacts, UpTypes DEF Sound
    <3>3. QED
      BY <2>1, <3>1, <3>2 DEF Sound
  <2>4. Owned(db', disk', late')
    <3>1. ASSUME NEW p \in Files
          PROVE  \/ db'.rows[p[1]] # "none" \/ db'.queue[p] # "none"
                 \/ p[2] = "thumb" /\ p[1] \in late
      <4>1. CASE p[1] = a
        <5>1. p # Stage(a) /\ p \in Path
          BY <1>1, UpTypes DEF Owned
        <5>2. p \in Erasable(a)
          BY <4>1, <5>1, PathFacts DEF Erasable
        <5>3. QED
          BY <1>1, <2>1, <5>2 DEF a
      <4>2. CASE p[1] # a
        <5>1. db'.rows[p[1]] = db.rows[p[1]]
          BY <4>2, <2>2, PathFacts, UpTypes
        <5>2. QED
          BY <2>1, <5>1, UpTypes DEF Owned
      <4>3. QED
        BY <4>1, <4>2
    <3>2. \A x \in Id : db'.rows[x] = "committed" => Stage(x) \notin Files
      BY <2>2, UpTypes DEF Owned
    <3>3. QED
      BY <1>1, <3>1, <3>2, UpTypes DEF Owned
  <2>5. Whole => Present(db', disk', acked')
    BY <1>1, <1>3, <2>2, UpTypes DEF Present, a
  <2>6. Good(db, disk, late, acked)'
    BY <1>1, <1>3, <2>3, <2>4, <2>5, UpTypes DEF Good, a
  <2>7. HandlerInv'
    <3>1. db' # Missing
      BY <2>1, DatabaseFields
    <3>2. QED
      BY <1>1, <1>3, <2>2, <3>1 DEF HandlerInv, Uploading, a
  <2>8. QED
    BY <1>1, <1>3, <2>6, <2>7, UpTypes, UpFromGood DEF Uploading, a
<1>4. QED
  BY <1>2, <1>3 DEF Forget, Then

(* One field of the queue is written.                                       *)
LEMMA QueueWritten ==
    ASSUME Sound(db), NEW p \in Path, NEW q \in {"none", "pending"},
           db' = [db EXCEPT !.queue[p] = q], db.queue[p] # "none",
           q = "pending" => db.rows[p[1]] = "none"
    PROVE  /\ Sound(db') /\ db'.rows = db.rows /\ db'.queue[p] = q
           /\ \A r \in Path \ {p} : db'.queue[r] = db.queue[r]
<1>1. /\ db' \in Databases /\ db'.next = db.next /\ db'.rows = db.rows
      /\ db'.queue = [db.queue EXCEPT ![p] = q]
  BY DEF Sound, Databases
<1>2. db'.queue[p] = q /\ (\A r \in Path \ {p} : db'.queue[r] = db.queue[r])
  BY <1>1, DatabaseFields DEF Sound
<1>3. ASSUME NEW r \in Path
      PROVE  /\ db'.queue[r] # "none" => r[1] < db'.next /\ db'.rows[r[1]] # "reserved"
             /\ db'.queue[r] = "pending" => db'.rows[r[1]] = "none"
  BY <1>1, <1>2 DEF Sound
<1>4. QED
  BY <1>1, <1>2, <1>3 DEF Sound

(* A path of an upload that is gone is erased, or armed for the drain.      *)
LEMMA EraseKeeps == ASSUME UpInv, NEW p \in Path, Erase(p) PROVE UpInv'
<1> DEFINE i == loop.id
<1>1. /\ loop.at = "erase" /\ i \in Id /\ db.rows[i] = "none" /\ p \in Erasable(i)
      /\ db.queue[p] = "held" /\ p[1] = i
      /\ power' = "up" /\ render' = render /\ acked' = acked /\ late' = late
      /\ loop' = loop \/ loop' = [at |-> "idle", id |-> 0]
  <2>1. loop.at = "erase" /\ p \in Erasable(i)
    BY DEF Erase, At
  <2>2. p[1] = i
    BY <2>1, HandlerFacts, PathFacts DEF Erasable, Uploading
  <2>3. QED
    BY <2>1, <2>2, HandlerFacts, UpTypes DEF Erase, Idle, Uploading
<1>2. PICK q \in {"none", "pending"} :
        /\ db' = [db EXCEPT !.queue[p] = q]
        /\ \/ q = "none" /\ disk' = Files \ {p}
           \/ q = "pending" /\ disk' = disk
  BY DEF Erase
<1>3. /\ Sound(db') /\ db'.rows = db.rows /\ db'.queue[p] = q
      /\ \A r \in Path \ {p} : db'.queue[r] = db.queue[r]
  BY <1>1, <1>2, QueueWritten, UpTypes
<1>4. /\ disk' \in (SUBSET Path) \cup {Missing} /\ FilesIn(disk') \subseteq Files
      /\ Files \ {p} \subseteq FilesIn(disk')
      /\ q = "none" => p \notin FilesIn(disk')
  <2>1. CASE disk' = disk /\ q = "pending"
    BY <2>1, UpTypes
  <2>2. CASE disk' = Files \ {p}
    <3>1. disk' \in SUBSET Path
      BY <2>2, UpTypes
    <3>2. FilesIn(disk') = disk'
      BY <3>1, TreeFacts
    <3>3. QED
      BY <2>2, <3>1, <3>2
  <2>3. QED
    BY <1>2, <2>1, <2>2
<1>5. Owned(db', disk', late')
  <2>1. ASSUME NEW r \in FilesIn(disk')
        PROVE  \/ db'.rows[r[1]] # "none" \/ db'.queue[r] # "none"
               \/ r[2] = "thumb" /\ r[1] \in late
    <3>1. CASE r = p
      BY <1>3, <1>4, <3>1
    <3>2. CASE r # p
      BY <1>3, <1>4, <3>2, UpTypes DEF Owned
    <3>3. QED
      BY <3>1, <3>2
  <2>2. QED
    BY <1>1, <1>3, <1>4, <2>1, UpTypes DEF Owned
<1>6. Whole => Present(db', disk', acked')
  <2>1. ASSUME Present(db, disk, acked), NEW a \in acked PROVE File(a) \in FilesIn(disk')
    <3>1. File(a) \in Files /\ a # i /\ File(a)[1] = a
      BY <1>1, <2>1, PathFacts, UpTypes DEF Present
    <3>2. QED
      BY <1>1, <1>4, <3>1
  <2>2. QED
    BY <1>1, <1>3, <2>1, UpTypes DEF Present
<1>7. Good(db, disk, late, acked)'
  BY <1>1, <1>3, <1>4, <1>5, <1>6, UpTypes DEF Good
<1>8. HandlerInv'
  <2>1. db' # Missing
    BY <1>3, DatabaseFields DEF Sound
  <2>2. QED
    BY <1>1, <1>3, <2>1 DEF HandlerInv, Uploading
<1>9. QED
  BY <1>1, <1>7, <1>8, Ids, UpTypes, UpFromGood DEF Uploading

(* The drain erases what has no row and drops the holds on what has one.    *)
LEMMA DrainKeeps == ASSUME UpInv, NEW bad \in SUBSET Files, Drain(bad) PROVE UpInv'
<1> DEFINE gone == {p \in Path \ bad : Reconciled(p) = "pending"}
<1>1. /\ loop = Idle /\ loop' = loop
      /\ power' = "up" /\ render' = render /\ acked' = acked /\ late' = late
      /\ disk = Missing => disk' = Missing
      /\ disk # Missing => disk' = disk \ gone
  BY UpTypes DEF Drain, Drained, Serving
<1>2. \A p \in Path :
        /\ Reconciled(p) \in {"none", "held", "pending"} /\ Reconciled(p) # "held"
        /\ Reconciled(p) = "pending" => db.rows[p[1]] = "none" /\ db.queue[p] # "none"
        /\ db.queue[p] # "none" /\ db.rows[p[1]] = "none" => Reconciled(p) = "pending"
  <2>1. SUFFICES ASSUME NEW p \in Path
                 PROVE  /\ Reconciled(p) \in {"none", "held", "pending"}
                        /\ Reconciled(p) # "held"
                        /\ Reconciled(p) = "pending" =>
                             db.rows[p[1]] = "none" /\ db.queue[p] # "none"
                        /\ db.queue[p] # "none" /\ db.rows[p[1]] = "none" =>
                             Reconciled(p) = "pending"
    OBVIOUS
  <2>2. /\ db.queue[p] \in {"none", "held", "pending"}
        /\ db.queue[p] = "pending" => db.rows[p[1]] = "none"
    BY UpTypes, DatabaseFields DEF Sound
  <2>3. CASE db.queue[p] # "held"
    <3>1. Reconciled(p) = db.queue[p]
      BY <2>3 DEF Reconciled
    <3>2. QED
      BY <2>2, <2>3, <3>1
  <2>4. CASE db.queue[p] = "held" /\ db.rows[p[1]] # "none"
    <3>1. Reconciled(p) = "none"
      BY <2>4 DEF Reconciled
    <3>2. QED
      BY <2>4, <3>1
  <2>5. CASE db.queue[p] = "held" /\ db.rows[p[1]] = "none"
    <3>1. Reconciled(p) = "pending"
      BY <2>5 DEF Reconciled
    <3>2. QED
      BY <2>5, <3>1
  <2>6. QED
    BY <2>3, <2>4, <2>5
<1>3. /\ db' \in Databases /\ db'.next = db.next /\ db'.rows = db.rows
      /\ db'.queue = [p \in Path |-> IF p \in gone THEN "none" ELSE Reconciled(p)]
  <2>1. db' = [db EXCEPT !.queue = [p \in Path |-> IF p \in gone THEN "none"
                                                   ELSE Reconciled(p)]]
    BY DEF Drain, Drained
  <2>2. [p \in Path |-> IF p \in gone THEN "none" ELSE Reconciled(p)]
           \in [Path -> {"none", "held", "pending"}]
    BY <1>2
  <2>3. QED
    BY <2>1, <2>2, UpTypes DEF Databases
<1>4. gone \subseteq Path /\ (\A p \in gone : db.rows[p[1]] = "none" /\ p \in Path)
  BY <1>2
<1> HIDE DEF gone
<1>5. \A p \in Path : /\ p \in gone => db'.queue[p] = "none"
                      /\ p \notin gone => db'.queue[p] = Reconciled(p)
  BY <1>3
<1>6. /\ disk' \in (SUBSET Path) \cup {Missing} /\ FilesIn(disk') = Files \ gone
  <2>1. CASE disk = Missing
    BY <1>1, <2>1, TreeFacts DEF Files
  <2>2. CASE disk # Missing
    <3>1. disk' \in SUBSET Path /\ disk' = Files \ gone
      BY <1>1, <2>2, UpTypes DEF Files
    <3>2. QED
      BY <3>1, TreeFacts
  <2>3. QED
    BY <2>1, <2>2
<1>7. Sound(db')
  <2>1. ASSUME NEW p \in Path
        PROVE  /\ db'.queue[p] # "none" => p[1] < db'.next /\ db'.rows[p[1]] # "reserved"
               /\ db'.queue[p] = "pending" => db'.rows[p[1]] = "none"
    <3>1. db'.queue[p] # "none" => db.queue[p] # "none" /\ db.rows[p[1]] = "none"
      BY <1>2, <1>5
    <3>2. QED
      BY <1>3, <3>1, UpTypes DEF Sound
  <2>2. QED
    BY <1>3, <2>1, UpTypes DEF Sound
<1>8. Owned(db', disk', late')
  <2>1. ASSUME NEW p \in Files \ gone
        PROVE  \/ db'.rows[p[1]] # "none" \/ db'.queue[p] # "none"
               \/ p[2] = "thumb" /\ p[1] \in late
    <3>1. p \in Path
      BY UpTypes
    <3>2. db.queue[p] # "none" /\ db.rows[p[1]] = "none" => db'.queue[p] # "none"
      BY <1>2, <1>5, <3>1
    <3>3. QED
      BY <1>3, <3>2, UpTypes DEF Owned
  <2>2. QED
    BY <1>1, <1>3, <1>6, <2>1, UpTypes DEF Owned
<1>9. Whole => Present(db', disk', acked')
  <2>1. ASSUME Present(db, disk, acked), NEW a \in acked PROVE File(a) \in FilesIn(disk')
    <3>1. File(a) \in Files /\ db.rows[a] # "none" /\ File(a)[1] = a
      BY <2>1, PathFacts, UpTypes DEF Present
    <3>2. QED
      BY <1>4, <1>6, <3>1
  <2>2. QED
    BY <1>1, <1>3, <2>1, UpTypes DEF Present
<1>10. Good(db, disk, late, acked)'
  BY <1>1, <1>6, <1>7, <1>8, <1>9, UpTypes DEF Good
<1>11. loop' = [at |-> "idle", id |-> 0]
  BY <1>1 DEF Idle
<1>12. HandlerInv'
  BY <1>11 DEF HandlerInv, Uploading
<1>13. QED
  BY <1>1, <1>10, <1>11, <1>12, Ids, UpTypes, UpFromGood

(* The cleanup drops rows without bytes, and thumbnails that lose their row *)
(* that way are those of late.                                              *)
LEMMA CleanupOrphansKeeps == ASSUME UpInv, CleanupOrphans PROVE UpInv'
<1> DEFINE orphans == {a \in Id : db.rows[a] = "committed" /\ File(a) \notin Files}
           owned == {p \in Path : IF p[2] = "stage" THEN db.rows[p[1]] = "reserved"
                                  ELSE db.rows[p[1]] # "none"}
<1>1. /\ loop = Idle /\ loop' = loop /\ disk # Missing
      /\ power' = "up" /\ render' = render
      /\ acked' = acked \ orphans /\ disk' = disk \cap owned
      /\ late' = late \cup {a \in orphans : Thumb(a) \in Files}
  BY UpTypes DEF CleanupOrphans, Serving
<1>2. /\ db' \in Databases /\ db'.next = db.next /\ db'.queue = db.queue
      /\ db'.rows = [a \in Id |-> IF a \in orphans THEN "none" ELSE db.rows[a]]
  <2>1. db' = [db EXCEPT !.rows = [a \in Id |-> IF a \in orphans THEN "none" ELSE db.rows[a]],
                         !.plan = db.plan \ orphans]
    BY DEF CleanupOrphans
  <2>2. [a \in Id |-> IF a \in orphans THEN "none" ELSE db.rows[a]]
           \in [Id -> {"none", "reserved", "committed"}]
    BY UpTypes, DatabaseFields
  <2>3. QED
    BY <2>1, <2>2, UpTypes DEF Databases
<1>3. \A a \in orphans : a \in Id /\ db.rows[a] = "committed" /\ File(a) \notin Files
  OBVIOUS
<1>4. \A p \in owned : p \in Path /\ db.rows[p[1]] # "none"
  OBVIOUS
<1>5. \A a \in Id : db.rows[a] = "committed" => File(a) \in owned
  BY PathFacts
<1> HIDE DEF orphans, owned
<1>6. \A a \in Id : /\ a \in orphans => db'.rows[a] = "none"
                    /\ a \notin orphans => db'.rows[a] = db.rows[a]
  BY <1>2
<1>7. /\ disk' \in SUBSET Path /\ FilesIn(disk') = disk' /\ disk' = Files \cap owned
  <2>1. disk' \in SUBSET Path /\ disk' = Files \cap owned
    BY <1>1, UpTypes DEF Files
  <2>2. QED
    BY <2>1, TreeFacts
<1>8. Sound(db')
  <2>1. \A a \in Id : db'.rows[a] # "none" => a < db'.next
    BY <1>2, <1>6, UpTypes DEF Sound
  <2>2. ASSUME NEW p \in Path
        PROVE  /\ db'.queue[p] # "none" => p[1] < db'.next /\ db'.rows[p[1]] # "reserved"
               /\ db'.queue[p] = "pending" => db'.rows[p[1]] = "none"
    BY <1>2, <1>6, PathFacts, UpTypes DEF Sound
  <2>3. QED
    BY <1>2, <2>1, <2>2 DEF Sound
<1>9. Owned(db', disk', late')
  <2>1. ASSUME NEW p \in disk'
        PROVE  \/ db'.rows[p[1]] # "none" \/ db'.queue[p] # "none"
               \/ p[2] = "thumb" /\ p[1] \in late'
    <3>1. p \in Path /\ p \in Files /\ db.rows[p[1]] # "none" /\ p[1] \in Id
      BY <1>4, <1>7, PathFacts
    <3>2. CASE p[1] \in orphans
      <4>1. p = Thumb(p[1])
        BY <1>3, <3>1, <3>2, PathFacts, UpTypes DEF Owned
      <4>2. QED
        BY <1>1, <3>1, <3>2, <4>1, PathFacts
    <3>3. CASE p[1] \notin orphans
      BY <1>6, <3>1, <3>3
    <3>4. QED
      BY <3>2, <3>3
  <2>2. \A a \in Id : db'.rows[a] = "committed" => Stage(a) \notin disk'
    BY <1>6, <1>7, UpTypes DEF Owned
  <2>3. QED
    BY <1>7, <2>1, <2>2 DEF Owned
<1>10. Whole => Present(db', disk', acked')
  <2>1. ASSUME Present(db, disk, acked), NEW a \in acked'
        PROVE  db'.rows[a] = "committed" /\ File(a) \in FilesIn(disk')
    <3>1. a \in acked /\ a \notin orphans /\ a \in Id
      BY <1>1, <2>1, UpTypes
    <3>2. db.rows[a] = "committed" /\ File(a) \in Files
      BY <2>1, <3>1, UpTypes DEF Present
    <3>3. QED
      BY <1>5, <1>6, <1>7, <3>1, <3>2
  <2>2. QED
    BY <2>1, UpTypes DEF Present
<1>11. Good(db, disk, late, acked)'
  <2>1. late' \subseteq Id /\ acked' \subseteq Id
    BY <1>1, <1>3, UpTypes
  <2>2. QED
    BY <1>7, <1>8, <1>9, <1>10, <2>1 DEF Good
<1>12. loop' = [at |-> "idle", id |-> 0]
  BY <1>1 DEF Idle
<1>13. HandlerInv'
  BY <1>12 DEF HandlerInv, Uploading
<1>14. QED
  BY <1>1, <1>11, <1>12, <1>13, Ids, UpTypes, UpFromGood

(* A thumbnail rendered for a row that is gone is one of late.              *)
LEMMA RenderKeeps ==
    ASSUME UpInv, RenderFinish \/ \E a \in Id : RenderStart(a) PROVE UpInv'
<1>1. CASE \E a \in Id : RenderStart(a)
  <2>1. PICK a \in Id : RenderStart(a)
    BY <1>1
  <2>2. /\ loop = [at |-> "idle", id |-> 0] /\ loop' = loop /\ power' = "up" /\ render' \in 0..N
        /\ db' = db /\ disk' = disk /\ acked' = acked /\ late' = late
    BY <2>1, Ids, UpTypes DEF RenderStart, Serving, Idle
  <2>3. Good(db, disk, late, acked)'
    BY <2>2 DEF UpInv
  <2>4. HandlerInv'
    BY <2>2 DEF HandlerInv, Uploading
  <2>5. QED
    BY <2>2, <2>3, <2>4, UpTypes, UpFromGood
<1>2. CASE RenderFinish
  <2>1. /\ loop = [at |-> "idle", id |-> 0] /\ loop' = loop /\ power' = "up" /\ render' = 0
        /\ acked' = acked /\ render \in Id
        /\ db' = [db EXCEPT !.plan = @ \ {render}]
    BY <1>2, Ids, UpTypes DEF RenderFinish, Serving, Idle
  <2>2. /\ db' \in Databases /\ db'.next = db.next /\ db'.queue = db.queue /\ db'.rows = db.rows
    BY <2>1, UpTypes DEF Databases
  <2>3. Sound(db')
    BY <2>2, UpTypes DEF Sound
  <2>4. CASE disk' = disk /\ late' = late
    <3>1. Good(db, disk, late, acked)'
      BY <2>1, <2>2, <2>3, <2>4, UpTypes DEF Good, Owned, Present
    <3>2. HandlerInv'
      BY <2>1 DEF HandlerInv, Uploading
    <3>3. QED
      BY <2>1, <3>1, <3>2, Ids, UpTypes, UpFromGood
  <2>5. CASE /\ disk' = Files \cup {Thumb(render)}
             /\ late' = IF db.rows[render] = "none" THEN late \cup {render} ELSE late
    <3>1. /\ Thumb(render) \in Path /\ Thumb(render)[1] = render /\ Thumb(render)[2] = "thumb"
      BY <2>1, PathFacts
    <3>2. disk' \in SUBSET Path /\ FilesIn(disk') = disk'
      <4>1. disk' \in SUBSET Path
        BY <2>5, <3>1, UpTypes
      <4>2. QED
        BY <4>1, TreeFacts
    <3>3. /\ late \subseteq late' /\ late' \subseteq Id
          /\ db.rows[render] = "none" => render \in late'
      BY <2>1, <2>5, UpTypes
    <3>4. Owned(db', disk', late')
      <4>1. ASSUME NEW p \in disk'
            PROVE  \/ db.rows[p[1]] # "none" \/ db.queue[p] # "none"
                   \/ p[2] = "thumb" /\ p[1] \in late'
        BY <2>5, <3>1, <3>3, UpTypes DEF Owned
      <4>2. \A a \in Id : db.rows[a] = "committed" => Stage(a) \notin disk'
        BY <2>5, <3>1, PathFacts, UpTypes DEF Owned
      <4>3. QED
        BY <2>2, <3>2, <4>1, <4>2 DEF Owned
    <3>5. Whole => Present(db', disk', acked')
      BY <2>1, <2>2, <2>5, <3>2, UpTypes DEF Present
    <3>6. Good(db, disk, late, acked)'
      BY <2>1, <2>3, <3>2, <3>3, <3>4, <3>5, UpTypes DEF Good
    <3>7. HandlerInv'
      BY <2>1 DEF HandlerInv, Uploading
    <3>8. QED
      BY <2>1, <3>6, <3>7, Ids, UpTypes, UpFromGood
  <2>6. QED
    BY <1>2, <2>4, <2>5 DEF RenderFinish
<1>3. QED
  BY <1>1, <1>2

(* No handler of the uploads leaves the database and the tree in            *)
(* disagreement.                                                            *)
LEMMA UploadsKeep == ASSUME UpInv, UploadsNext PROVE UpInv'
<1>1. CASE \E a \in Id : Hold(a)
  BY <1>1, HoldKeeps
<1>2. CASE \E p \in Path : Erase(p)
  BY <1>2, EraseKeeps
<1>3. CASE DrainQueue
  BY <1>3, DrainKeeps DEF DrainQueue
<1>4. QED
  BY <1>1, <1>2, <1>3, ReserveKeeps, UploadStepsKeep, CommitKeeps, RollbackKeeps, ForgetKeeps,
     CleanupOrphansKeeps, RenderKeeps DEF UploadsNext

-----------------------------------------------------------------------------
(* The restore, crashes and boots.                                          *)

(* What TypeOK says, field by field.                                        *)
LEMMA RestoreTypes ==
    ASSUME TypeOK
    PROVE  /\ db \in Databases \cup {Missing} /\ disk \in (SUBSET Path) \cup {Missing}
           /\ db # Missing => \A a \in Id : db.rows[a] # "none" => a < db.next
           /\ power \in {"up", "down", "closed"} /\ loop \in [at : Steps, id : 0..N]
           /\ power = "up" /\ loop = Idle => db # Missing
           /\ render \in 0..N /\ acked \subseteq Id /\ late \subseteq Id
           /\ aside \in [db : Databases \cup {Missing}, disk : (SUBSET Path) \cup {Missing}]
           /\ before \in [db : Databases \cup {Missing}, disk : (SUBSET Path) \cup {Missing},
                          acked : SUBSET Id, checked : BOOLEAN]
           /\ archive \in Archives \cup {Missing} /\ copy \in Copies \cup {Missing}
           /\ failing \in BOOLEAN /\ torn \in BOOLEAN
           /\ spent \in [crashes : Nat, restores : Nat]
  BY DEF TypeOK, UploadsTypeOK

(* And the other way round, after a step.                                   *)
LEMMA RestoreTyped ==
    ASSUME db' \in Databases \cup {Missing}, disk' \in (SUBSET Path) \cup {Missing},
           db' # Missing => Sound(db'),
           power' \in {"up", "down", "closed"}, loop' \in [at : Steps, id : 0..N],
           power' = "up" /\ loop' = Idle => db' # Missing,
           render' \in 0..N, acked' \subseteq Id, late' \subseteq Id,
           aside' \in [db : Databases \cup {Missing}, disk : (SUBSET Path) \cup {Missing}],
           before' \in [db : Databases \cup {Missing}, disk : (SUBSET Path) \cup {Missing},
                        acked : SUBSET Id, checked : BOOLEAN],
           archive' \in Archives \cup {Missing}, copy' \in Copies \cup {Missing},
           failing' \in BOOLEAN, torn' \in BOOLEAN,
           spent' \in [crashes : Nat, restores : Nat]
    PROVE  TypeOK'
<1>1. UploadsTypeOK'
  BY DEF UploadsTypeOK, Sound
<1>2. QED
  BY <1>1 DEF TypeOK

(* Loops that are not in an upload have no handler.                         *)
LEMMA NoHandler ==
    ASSUME loop'.at \notin Uploading PROVE HandlerInv'
  BY DEF HandlerInv

(* A serving server is where its uploads keep it.                           *)
LEMMA ServingIsUp ==
    ASSUME IInv, power = "up", loop.at \in Uploading \/ loop = Idle
    PROVE  /\ UpInv /\ ~torn /\ ~failing /\ before.db = Missing /\ TypeOK /\ BackupInv
<1>1. /\ TypeOK /\ HandlerInv /\ BackupInv /\ PlaceInv /\ RestoreInv
  BY DEF IInv
<1>2. loop.at \in Uploading \cup {"idle"} /\ loop.at \notin Restoring
  BY DEF Idle, Restoring, Steps, Uploading
<1>3. db # Missing
  BY <1>1, RestoreTypes DEF HandlerInv
<1>4. ~torn /\ ~failing /\ before.db = Missing
  BY <1>1, <1>2 DEF RestoreInv, Uploading
<1>5. Good(db, disk, late, acked)
  BY <1>1, <1>2, <1>3, <1>4 DEF PlaceInv, Uploading
<1>6. UploadsTypeOK /\ loop \in [at : Uploading \cup {"idle"}, id : 0..N]
  BY <1>1, <1>2, RestoreTypes DEF TypeOK
<1>7. QED
  BY <1>1, <1>4, <1>5, <1>6 DEF UpInv

(* A server that serves keeps the invariant as long as its uploads do.      *)
LEMMA UpIsServing ==
    ASSUME UpInv', TypeOK', BackupInv', ~torn', ~failing', before'.db = Missing
    PROVE  IInv'
<1>1. /\ HandlerInv' /\ Good(db, disk, late, acked)' /\ power' = "up"
      /\ loop' \in [at : Uploading \cup {"idle"}, id : 0..N]
  BY DEF UpInv
<1>2. PlaceInv'
  BY <1>1 DEF PlaceInv, Good
<1>3. BeforeInv' /\ PreviousStateKept'
  BY DEF BeforeInv, PreviousStateKept
<1>4. RestoreInv'
  BY <1>1 DEF RestoreInv, Restoring, Steps, Uploading, At
<1>5. QED
  BY <1>1, <1>2, <1>3, <1>4 DEF IInv

(* Everything the server does between backups and restores.                 *)
LEMMA UploadsKeepAll ==
    ASSUME IInv, UploadsNext, UNCHANGED restorevars PROVE IInv'
<1>1. power = "up" /\ (loop.at \in Uploading \/ loop = Idle)
  BY DEF UploadsNext, Reserve, StageBytes, LinkBytes, UnlinkStage, FileStep, CommitPublication,
         Rollback, Hold, RenderStart, Forget, Erase, DrainQueue, Drain, CleanupOrphans,
         RenderFinish, Serving, At, Uploading
<1>2. UpInv /\ ~torn /\ ~failing /\ before.db = Missing /\ TypeOK /\ BackupInv
  BY <1>1, ServingIsUp
<1>3. UpInv'
  BY <1>2, UploadsKeep
<1>4. /\ copy' = copy /\ archive' = archive /\ aside' = aside /\ failing' = failing
      /\ before' = before /\ torn' = torn /\ spent' = spent
  BY DEF restorevars
<1>5. TypeOK'
  <2>1. loop' \in [at : Steps, id : 0..N]
    <3>1. loop' \in [at : Uploading \cup {"idle"}, id : 0..N]
      BY <1>3 DEF UpInv
    <3>2. QED
      BY <3>1 DEF Steps, Uploading
  <2>2. UploadsTypeOK'
    BY <1>3 DEF UpInv
  <2>3. QED
    BY <1>2, <1>4, <2>1, <2>2 DEF TypeOK
<1>6. BackupInv'
  BY <1>2, <1>4 DEF BackupInv
<1>7. QED
  BY <1>2, <1>3, <1>4, <1>5, <1>6, UpIsServing

(* A backup takes committed rows, and each file once.                       *)
LEMMA BackupsKeep ==
    ASSUME IInv, Snapshot \/ FinishBackup \/ \E a \in Id : CopyFile(a) PROVE IInv'
<1>1. /\ power = "up" /\ loop = Idle /\ UNCHANGED upvars
      /\ aside' = aside /\ failing' = failing /\ before' = before /\ torn' = torn
      /\ spent' = spent
  BY DEF Snapshot, FinishBackup, CopyFile, Serving
<1>2. UpInv /\ ~torn /\ ~failing /\ before.db = Missing /\ TypeOK /\ BackupInv
  BY <1>1, ServingIsUp
<1>3. /\ db' = db /\ disk' = disk /\ power' = power /\ loop' = loop /\ render' = render
      /\ acked' = acked /\ late' = late
  BY <1>1 DEF upvars
<1>4. UpInv'
  BY <1>2, <1>3 DEF UpInv, UploadsTypeOK, HandlerInv, Files
<1>5. /\ copy' \in Copies \cup {Missing} /\ archive' \in Archives \cup {Missing} /\ BackupInv'
  <2>1. CASE Snapshot
    <3>1. copy' = [db |-> db, todo |-> {a \in Id : db.rows[a] = "committed"},
                   files |-> {}, gone |-> {}] /\ archive' = archive
      BY <2>1 DEF Snapshot
    <3>2. /\ copy' \in Copies /\ Sound(copy'.db)
          /\ \A a \in copy'.todo \cup copy'.files : copy'.db.rows[a] = "committed"
      BY <1>2, <3>1, UpTypes DEF Copies
    <3>3. QED
      BY <1>2, <3>1, <3>2, RestoreTypes DEF BackupInv
  <2>2. CASE \E a \in Id : CopyFile(a)
    <3>1. PICK a \in Id : CopyFile(a)
      BY <2>2
    <3>2. copy # Missing /\ copy \in Copies /\ a \in copy.todo /\ archive' = archive
      BY <1>2, <3>1, RestoreTypes DEF CopyFile
    <3>3. \/ copy' = [copy EXCEPT !.todo = @ \ {a}, !.files = @ \cup {a}]
          \/ copy' = [copy EXCEPT !.todo = @ \ {a}, !.gone = @ \cup {a}]
      BY <3>1 DEF CopyFile
    <3>4. /\ copy' \in Copies /\ copy'.db = copy.db
          /\ copy'.todo \cup copy'.files \subseteq copy.todo \cup copy.files
      BY <3>2, <3>3 DEF Copies
    <3>5. QED
      BY <1>2, <3>2, <3>4, RestoreTypes DEF BackupInv
  <2>3. CASE FinishBackup
    <3>1. /\ copy # Missing /\ copy \in Copies
          /\ archive' = [db |-> copy.db, files |-> copy.files, gone |-> copy.gone]
          /\ copy' = Missing
      BY <1>2, <2>3, RestoreTypes DEF FinishBackup
    <3>2. /\ archive' \in Archives /\ archive'.db = copy.db /\ archive'.files = copy.files
      BY <3>1 DEF Copies, Archives
    <3>3. QED
      BY <1>2, <3>1, <3>2 DEF BackupInv
  <2>4. QED
    BY <2>1, <2>2, <2>3
<1>6. TypeOK'
  <2>1. UploadsTypeOK'
    BY <1>4 DEF UpInv
  <2>2. QED
    BY <1>1, <1>2, <1>3, <1>5, <2>1 DEF TypeOK
<1>7. QED
  BY <1>1, <1>2, <1>4, <1>5, <1>6, UpIsServing

(* What a restore can count on while it runs.                               *)
LEMMA RestoreFacts ==
    ASSUME IInv, power = "up", loop.at \in Restoring
    PROVE  /\ TypeOK /\ BackupInv /\ PlaceInv /\ RestoreInv /\ PreviousStateKept
           /\ before.db # Missing /\ Sound(before.db) /\ archive # Missing /\ ~torn
           /\ before.db \in Databases /\ before.disk \in (SUBSET Path) \cup {Missing}
           /\ before.acked \subseteq Id /\ before.checked \in BOOLEAN
           /\ Good(before.db, before.disk, late, before.acked)
           /\ archive \in Archives /\ archive.db \in Databases /\ archive.files \subseteq Id
           /\ archive.db # Missing /\ Sound(archive.db)
<1>1. /\ TypeOK /\ BackupInv /\ PlaceInv /\ BeforeInv /\ RestoreInv /\ PreviousStateKept
  BY DEF IInv
<1>2. before.db # Missing /\ archive # Missing /\ ~torn
  BY <1>1 DEF RestoreInv
<1>3. /\ archive \in Archives /\ archive.db \in Databases /\ archive.files \subseteq Id
      /\ archive.db # Missing /\ Sound(archive.db)
  BY <1>1, <1>2, RestoreTypes, DatabaseFields DEF Archives, BackupInv
<1>4. /\ Good(before.db, before.disk, late, before.acked) /\ before.checked \in BOOLEAN
  BY <1>1, <1>2, RestoreTypes DEF BeforeInv
<1>5. QED
  BY <1>1, <1>2, <1>3, <1>4 DEF Good, Sound

(* What a step of the restore has to show.                                  *)
LEMMA RestoreStepKeeps ==
    ASSUME IInv, power = "up", loop.at \in Restoring,
           power' = "up", render' = render, late' = late, copy' = copy, archive' = archive,
           torn' = torn, spent' = spent, failing' \in BOOLEAN,
           NEW to \in Restoring, loop' = [at |-> to, id |-> 0],
           db' \in Databases \cup {Missing}, disk' \in (SUBSET Path) \cup {Missing},
           acked' \subseteq Id, db' # Missing => Sound(db'),
           aside' \in [db : Databases \cup {Missing}, disk : (SUBSET Path) \cup {Missing}],
           \/ before' = before
           \/ before' = [before EXCEPT !.checked = TRUE],
           db' # Missing /\ to \notin {"swap_disk", "undo_disk", "undo_db"} =>
             Good(db', disk', late', acked'),
           RestoreInv', PreviousStateKept'
    PROVE  IInv'
<1>1. TypeOK'
  <2>1. loop' \in [at : Steps, id : 0..N] /\ loop' # Idle
    BY Ids DEF Restoring, Steps, Idle
  <2>2. before' \in [db : Databases \cup {Missing}, disk : (SUBSET Path) \cup {Missing},
                     acked : SUBSET Id, checked : BOOLEAN]
    BY RestoreFacts, RestoreTypes
  <2>3. QED
    BY <2>1, <2>2, RestoreFacts, RestoreTypes, RestoreTyped
<1>2. HandlerInv'
  BY NoHandler DEF Restoring
<1>3. BackupInv'
  BY RestoreFacts DEF BackupInv
<1>4. PlaceInv'
  BY DEF PlaceInv
<1>5. BeforeInv'
  <2>1. before'.db = before.db /\ before'.disk = before.disk /\ before'.acked = before.acked
    BY RestoreFacts, RestoreTypes
  <2>2. QED
    BY <2>1, RestoreFacts DEF BeforeInv
<1>6. QED
  BY <1>1, <1>2, <1>3, <1>4, <1>5 DEF IInv

(* A restore begins with what the server serves.                            *)
LEMMA BeginRestoreKeeps == ASSUME IInv, BeginRestore PROVE IInv'
<1>1. /\ power = "up" /\ loop = Idle /\ archive # Missing
      /\ loop' = [at |-> "set_db_aside", id |-> 0]
      /\ spent' = [spent EXCEPT !.restores = @ + 1]
      /\ before' = [db |-> db, disk |-> disk, acked |-> acked, checked |-> FALSE]
      /\ db' = db /\ disk' = disk /\ power' = power /\ render' = render /\ acked' = acked
      /\ late' = late /\ copy' = copy /\ archive' = archive /\ aside' = aside
      /\ failing' = failing /\ torn' = torn
  BY DEF BeginRestore, Serving, Then
<1>2. UpInv /\ ~torn /\ ~failing /\ before.db = Missing /\ TypeOK /\ BackupInv
  BY <1>1, ServingIsUp
<1>3. Good(db, disk, late, acked) /\ Sound(db) /\ db # Missing
  BY <1>2, UpTypes DEF UpInv
<1>4. TypeOK'
  <2>1. loop' \in [at : Steps, id : 0..N] /\ loop' # Idle
    BY <1>1, Ids DEF Steps, Idle
  <2>2. spent' \in [crashes : Nat, restores : Nat]
    BY <1>1, <1>2, RestoreTypes
  <2>3. QED
    BY <1>1, <1>2, <1>3, <2>1, <2>2, RestoreTypes, RestoreTyped
<1>5. HandlerInv'
  BY <1>1, NoHandler DEF Uploading
<1>6. BackupInv' /\ PlaceInv' /\ BeforeInv'
  BY <1>1, <1>2, <1>3 DEF BackupInv, PlaceInv, BeforeInv
<1>7. RestoreInv'
  BY <1>1, <1>2, <1>3 DEF RestoreInv, At, Restoring, Steps, Uploading
<1>8. PreviousStateKept'
  BY <1>1 DEF PreviousStateKept
<1>9. QED
  BY <1>4, <1>5, <1>6, <1>7, <1>8 DEF IInv

(* The database is moved aside, or the restore throws where nothing moved.  *)
LEMMA SetDbAsideKeeps == ASSUME IInv, SetDbAside PROVE IInv'
<1>1. /\ loop.at = "set_db_aside" /\ power = "up" /\ loop.at \in Restoring
      /\ disk' = disk /\ power' = "up" /\ render' = render /\ acked' = acked /\ late' = late
      /\ copy' = copy /\ archive' = archive /\ before' = before /\ torn' = torn
      /\ spent' = spent
  BY DEF SetDbAside, At, Restoring, Steps, Uploading
<1>2. /\ db = before.db /\ disk = before.disk /\ ~before.checked /\ ~failing
      /\ RestoreInv
  BY <1>1, RestoreFacts DEF RestoreInv, At
<1>3. CASE /\ loop' = [at |-> "set_disk_aside", id |-> 0] /\ failing' = failing
           /\ db' = Missing /\ aside' = [aside EXCEPT !.db = db]
  <2>1. aside'.db = db /\ aside'.disk = aside.disk
    BY <1>3, RestoreFacts, <1>1, RestoreTypes
  <2>2. RestoreInv'
    BY <1>1, <1>2, <1>3, <2>1, RestoreFacts DEF RestoreInv, At, Restoring, Steps, Uploading, Idle
  <2>3. PreviousStateKept'
    BY <1>1, <1>2, <1>3, <2>1 DEF PreviousStateKept
  <2>4. "set_disk_aside" \in Restoring
    BY DEF Restoring, Steps, Uploading
  <2>5. QED
    BY <1>1, <1>2, <1>3, <2>1, <2>2, <2>3, <2>4, RestoreFacts, RestoreTypes, RestoreStepKeeps
<1>4. CASE /\ loop' = [at |-> "reopen", id |-> 0] /\ failing' = TRUE
           /\ db' = db /\ aside' = aside
  <2>1. RestoreInv'
    BY <1>1, <1>2, <1>4, RestoreFacts DEF RestoreInv, At, Restoring, Steps, Uploading, Idle
  <2>2. PreviousStateKept'
    BY <1>1, <1>2, <1>4 DEF PreviousStateKept
  <2>3. Good(db', disk', late', acked')
    BY <1>1, <1>2, <1>4, RestoreFacts DEF PlaceInv
  <2>4. "reopen" \in Restoring
    BY DEF Restoring, Steps, Uploading
  <2>5. QED
    BY <1>1, <1>2, <1>4, <2>1, <2>2, <2>3, <2>4, RestoreFacts, RestoreTypes, RestoreStepKeeps
       DEF Good
<1>5. QED
  BY <1>3, <1>4 DEF SetDbAside, Continue, Throw, Then

(* The tree is moved aside, or the restore throws and leaves the database   *)
(* where it is ("snapshot_fails").                                          *)
LEMMA SetDiskAsideKeeps == ASSUME IInv, SetDiskAside PROVE IInv'
<1>1. /\ loop.at = "set_disk_aside" /\ power = "up" /\ loop.at \in Restoring
      /\ db' = db /\ power' = "up" /\ render' = render /\ acked' = acked /\ late' = late
      /\ copy' = copy /\ archive' = archive /\ before' = before /\ torn' = torn
      /\ spent' = spent
  BY DEF SetDiskAside, At, Restoring, Steps, Uploading
<1>2. /\ db = Missing /\ aside.db = before.db /\ disk = before.disk /\ ~before.checked
      /\ ~failing /\ RestoreInv
  BY <1>1, RestoreFacts DEF RestoreInv, At
<1>3. CASE /\ loop' = [at |-> "copy_in", id |-> 0] /\ failing' = failing
           /\ disk' = Missing /\ aside' = [aside EXCEPT !.disk = disk]
  <2>1. aside'.db = aside.db /\ aside'.disk = disk
    BY <1>1, <1>3, RestoreFacts, RestoreTypes
  <2>2. RestoreInv'
    BY <1>1, <1>2, <1>3, <2>1, RestoreFacts
       DEF RestoreInv, AllAside, At, Restoring, Steps, Uploading, Idle
  <2>3. PreviousStateKept'
    BY <1>1, <1>2, <1>3, <2>1 DEF PreviousStateKept
  <2>4. "copy_in" \in Restoring
    BY DEF Restoring, Steps, Uploading
  <2>5. QED
    BY <1>1, <1>2, <1>3, <2>1, <2>2, <2>3, <2>4, RestoreFacts, RestoreTypes, RestoreStepKeeps
<1>4. CASE /\ loop' = [at |-> "reopen", id |-> 0] /\ failing' = TRUE
           /\ disk' = disk /\ aside' = aside /\ "snapshot_fails" \in Env
  <2>1. RestoreInv'
    BY <1>1, <1>2, <1>4, RestoreFacts DEF RestoreInv, At, Restoring, Steps, Uploading, Idle
  <2>2. PreviousStateKept'
    BY <1>1, <1>2, <1>4 DEF PreviousStateKept
  <2>3. "reopen" \in Restoring
    BY DEF Restoring, Steps, Uploading
  <2>4. QED
    BY <1>1, <1>2, <1>4, <2>1, <2>2, <2>3, RestoreFacts, RestoreTypes, RestoreStepKeeps
<1>5. QED
  BY <1>3, <1>4 DEF SetDiskAside, Continue, Throw, Fails, Then

(* A restore that throws once all is aside is rolled back from there.       *)
LEMMA ThrowKeeps ==
    ASSUME IInv, power = "up", loop.at \in Restoring,
           UNCHANGED <<db, disk, power, render, acked, late, copy, archive, before, torn, spent>>,
           failing' = TRUE, loop' = [at |-> "undo_disk", id |-> 0],
           aside' \in [db : {before.db, Missing}, disk : {before.disk, Missing}],
           Whole \/ ~before.checked => aside'.db = before.db /\ aside'.disk = before.disk
    PROVE  IInv'
<1>1. /\ power' = "up" /\ render' = render /\ late' = late /\ copy' = copy /\ archive' = archive
      /\ torn' = torn /\ spent' = spent /\ db' = db /\ disk' = disk /\ acked' = acked
      /\ before' = before
  OBVIOUS
<1>2. aside' \in [db : Databases \cup {Missing}, disk : (SUBSET Path) \cup {Missing}]
  BY RestoreFacts
<1>3. RestoreInv'
  BY <1>1, RestoreFacts DEF RestoreInv, AllAside, At, Restoring, Steps, Uploading, Idle
<1>4. PreviousStateKept'
  BY <1>1 DEF PreviousStateKept
<1>5. "undo_disk" \in Restoring
  BY DEF Restoring, Steps, Uploading
<1>6. db' # Missing => Sound(db')
  BY <1>1, RestoreFacts DEF PlaceInv
<1>7. QED
  BY <1>1, <1>2, <1>3, <1>4, <1>5, <1>6, RestoreFacts, RestoreTypes, RestoreStepKeeps

(* The archive is copied beside, and its database moved in.                 *)
LEMMA CopyInKeeps == ASSUME IInv, CopyIn \/ SwapDb PROVE IInv'
<1>1. /\ loop.at \in {"copy_in", "swap_db"} /\ power = "up" /\ loop.at \in Restoring
      /\ disk' = disk /\ power' = "up" /\ render' = render /\ acked' = acked /\ late' = late
      /\ copy' = copy /\ archive' = archive /\ aside' = aside /\ before' = before
      /\ torn' = torn /\ spent' = spent
  BY DEF CopyIn, SwapDb, At, Restoring, Steps, Uploading
<1>2. /\ db = Missing /\ disk = Missing /\ AllAside /\ ~before.checked /\ ~failing
  BY <1>1, RestoreFacts DEF RestoreInv
<1>3. aside \in [db : {before.db, Missing}, disk : {before.disk, Missing}]
  BY <1>1, <1>2, RestoreFacts, RestoreTypes DEF AllAside
<1>4. CASE /\ loop' = [at |-> "undo_disk", id |-> 0] /\ failing' = TRUE /\ db' = db
  BY <1>1, <1>2, <1>3, <1>4, ThrowKeeps DEF AllAside
<1>5. CASE /\ loop' = [at |-> "swap_db", id |-> 0] /\ failing' = failing /\ db' = db
  <2>1. RestoreInv'
    BY <1>1, <1>2, <1>5, RestoreFacts
       DEF RestoreInv, AllAside, At, Restoring, Steps, Uploading, Idle
  <2>2. PreviousStateKept'
    BY <1>1, <1>2, <1>5 DEF PreviousStateKept, AllAside
  <2>3. "swap_db" \in Restoring
    BY DEF Restoring, Steps, Uploading
  <2>4. QED
    BY <1>1, <1>2, <1>5, <2>1, <2>2, <2>3, RestoreFacts, RestoreTypes, RestoreStepKeeps
<1>6. CASE /\ loop' = [at |-> "swap_disk", id |-> 0] /\ failing' = failing
           /\ db' = archive.db
  <2>1. RestoreInv'
    BY <1>1, <1>2, <1>6, RestoreFacts
       DEF RestoreInv, AllAside, At, Restoring, Steps, Uploading, Idle
  <2>2. PreviousStateKept'
    BY <1>1, <1>2, <1>6 DEF PreviousStateKept, AllAside
  <2>3. "swap_disk" \in Restoring
    BY DEF Restoring, Steps, Uploading
  <2>4. QED
    BY <1>1, <1>2, <1>6, <2>1, <2>2, <2>3, RestoreFacts, RestoreTypes, RestoreStepKeeps
<1>7. QED
  BY <1>4, <1>5, <1>6 DEF CopyIn, SwapDb, Continue, Throw, Then

(* The files of the archive belong to its committed rows.                   *)
LEMMA ArchiveIsGood ==
    ASSUME NEW S \in SUBSET Id, NEW d, Sound(d), \A a \in S : d.rows[a] = "committed",
           NEW strays \in SUBSET Id, NEW f,
           f = IF S = {} THEN Missing ELSE {File(a) : a \in S}
    PROVE  f \in (SUBSET Path) \cup {Missing} /\ Good(d, f, strays, S)
<1>1. FilesIn(f) = {File(a) : a \in S} /\ f \in (SUBSET Path) \cup {Missing}
  <2>1. CASE S = {}
    BY <2>1, TreeFacts
  <2>2. CASE S # {}
    <3>1. {File(a) : a \in S} \in SUBSET Path
      BY PathFacts
    <3>2. QED
      BY <2>2, <3>1, TreeFacts
  <2>3. QED
    BY <2>1, <2>2
<1>2. ASSUME NEW p \in FilesIn(f) PROVE p[1] \in S /\ p[2] = "file"
  <2>1. PICK a \in S : p = File(a)
    BY <1>1
  <2>2. QED
    BY <2>1, PathFacts
<1>3. Owned(d, f, strays)
  <2>1. \A p \in FilesIn(f) : d.rows[p[1]] # "none"
    <3>1. ASSUME NEW p \in FilesIn(f) PROVE d.rows[p[1]] # "none"
      <4>1. p[1] \in S
        BY <1>2
      <4>2. d.rows[p[1]] = "committed"
        BY <4>1
      <4>3. QED
        BY <4>2
    <3>2. QED
      BY <3>1
  <2>2. \A a \in Id : Stage(a) \notin FilesIn(f)
    <3>1. ASSUME NEW a \in Id, Stage(a) \in FilesIn(f) PROVE FALSE
      BY <1>2, <3>1, PathFacts
    <3>2. QED
      BY <3>1
  <2>3. QED
    BY <2>1, <2>2 DEF Owned
<1>4. Present(d, f, S)
  BY <1>1 DEF Present
<1>5. QED
  BY <1>1, <1>3, <1>4 DEF Good

(* The tree of the archive is moved in: what is acknowledged now is what it *)
(* has.                                                                     *)
LEMMA SwapDiskKeeps == ASSUME IInv, SwapDisk PROVE IInv'
<1>1. /\ loop.at = "swap_disk" /\ power = "up" /\ loop.at \in Restoring
      /\ db' = db /\ power' = "up" /\ render' = render /\ late' = late
      /\ copy' = copy /\ archive' = archive /\ aside' = aside /\ before' = before
      /\ torn' = torn /\ spent' = spent
  BY DEF SwapDisk, At, Restoring, Steps, Uploading
<1>2. /\ db = archive.db /\ disk = Missing /\ AllAside /\ ~before.checked /\ ~failing
  BY <1>1, RestoreFacts DEF RestoreInv, At
<1>3. CASE /\ loop' = [at |-> "undo_disk", id |-> 0] /\ failing' = TRUE
           /\ disk' = disk /\ acked' = acked
  <2>1. aside \in [db : {before.db, Missing}, disk : {before.disk, Missing}]
    BY <1>1, <1>2, RestoreFacts, RestoreTypes DEF AllAside
  <2>2. QED
    BY <1>1, <1>2, <1>3, <2>1, ThrowKeeps DEF AllAside
<1>4. CASE /\ loop' = [at |-> "check", id |-> 0] /\ failing' = failing
           /\ acked' = archive.files
           /\ disk' = IF archive.files = {} THEN Missing ELSE {File(a) : a \in archive.files}
  <2>1. \A a \in archive.files : archive.db.rows[a] = "committed"
    BY <1>1, RestoreFacts DEF BackupInv
  <2>2. disk' \in (SUBSET Path) \cup {Missing} /\ Good(db', disk', late', acked')
    BY <1>1, <1>2, <1>4, <2>1, RestoreFacts, RestoreTypes, ArchiveIsGood
  <2>3. RestoreInv'
    BY <1>1, <1>2, <1>4, RestoreFacts
       DEF RestoreInv, AllAside, At, Restoring, Steps, Uploading, Idle
  <2>4. PreviousStateKept'
    BY <1>1, <1>2, <1>4 DEF PreviousStateKept, AllAside
  <2>5. "check" \in Restoring
    BY DEF Restoring, Steps, Uploading
  <2>6. QED
    BY <1>1, <1>2, <1>4, <2>2, <2>3, <2>4, <2>5, RestoreFacts, RestoreTypes, RestoreStepKeeps
       DEF Good
<1>5. QED
  BY <1>3, <1>4 DEF SwapDisk, Continue, Throw, Then

(* What is in place is checked while what was is still aside.               *)
LEMMA CheckKeeps == ASSUME IInv, Check PROVE IInv'
<1>1. /\ loop.at = "check" /\ power = "up" /\ loop.at \in Restoring
      /\ db' = db /\ disk' = disk /\ acked' = acked /\ power' = "up" /\ render' = render
      /\ late' = late /\ copy' = copy /\ archive' = archive /\ aside' = aside
      /\ torn' = torn /\ spent' = spent
  BY DEF Check, KeptTillChecked, At, Restoring, Steps, Uploading
<1>2. /\ AllAside /\ ~before.checked /\ ~failing
  BY <1>1, RestoreFacts DEF RestoreInv, At
<1>3. CASE /\ loop' = [at |-> "undo_disk", id |-> 0] /\ failing' = TRUE
           /\ before' = before
  <2>1. aside \in [db : {before.db, Missing}, disk : {before.disk, Missing}]
    BY <1>1, <1>2, RestoreFacts, RestoreTypes DEF AllAside
  <2>2. QED
    BY <1>1, <1>2, <1>3, <2>1, ThrowKeeps DEF AllAside
<1>4. CASE /\ loop' = [at |-> "cleanup", id |-> 0] /\ failing' = failing
           /\ before' = [before EXCEPT !.checked = TRUE] /\ db # Missing
  <2>1. before'.checked = TRUE /\ before'.db = before.db /\ before'.disk = before.disk
        /\ before'.acked = before.acked
    BY <1>1, <1>4, RestoreFacts, RestoreTypes
  <2>2. Sound(db) /\ Good(db', disk', late', acked')
    BY <1>1, <1>4, RestoreFacts DEF PlaceInv
  <2>3. RestoreInv'
    BY <1>1, <1>2, <1>4, <2>1, RestoreFacts
       DEF RestoreInv, AllAside, At, Restoring, Steps, Uploading, Idle
  <2>4. PreviousStateKept'
    BY <2>1 DEF PreviousStateKept
  <2>5. "cleanup" \in Restoring
    BY DEF Restoring, Steps, Uploading
  <2>6. QED
    BY <1>1, <1>2, <1>4, <2>1, <2>2, <2>3, <2>4, <2>5, RestoreFacts, RestoreTypes,
       RestoreStepKeeps DEF Good
<1>5. db # Missing
  BY <1>1, RestoreFacts DEF RestoreInv, At
<1>6. QED
  BY <1>3, <1>4, <1>5 DEF Check, Continue, Throw, Then

(* What was is removed once the restored state has passed its check.        *)
LEMMA CleanupKeeps == ASSUME IInv, Cleanup PROVE IInv'
<1>1. /\ loop.at = "cleanup" /\ power = "up" /\ loop.at \in Restoring
      /\ db' = db /\ disk' = disk /\ acked' = acked /\ power' = "up" /\ render' = render
      /\ late' = late /\ copy' = copy /\ archive' = archive /\ before' = before
      /\ torn' = torn /\ spent' = spent
  BY DEF Cleanup, At, Restoring, Steps, Uploading
<1>2. /\ db # Missing /\ AllAside /\ before.checked /\ ~failing
  BY <1>1, RestoreFacts DEF RestoreInv, At
<1>3. CASE /\ loop' = [at |-> "undo_disk", id |-> 0] /\ failing' = TRUE /\ ~Whole
           /\ aside' \in [db : {aside.db, Missing}, disk : {aside.disk, Missing}]
  BY <1>1, <1>2, <1>3, ThrowKeeps DEF AllAside
<1>4. CASE /\ loop' = [at |-> "reopen", id |-> 0] /\ failing' = failing
           /\ aside' = NothingAside
  <2>1. Good(db', disk', late', acked')
    BY <1>1, <1>2, <1>4, RestoreFacts DEF PlaceInv
  <2>2. RestoreInv'
    BY <1>1, <1>2, <1>4, RestoreFacts DEF RestoreInv, At, Restoring, Steps, Uploading, Idle
  <2>3. PreviousStateKept'
    BY <1>1, <1>2 DEF PreviousStateKept
  <2>4. "reopen" \in Restoring
    BY DEF Restoring, Steps, Uploading
  <2>5. aside' \in [db : Databases \cup {Missing}, disk : (SUBSET Path) \cup {Missing}]
    BY <1>4 DEF NothingAside
  <2>6. QED
    BY <1>1, <1>2, <1>4, <2>1, <2>2, <2>3, <2>4, <2>5, RestoreFacts, RestoreTypes,
       RestoreStepKeeps DEF Good
<1>5. QED
  BY <1>3, <1>4 DEF Cleanup, Continue, Throw, Fails, Then, Whole

(* The rollback puts the tree back first.                                   *)
LEMMA UndoDiskKeeps == ASSUME IInv, UndoDisk PROVE IInv'
<1>1. /\ loop.at = "undo_disk" /\ power = "up" /\ loop.at \in Restoring
      /\ loop' = [at |-> "undo_db", id |-> 0] /\ disk' = aside.disk /\ acked' = before.acked
      /\ aside' = [aside EXCEPT !.disk = Missing]
      /\ db' = db /\ power' = "up" /\ render' = render /\ failing' = failing
      /\ late' = late /\ copy' = copy /\ archive' = archive /\ before' = before
      /\ torn' = torn /\ spent' = spent
  BY DEF UndoDisk, UndoneDisk, Then, At, Restoring, Steps, Uploading
<1>2. /\ failing /\ (Whole \/ ~before.checked => AllAside)
      /\ aside.db \in {before.db, Missing} /\ aside.disk \in {before.disk, Missing}
  BY <1>1, RestoreFacts DEF RestoreInv, At
<1>3. aside'.db = aside.db /\ aside'.disk = Missing /\
      aside' \in [db : Databases \cup {Missing}, disk : (SUBSET Path) \cup {Missing}]
  BY <1>1, RestoreFacts, RestoreTypes
<1>4. RestoreInv'
  BY <1>1, <1>2, <1>3, RestoreFacts
     DEF RestoreInv, AllAside, At, Restoring, Steps, Uploading, Idle
<1>5. PreviousStateKept'
  BY <1>1, <1>2, <1>3 DEF PreviousStateKept, AllAside
<1>6. "undo_db" \in Restoring
  BY DEF Restoring, Steps, Uploading
<1>7. db' # Missing => Sound(db')
  BY <1>1, RestoreFacts DEF PlaceInv
<1>8. QED
  BY <1>1, <1>2, <1>3, <1>4, <1>5, <1>6, <1>7, RestoreFacts, RestoreTypes, RestoreStepKeeps

(* Then the database: both are as they were when the restore began.         *)
LEMMA UndoDbKeeps == ASSUME IInv, UndoDb PROVE IInv'
<1>1. /\ loop.at = "undo_db" /\ power = "up" /\ loop.at \in Restoring
      /\ loop' = [at |-> "reopen", id |-> 0] /\ db' = aside.db /\ aside' = NothingAside
      /\ disk' = disk /\ acked' = acked /\ power' = "up" /\ render' = render
      /\ failing' = failing /\ late' = late /\ copy' = copy /\ archive' = archive
      /\ before' = before /\ torn' = torn /\ spent' = spent
  BY DEF UndoDb, UndoneDb, Then, At, Restoring, Steps, Uploading
<1>2. /\ failing /\ disk \in {before.disk, Missing} /\ aside.db \in {before.db, Missing}
      /\ Whole \/ ~before.checked => aside.db = before.db /\ disk = before.disk
      /\ acked = before.acked
  BY <1>1, RestoreFacts DEF RestoreInv, At
<1>3. RestoreInv'
  BY <1>1, <1>2, RestoreFacts DEF RestoreInv, At, Restoring, Steps, Uploading, Idle
<1>4. PreviousStateKept'
  BY <1>1, <1>2 DEF PreviousStateKept
<1>5. db' # Missing => Good(db', disk', late', acked')
  <2>1. CASE db' = before.db /\ disk' = before.disk
    BY <1>1, <1>2, <2>1, RestoreFacts
  <2>2. CASE ~Whole /\ db' = before.db /\ disk' = Missing
    <3>1. Owned(before.db, Missing, late)
      BY TreeFacts DEF Owned
    <3>2. QED
      BY <1>1, <1>2, <2>2, <3>1, RestoreFacts DEF Good
  <2>3. QED
    BY <1>1, <1>2, <2>1, <2>2
<1>6. "reopen" \in Restoring
  BY DEF Restoring, Steps, Uploading
<1>7. aside' \in [db : Databases \cup {Missing}, disk : (SUBSET Path) \cup {Missing}]
  BY <1>1 DEF NothingAside
<1>8. QED
  BY <1>1, <1>2, <1>3, <1>4, <1>5, <1>6, <1>7, RestoreFacts, RestoreTypes, RestoreStepKeeps
     DEF Good

(* Recovering interrupted uploads keeps what was acknowledged.              *)
LEMMA RecoveryKeeps ==
    ASSUME NEW everywhere \in BOOLEAN, Good(db, disk, late, acked), Recovered(everywhere),
           late' = late
    PROVE  Good(db', disk', late', acked)
<1> DEFINE scrub == everywhere \/ \E a \in Id : db.rows[a] = "reserved"
           strays == {Stage(a) : a \in {b \in Id : scrub /\ db.rows[b] # "reserved"}}
<1>1. PICK bad \in SUBSET Id : RolledBack(Id \ bad, strays)
  BY DEF Recovered
<1>2. \A p \in strays : \E a \in Id : p = Stage(a)
  OBVIOUS
<1> HIDE DEF strays
<1>3. QED
  BY <1>1, <1>2, RolledBackKeeps

(* A server that comes up, or back, serves what it finds.                   *)
LEMMA UpAgain ==
    ASSUME IInv, Good(db', disk', late', acked'), power' = "up", loop' = Idle,
           render' \in 0..N, before' = NotRestoring, torn' = torn, ~torn, failing' = FALSE,
           spent' = spent, aside' = aside, copy' = copy,
           archive' = archive \/ archive' = Missing
    PROVE  IInv'
<1>1. TypeOK /\ BackupInv
  BY DEF IInv
<1>2. loop' = [at |-> "idle", id |-> 0]
  BY DEF Idle
<1>3. HandlerInv'
  BY <1>2, NoHandler DEF Uploading
<1>4. UpInv'
  BY <1>2, <1>3, Ids, UpFromGood
<1>5. TypeOK'
  <2>1. loop' \in [at : Steps, id : 0..N]
    BY <1>2, Ids DEF Steps
  <2>2. Sound(db') /\ db' \in Databases /\ db' # Missing
    BY DatabaseFields DEF Good, Sound
  <2>3. before' \in [db : Databases \cup {Missing}, disk : (SUBSET Path) \cup {Missing},
                     acked : SUBSET Id, checked : BOOLEAN]
    BY DEF NotRestoring
  <2>4. QED
    BY <1>1, <2>1, <2>2, <2>3, RestoreTypes, RestoreTyped DEF Good
<1>6. BackupInv'
  BY <1>1 DEF BackupInv
<1>7. before'.db = Missing
  BY DEF NotRestoring
<1>8. QED
  BY <1>4, <1>5, <1>6, <1>7, UpIsServing

(* After a restore the server opens what is there, or stays closed.         *)
LEMMA ReopenKeeps == ASSUME IInv, Reopen PROVE IInv'
<1>1. /\ loop.at = "reopen" /\ power = "up" /\ loop.at \in Restoring
      /\ loop' = Idle /\ failing' = FALSE /\ archive' = Missing
      /\ render' = render /\ acked' = acked /\ late' = late /\ copy' = copy
      /\ aside' = aside /\ torn' = torn /\ spent' = spent
  BY DEF Reopen, At, Restoring, Steps, Uploading
<1>2. TypeOK /\ BackupInv /\ RestoreInv /\ PlaceInv /\ ~torn
  BY <1>1, RestoreFacts
<1>3. CASE db = Missing
  <2>1. power' = "closed" /\ db' = db /\ disk' = disk /\ before' = before
    BY <1>3 DEF Reopen, Mounted
  <2>2. loop' = [at |-> "idle", id |-> 0] /\ loop' \in [at : Steps, id : 0..N]
    BY <1>1, Ids DEF Idle, Steps
  <2>3. TypeOK'
    BY <1>1, <1>2, <1>3, <2>1, <2>2, RestoreTypes, RestoreTyped
  <2>4. HandlerInv' /\ BackupInv' /\ PlaceInv' /\ BeforeInv' /\ PreviousStateKept'
    <3>1. BeforeInv /\ PreviousStateKept
      BY DEF IInv
    <3>2. QED
      BY <1>1, <1>2, <1>3, <2>1, <2>2, <3>1
         DEF HandlerInv, BackupInv, PlaceInv, BeforeInv, PreviousStateKept
  <2>5. RestoreInv'
    BY <1>1, <1>2, <2>1, <2>2 DEF RestoreInv, At, Restoring, Steps, Uploading
  <2>6. QED
    BY <2>3, <2>4, <2>5 DEF IInv
<1>4. CASE db # Missing
  <2>1. power' = power /\ before' = NotRestoring
    BY <1>4 DEF Reopen, Mounted
  <2>2. Good(db, disk, late, acked)
    BY <1>1, <1>2, <1>4 DEF PlaceInv
  <2>3. Good(db', disk', late', acked')
    <3>1. CASE failing
      <4>1. db' = db /\ disk' = disk
        BY <1>4, <3>1 DEF Reopen, Mounted, Opened
      <4>2. QED
        BY <1>1, <2>2, <4>1
    <3>2. CASE ~failing
      <4>1. Recovered(TRUE)
        BY <1>4, <3>2 DEF Reopen, Mounted
      <4>2. Good(db', disk', late', acked)
        BY <1>1, <2>2, <4>1, RecoveryKeeps
      <4>3. QED
        BY <1>1, <4>2
    <3>3. QED
      BY <3>1, <3>2
  <2>4. render' \in 0..N
    BY <1>1, <1>2, RestoreTypes
  <2>5. QED
    BY <1>1, <1>2, <2>1, <2>3, <2>4, UpAgain
<1>5. QED
  BY <1>3, <1>4

(* A crash leaves the database and the tree as they are.                    *)
LEMMA CrashKeeps == ASSUME IInv, Crash PROVE IInv'
<1>1. /\ power' = "down" /\ loop' = Idle /\ render' = 0 /\ copy' = Missing /\ failing' = FALSE
      /\ spent' = [spent EXCEPT !.crashes = @ + 1]
      /\ torn' = (torn \/ (db # Missing /\ loop.at \in {"swap_disk", "undo_disk", "undo_db"}))
      /\ db' = db /\ disk' = disk /\ acked' = acked /\ late' = late /\ archive' = archive
      /\ aside' = aside /\ before' = before
  BY DEF Crash
<1>2. TypeOK /\ BackupInv /\ PlaceInv /\ BeforeInv /\ PreviousStateKept
  BY DEF IInv
<1>3. loop' = [at |-> "idle", id |-> 0] /\ loop' \in [at : Steps, id : 0..N]
  BY <1>1, Ids DEF Idle, Steps
<1>4. TypeOK'
  <2>1. spent' \in [crashes : Nat, restores : Nat] /\ torn' \in BOOLEAN
    BY <1>1, <1>2, RestoreTypes
  <2>2. db' # Missing => Sound(db')
    BY <1>1, <1>2 DEF PlaceInv
  <2>3. QED
    BY <1>1, <1>2, <1>3, <2>1, <2>2, Ids, RestoreTypes, RestoreTyped
<1>5. HandlerInv' /\ BackupInv' /\ BeforeInv' /\ PreviousStateKept'
  BY <1>1, <1>2 DEF HandlerInv, BackupInv, BeforeInv, PreviousStateKept
<1>6. PlaceInv'
  <2>1. db' # Missing /\ ~torn' => Good(db', disk', late', acked')
    BY <1>1, <1>2 DEF PlaceInv
  <2>2. QED
    BY <1>1, <1>2, <2>1 DEF PlaceInv
<1>7. RestoreInv'
  BY <1>1, <1>3 DEF RestoreInv, At, Restoring, Steps, Uploading
<1>8. QED
  BY <1>4, <1>5, <1>6, <1>7 DEF IInv

(* A boot recovers the uploads; one that finds no database does not happen. *)
LEMMA BootKeeps == ASSUME IInv, Boot PROVE IInv'
<1>1. /\ power = "down" /\ db # Missing /\ ~torn /\ power' = "up" /\ before' = NotRestoring
      /\ Recovered(FALSE)
      /\ loop' = loop /\ render' = render /\ acked' = acked /\ late' = late /\ copy' = copy
      /\ archive' = archive /\ aside' = aside /\ failing' = failing /\ torn' = torn
      /\ spent' = spent
  BY DEF Boot, Mounted
<1>2. TypeOK /\ PlaceInv /\ RestoreInv
  BY DEF IInv
<1>3. loop = Idle /\ failing = FALSE
  BY <1>1, <1>2, RestoreTypes DEF RestoreInv
<1>4. Good(db, disk, late, acked)
  BY <1>1, <1>2, <1>3 DEF PlaceInv, Idle
<1>5. Good(db', disk', late', acked)
  BY <1>1, <1>4, RecoveryKeeps
<1>6. render' \in 0..N
  BY <1>1, <1>2, RestoreTypes
<1>7. QED
  BY <1>1, <1>3, <1>5, <1>6, UpAgain

(* A new installation.                                                      *)
LEMMA InitKeeps == Init => IInv
<1>1. SUFFICES ASSUME Init PROVE IInv
  OBVIOUS
<1>2. /\ db = NewDb /\ disk = {} /\ power = "up" /\ loop = [at |-> "idle", id |-> 0]
      /\ render = 0 /\ acked = {} /\ late = {} /\ copy = Missing /\ archive = Missing
      /\ aside = NothingAside /\ failing = FALSE /\ before = NotRestoring /\ torn = FALSE
      /\ spent = [crashes |-> 0, restores |-> 0]
  BY <1>1 DEF Init, Idle
<1>3. /\ NewDb \in Databases /\ (\A a \in Id : NewDb.rows[a] = "none")
      /\ \A p \in Path : NewDb.queue[p] = "none"
  <2>1. 1 \in 1..(N + 1)
    BY Ids
  <2>2. QED
    BY <2>1 DEF NewDb, Databases
<1>4. db # Missing /\ Sound(db)
  BY <1>2, <1>3, DatabaseFields DEF Sound
<1>5. disk \in SUBSET Path /\ FilesIn(disk) = {}
  BY <1>2, TreeFacts
<1>6. Good(db, disk, late, acked)
  BY <1>2, <1>3, <1>4, <1>5 DEF Good, Owned, Present
<1>7. TypeOK
  <2>1. aside \in [db : Databases \cup {Missing}, disk : (SUBSET Path) \cup {Missing}]
    BY <1>2 DEF NothingAside
  <2>2. before \in [db : Databases \cup {Missing}, disk : (SUBSET Path) \cup {Missing},
                    acked : SUBSET Id, checked : BOOLEAN]
    BY <1>2 DEF NotRestoring
  <2>3. UploadsTypeOK
    BY <1>2, <1>4, <1>5, Ids DEF UploadsTypeOK, Sound
  <2>4. QED
    BY <1>2, <2>1, <2>2, <2>3, Ids DEF TypeOK, Steps
<1>8. before.db = Missing
  BY <1>2 DEF NotRestoring
<1>9. HandlerInv /\ BackupInv /\ PlaceInv /\ BeforeInv /\ PreviousStateKept
  BY <1>2, <1>4, <1>6, <1>8
     DEF HandlerInv, Uploading, BackupInv, PlaceInv, BeforeInv, PreviousStateKept
<1>10. RestoreInv
  BY <1>2, <1>8 DEF RestoreInv, At, Restoring, Steps, Uploading
<1>11. QED
  BY <1>7, <1>9, <1>10 DEF IInv

(* The invariant of the whole, with every failure.                          *)
LEMMA RestoreInvariant == Spec => []IInv
<1>1. IInv /\ [Next]_vars => IInv'
  <2>1. SUFFICES ASSUME IInv, [Next]_vars PROVE IInv'
    OBVIOUS
  <2>2. CASE UploadsNext /\ UNCHANGED restorevars
    BY <2>1, <2>2, UploadsKeepAll
  <2>3. CASE Snapshot \/ FinishBackup \/ \E a \in Id : CopyFile(a)
    BY <2>1, <2>3, BackupsKeep
  <2>4. CASE RestoreNext
    BY <2>1, <2>4, SetDbAsideKeeps, SetDiskAsideKeeps, CopyInKeeps, SwapDiskKeeps, CheckKeeps,
       CleanupKeeps, UndoDiskKeeps, UndoDbKeeps, ReopenKeeps DEF RestoreNext
  <2>5. CASE BeginRestore
    BY <2>1, <2>5, BeginRestoreKeeps
  <2>6. CASE Crash
    BY <2>1, <2>6, CrashKeeps
  <2>7. CASE Boot
    BY <2>1, <2>7, BootKeeps
  <2>8. CASE UNCHANGED vars
    BY <2>1, <2>8 DEF vars, IInv, TypeOK, UploadsTypeOK, HandlerInv, Files, BackupInv, PlaceInv,
                      BeforeInv, RestoreInv, AllAside, At, PreviousStateKept
  <2>9. QED
    BY <2>1, <2>2, <2>3, <2>4, <2>5, <2>6, <2>7, <2>8 DEF Next
<1>2. QED
  BY <1>1, InitKeeps, PTL DEF Spec

-----------------------------------------------------------------------------
(* Every variable keeps its type.                                           *)
THEOREM TypeCorrect == Spec => []TypeOK
<1>1. IInv => TypeOK
  BY DEF IInv
<1>2. QED
  BY <1>1, RestoreInvariant, PTL

(* An upload the server said it has is there whenever it serves, whatever   *)
(* fails but a cleanup half way, and whenever the process dies.             *)
THEOREM UploadsStay ==
    ASSUME "cleanup_fails" \notin Env PROVE Spec => []AcknowledgedStays
<1>1. IInv => AcknowledgedStays
  <2>1. SUFFICES ASSUME IInv, power = "up", loop = Idle, ~torn, NEW a \in acked
                 PROVE  db.rows[a] = "committed" /\ File(a) \in Files
    BY DEF AcknowledgedStays
  <2>2. UpInv
    BY <2>1, ServingIsUp
  <2>3. QED
    BY <2>2, UpTypes DEF Whole, Present
<1>2. QED
  BY <1>1, RestoreInvariant, PTL

(* No deletion, interrupted upload, late rendering or restore leaves bytes  *)
(* that nobody owns.                                                        *)
THEOREM NothingIsOrphaned == Spec => []NoOrphanBytes
<1>1. IInv => NoOrphanBytes
  <2>1. SUFFICES ASSUME IInv, power = "up", loop = Idle, ~torn, NEW p \in Files
                 PROVE  \/ db.rows[p[1]] # "none" \/ db.queue[p] # "none"
                        \/ p[2] = "thumb" /\ p[1] \in late
    BY DEF NoOrphanBytes
  <2>2. UpInv
    BY <2>1, ServingIsUp
  <2>3. QED
    BY <2>2, UpTypes DEF Owned
<1>2. QED
  BY <1>1, RestoreInvariant, PTL

(* The previous state exists until the restored one has passed its check.   *)
THEOREM PreviousSurvives == Spec => []PreviousStateKept
<1>1. IInv => PreviousStateKept
  BY DEF IInv
<1>2. QED
  BY <1>1, RestoreInvariant, PTL

(* A restore that fails leaves what was, unless it fails while it sets that *)
(* aside or while it cleans up.                                             *)
THEOREM FailuresAreUndone ==
    ASSUME "snapshot_fails" \notin Env, "cleanup_fails" \notin Env
    PROVE  Spec => []FailedRestoreRestores
<1>1. IInv => FailedRestoreRestores
  <2>1. SUFFICES ASSUME IInv, At("reopen"), failing PROVE db = before.db /\ disk = before.disk
    BY DEF FailedRestoreRestores
  <2>2. RestoreInv
    BY <2>1 DEF IInv
  <2>3. QED
    BY <2>1, <2>2 DEF RestoreInv, Whole
<1>2. QED
  BY <1>1, RestoreInvariant, PTL
==============================================================================
