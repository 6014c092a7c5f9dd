----------------------------- MODULE Proposals -----------------------------
(***************************************************************************)
(* The review queue (proposals.service.ts, proposal-records.service.ts):   *)
(* proposals to create, update or delete an entity, revised or withdrawn   *)
(* by their author, approved (with an amended payload perhaps) or rejected *)
(* by a DM, while people edit the entities and the server may die.         *)
(*                                                                         *)
(* Another request may run between a handler's read, its compare-and-set   *)
(* and its entity write; each of these is one database call.  An entity's  *)
(* content stands for its row, updatedAt included, and a payload for its   *)
(* revision.  Storyline entities take their update as a compare-and-set.   *)
(* A request that is refused ends without a trace and so without a step.   *)
(* Roles, notifications and the copies shown to players are left out.      *)
(***************************************************************************)
EXTENDS Naturals

CONSTANTS
    Proposal,
    Entity,
    Storyline,      \* entities that are story arcs or beats
    Request,        \* calls on the queue
    People,         \* who edits entities directly
    None,
    MaxEdits,       \* bound: direct edits
    MaxRevs,        \* bound: payloads of one proposal
    MaxCrashes,
    Env             \* what may happen: "write_fails", "revert_fails",
                    \* "finalize_fails", "late_failure", "revise_overlaps"

ASSUME StorylinesAreEntities == Storyline \subseteq Entity
ASSUME NamesDiffer == People \notin Proposal /\ None \notin Proposal \cup Entity
ASSUME BoundsAreNat == {MaxEdits, MaxRevs, MaxCrashes} \subseteq Nat

VARIABLES
    row,            \* Proposal -> its row
    content,        \* Entity -> what it holds
    req,            \* Request -> the call: where it is and what it has read
    audited,        \* proposals with a proposal.approve audit row
    applied,        \* ghost: Proposal -> what its entity write did
    stranded,       \* ghost: claims lost with their process or their revert
    spent           \* how many edits and crashes there were

vars == <<row, content, req, audited, applied, stranded, spent>>

Content == [alive : BOOLEAN, by : Proposal \cup {People}, rev : Nat]
Unborn == [alive |-> FALSE, by |-> People, rev |-> 0]
NoRow == [status |-> "none", action |-> "create", entity |-> None, payload |-> 0, base |-> Unborn]
Idle == [pc |-> "idle", p |-> None, rev |-> 0, amended |-> FALSE]
Done == [Idle EXCEPT !.pc = "done"]
NotYet == [done |-> FALSE, entity |-> None, rev |-> 0]

Statuses == {"none", "pending", "approved", "rejected", "withdrawn"}
Steps == {"idle", "claim", "reject", "withdraw", "revise", "write", "revert", "finalize", "done"}

TypeOK ==
    /\ row \in [Proposal -> [status : Statuses, action : {"create", "update", "delete"},
                             entity : Entity \cup {None}, payload : Nat, base : Content]]
    /\ content \in [Entity -> Content]
    /\ req \in [Request -> [pc : Steps, p : Proposal \cup {None}, rev : Nat, amended : BOOLEAN]]
    /\ audited \subseteq Proposal /\ stranded \subseteq Proposal
    /\ applied \in [Proposal -> [done : BOOLEAN, entity : Entity \cup {None}, rev : Nat]]
    /\ spent \in [edits : Nat, crashes : Nat]
    /\ \A p \in Proposal : row[p].status # "none" /\ row[p].action # "create" =>
         row[p].entity # None
    /\ \A r \in Request : req[r].pc \notin {"idle", "done"} => req[r].p # None

Init ==
    /\ row = [p \in Proposal |-> NoRow]
    /\ content \in [Entity -> {Unborn, [Unborn EXCEPT !.alive = TRUE, !.rev = 1]}]
    /\ req = [r \in Request |-> Idle] /\ audited = {} /\ stranded = {}
    /\ applied = [p \in Proposal |-> NotYet] /\ spent = [edits |-> 0, crashes |-> 0]

-----------------------------------------------------------------------------
(* The rows.                                                                *)

(* create: a change carries the target's content at that time.              *)
File(p) ==
    /\ row[p].status = "none"
    /\ \/ row' = [row EXCEPT ![p] = [NoRow EXCEPT !.status = "pending", !.payload = 1]]
       \/ \E e \in Entity, action \in {"update", "delete"} :
            /\ content[e].alive
            /\ row' = [row EXCEPT ![p] = [status |-> "pending", action |-> action,
                                          entity |-> e, payload |-> 1, base |-> content[e]]]
    /\ UNCHANGED <<content, req, audited, applied, stranded, spent>>

(* Somebody else writes, creates or removes an entity.                      *)
Edit(e) ==
    /\ spent.edits < MaxEdits
    /\ \E alive \in BOOLEAN :
         /\ content[e].alive \/ (content[e] = Unborn /\ alive)
         /\ content' = [content EXCEPT ![e] = [alive |-> alive, by |-> People,
                                               rev |-> spent.edits + 2]]
    /\ spent' = [spent EXCEPT !.edits = @ + 1]
    /\ UNCHANGED <<row, req, audited, applied, stranded>>

(* The next step of r, and nothing else.                                    *)
Goto(r, pc) == req' = [req EXCEPT ![r].pc = pc]

(* The response: nothing that r has read matters any more.                  *)
Answer(r) == req' = [req EXCEPT ![r] = Done]

(* assertProposalTargetFresh.                                               *)
TargetFresh(p) ==
    row[p].action # "create" =>
        content[row[p].entity].alive /\ content[row[p].entity] = row[p].base

(* What a call reads before it writes, and where it then stands.            *)
Read(r, p, pc, rev, amended) ==
    /\ req[r] = Idle /\ row[p].status = "pending"
    /\ req' = [req EXCEPT ![r] = [pc |-> pc, p |-> p, rev |-> rev, amended |-> amended]]
    /\ UNCHANGED <<row, content, audited, applied, stranded, spent>>

ReadToApprove(r, p) ==
    /\ TargetFresh(p)
    /\ \E amended \in BOOLEAN :
         /\ amended => row[p].action # "delete" /\ row[p].payload < MaxRevs
         /\ Read(r, p, "claim", IF amended THEN MaxRevs + 1 ELSE row[p].payload, amended)

ReadToDecide(r, p) == \E pc \in {"reject", "withdraw"} : Read(r, p, pc, 0, FALSE)

ReadToRevise(r, p) ==
    /\ row[p].action # "delete" /\ row[p].payload < MaxRevs
    /\ Read(r, p, "revise", row[p].payload + 1, FALSE)

-----------------------------------------------------------------------------
(* markResolved, markWithdrawn, revisePayload: compare-and-set on a row     *)
(* that must still be pending.                                              *)

(* Mutant: the row is resolved whatever it says by now.                     *)
StillPendingUnchecked(p) == TRUE

StillPending(p) == row[p].status = "pending"

Claim(r) ==
    LET p == req[r].p
    IN  /\ req[r].pc = "claim"
        /\ IF StillPending(p)
           THEN row' = [row EXCEPT ![p].status = "approved"] /\ Goto(r, "write")
           ELSE UNCHANGED row /\ Answer(r)
        /\ UNCHANGED <<content, audited, applied, stranded, spent>>

Decide(r) ==
    LET p == req[r].p
        status == IF req[r].pc = "reject" THEN "rejected" ELSE "withdrawn"
    IN  /\ req[r].pc \in {"reject", "withdraw"} /\ Answer(r)
        /\ row' = IF StillPending(p) THEN [row EXCEPT ![p].status = status] ELSE row
        /\ UNCHANGED <<content, audited, applied, stranded, spent>>

(* An approval that has read the payload already applies what it read.      *)
BeingApproved(p) == \E r \in Request : req[r].p = p /\ req[r].pc = "claim"

Revise(r) ==
    LET p == req[r].p
    IN  /\ req[r].pc = "revise" /\ Answer(r)
        /\ "revise_overlaps" \in Env \/ ~BeingApproved(p)
        /\ row' = IF StillPending(p) THEN [row EXCEPT ![p].payload = req[r].rev] ELSE row
        /\ UNCHANGED <<content, audited, applied, stranded, spent>>

-----------------------------------------------------------------------------
(* approve, once it holds the claim.                                        *)

(* Mutant: a story arc is written blindly, as the other entities are.       *)
TakesAlways(e, p) == content[e].alive

(* The entity service finds the row and, for the update of a storyline      *)
(* entity, finds it as it was when the proposal was filed.                  *)
Takes(e, p) ==
    /\ content[e].alive
    /\ e \in Storyline /\ row[p].action = "update" => content[e] = row[p].base

(* What the approved change makes of entity e.                              *)
Applied(r, e) ==
    LET p == req[r].p
    IN  /\ content' = [content EXCEPT ![e] = [alive |-> row[p].action # "delete",
                                              by |-> p, rev |-> req[r].rev]]
        /\ applied' = [applied EXCEPT ![p] = [done |-> TRUE, entity |-> e, rev |-> req[r].rev]]

(* The entity write.  A failure after it, an audit row that cannot be       *)
(* written, looks the same to approve as one before it.                     *)
Write(r) ==
    LET p == req[r].p
    IN  /\ req[r].pc = "write"
        /\ \E e \in Entity :
             /\ IF row[p].action = "create" THEN content[e] = Unborn
                ELSE e = row[p].entity /\ Takes(e, p)
             /\ Applied(r, e)
        /\ \E pc \in {"finalize"} \cup {s \in {"revert"} : "late_failure" \in Env} : Goto(r, pc)
        /\ UNCHANGED <<row, audited, stranded, spent>>

WriteFails(r) ==
    LET p == req[r].p
    IN  /\ req[r].pc = "write" /\ Goto(r, "revert")
        /\ \/ "write_fails" \in Env
           \/ row[p].action # "create" /\ ~Takes(row[p].entity, p)
        /\ UNCHANGED <<row, content, audited, applied, stranded, spent>>

(* Mutant: a claim is left behind when its write fails.                     *)
RevertedToApproved(p) == row

(* revertToPending.                                                         *)
RevertedToPending(p) ==
    IF row[p].status = "approved" THEN [row EXCEPT ![p].status = "pending"] ELSE row

Revert(r) ==
    LET p == req[r].p
    IN  /\ req[r].pc = "revert" /\ Answer(r)
        /\ \/ row' = RevertedToPending(p) /\ UNCHANGED stranded
           \/ "revert_fails" \in Env /\ stranded' = stranded \cup {p} /\ UNCHANGED row
        /\ UNCHANGED <<content, audited, applied, spent>>

(* Mutant: the amended payload is not written back.                         *)
RecordedAsFiled(r) == row

(* finalizeApproved: the row says what was applied, and to which entity.    *)
Recorded(r) ==
    LET p == req[r].p
    IN  [row EXCEPT ![p].payload = IF req[r].amended THEN req[r].rev ELSE @,
                    ![p].entity = IF @ = None THEN applied[p].entity ELSE @]

Finalize(r) ==
    LET p == req[r].p
    IN  /\ req[r].pc = "finalize" /\ Answer(r)
        /\ \/ /\ row[p].status = "approved"
              /\ row' = Recorded(r) /\ audited' = audited \cup {p}
           \/ /\ row[p].status # "approved" \/ "finalize_fails" \in Env
              /\ UNCHANGED <<row, audited>>
        /\ UNCHANGED <<content, applied, stranded, spent>>

(* The process dies with every call in it.                                  *)
Crash ==
    /\ spent.crashes < MaxCrashes
    /\ spent' = [spent EXCEPT !.crashes = @ + 1]
    /\ req' = [r \in Request |-> IF req[r].pc = "idle" THEN Idle ELSE Done]
    /\ stranded' = stranded \cup
         {req[r].p : r \in {s \in Request : req[s].pc \in {"write", "revert"}}}
    /\ UNCHANGED <<row, content, audited, applied>>

Next ==
    \/ \E p \in Proposal : File(p)
    \/ \E e \in Entity : Edit(e)
    \/ \E r \in Request, p \in Proposal :
         ReadToApprove(r, p) \/ ReadToDecide(r, p) \/ ReadToRevise(r, p)
    \/ \E r \in Request :
         Claim(r) \/ Decide(r) \/ Revise(r) \/ Write(r) \/ WriteFails(r) \/ Revert(r) \/ Finalize(r)
    \/ Crash

Spec == Init /\ [][Next]_vars

-----------------------------------------------------------------------------
(* A proposal is decided where it takes effect: an approval when the entity *)
(* is written, the claim before it being no more than a lock.               *)
Verdict(p) ==
    CASE applied[p].done -> "approved"
      [] ~applied[p].done /\ row[p].status = "approved" -> "open"
      [] ~applied[p].done /\ row[p].status = "pending" -> "open"
      [] OTHER -> row[p].status

Queue == INSTANCE Review WITH verdict <- [p \in Proposal |-> Verdict(p)]

(* The queue keeps its promise however approvals, rejections, withdrawals,  *)
(* revisions, edits, failures and crashes interleave: the entity write of a *)
(* proposal happens at most once, only while nobody has refused it, and a   *)
(* refused one never touches an entity (issue 85).                          *)
ReviewIsKept == Queue!Spec

(* An approved proposal was applied, unless its approver is still at it, or *)
(* its process died or its revert failed in between.                        *)
ApprovalIsNotHollow ==
    \A p \in Proposal :
        row[p].status = "approved" /\ ~applied[p].done =>
            \/ p \in stranded
            \/ \E r \in Request : req[r].p = p /\ req[r].pc \in {"write", "revert"}

(* Once the approval is audited, the row says what was applied and to what: *)
(* no revision and no second approval rewrites it afterwards (issues 124,   *)
(* 681).                                                                    *)
AuditedRowIsTrue ==
    \A p \in audited :
        /\ row[p].status = "approved" /\ applied[p].done
        /\ row[p].payload = applied[p].rev /\ row[p].entity = applied[p].entity

(* An approved update never overwrites an edit of a story arc or beat that  *)
(* its author had not seen, whenever the edit came (issue 1311).            *)
StorylineEditsSurvive ==
    [][\A p \in Proposal :
         applied'[p] # applied[p] /\ row[p].action = "update" /\ row[p].entity \in Storyline =>
             content[row[p].entity] = row[p].base]_vars
=============================================================================
