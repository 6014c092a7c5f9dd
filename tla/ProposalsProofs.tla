--------------------------- MODULE ProposalsProofs ---------------------------
(***************************************************************************)
(* Proofs about Proposals, for any proposals, entities, requests and any   *)
(* number of edits, revisions and crashes: the queue implements Review,    *)
(* and what it records of an approval is true.                             *)
(***************************************************************************)
EXTENDS Proposals, TLAPS

(* An entity write never fails after it landed.                             *)
FailuresComeFirst == "late_failure" \notin Env

(* No revision lands between the read and the claim of an approval.         *)
RevisionsKeepOut == "revise_overlaps" \notin Env

Holding == {"write", "revert", "finalize"}

(* Whoever holds a claim knows how far the approval got.                    *)
ClaimsAreTrue ==
    \A r \in Request :
        /\ req[r].pc \in {"write", "revert"} =>
             row[req[r].p].status = "approved" /\ ~applied[req[r].p].done
        /\ req[r].pc = "finalize" => applied[req[r].p].done

(* A claim has one holder.                                                  *)
ClaimsAreSole ==
    \A r, s \in Request :
        req[r].pc \in Holding /\ req[s].pc \in Holding /\ req[r].p = req[s].p => r = s

AppliedIsApproved == \A p \in Proposal : applied[p].done => row[p].status = "approved"

ClaimInv == ClaimsAreTrue /\ ClaimsAreSole /\ AppliedIsApproved

(* Who reads a payload reads one that a row has.                            *)
ReadsAreFiled ==
    \A r \in Request :
        req[r].pc \notin {"idle", "done"} => row[req[r].p].status # "none"

(* Until the proposal is applied its payload is the one the approver read.  *)
ReadsAreCurrent ==
    \A r \in Request :
        LET p == req[r].p
        IN  /\ req[r].pc = "claim" /\ ~req[r].amended /\ ~applied[p].done =>
                 req[r].rev = row[p].payload
            /\ req[r].pc \in Holding /\ ~req[r].amended => req[r].rev = row[p].payload
            /\ req[r].pc = "finalize" => req[r].rev = applied[p].rev

(* A row links to the entity its proposal is, or will be, applied to.       *)
LinksAreTrue ==
    \A p \in Proposal :
        /\ applied[p].done /\ row[p].entity # None => row[p].entity = applied[p].entity
        /\ applied[p].done => applied[p].entity # None
        /\ ~applied[p].done /\ row[p].action = "create" => row[p].entity = None

RecordInv == ReadsAreFiled /\ ReadsAreCurrent /\ LinksAreTrue /\ AuditedRowIsTrue

IInv == TypeOK /\ ClaimInv

-----------------------------------------------------------------------------
(* What the three ways of reading a proposal have in common.                *)
LEMMA PreludeIs ==
    ASSUME TypeOK, NEW r \in Request, NEW p \in Proposal,
           ReadToApprove(r, p) \/ ReadToDecide(r, p) \/ ReadToRevise(r, p)
    PROVE  \E pc \in {"claim", "reject", "withdraw", "revise"}, rev \in Nat,
              amended \in BOOLEAN :
              /\ Read(r, p, pc, rev, amended)
              /\ pc = "claim" => (amended \/ rev = row[p].payload)
<1>1. row[p].payload \in Nat /\ MaxRevs + 1 \in Nat
  BY BoundsAreNat DEF TypeOK
<1>2. CASE ReadToApprove(r, p)
  <2>1. PICK amended \in BOOLEAN :
          Read(r, p, "claim", IF amended THEN MaxRevs + 1 ELSE row[p].payload, amended)
    BY <1>2 DEF ReadToApprove
  <2>2. (IF amended THEN MaxRevs + 1 ELSE row[p].payload) \in Nat
    BY <1>1
  <2>3. amended \/ (IF amended THEN MaxRevs + 1 ELSE row[p].payload) = row[p].payload
    OBVIOUS
  <2> QED
    BY <2>1, <2>2, <2>3
<1>3. CASE ReadToDecide(r, p)
  <2>1. PICK pc \in {"reject", "withdraw"} : Read(r, p, pc, 0, FALSE)
    BY <1>3 DEF ReadToDecide
  <2>2. 0 \in Nat /\ FALSE \in BOOLEAN /\ pc # "claim"
    BY <2>1
  <2> QED
    BY <2>1, <2>2
<1>4. CASE ReadToRevise(r, p)
  <2>1. Read(r, p, "revise", row[p].payload + 1, FALSE)
    BY <1>4 DEF ReadToRevise
  <2>2. row[p].payload + 1 \in Nat /\ FALSE \in BOOLEAN /\ "revise" # "claim"
    BY <1>1
  <2> QED
    BY <2>1, <2>2
<1> QED
  BY <1>2, <1>3, <1>4

LEMMA ActiveHasProposal ==
    ASSUME TypeOK, NEW r \in Request, req[r].pc \notin {"idle", "done"}
    PROVE  /\ req[r].p \in Proposal /\ req[r] = [req[r] EXCEPT !.pc = req[r].pc]
           /\ req[r] \in [pc : Steps, p : Proposal \cup {None}, rev : Nat, amended : BOOLEAN]
  BY DEF TypeOK

-----------------------------------------------------------------------------
(* Types, action by action.                                                 *)

RowType == [status : Statuses, action : {"create", "update", "delete"},
            entity : Entity \cup {None}, payload : Nat, base : Content]
ReqType == [pc : Steps, p : Proposal \cup {None}, rev : Nat, amended : BOOLEAN]
AppliedType == [done : BOOLEAN, entity : Entity \cup {None}, rev : Nat]

LEMMA PlaceholdersAreTyped ==
    /\ Unborn \in Content /\ NoRow \in RowType /\ NotYet \in AppliedType
    /\ Idle \in ReqType /\ Done \in ReqType
    /\ Done.pc = "done" /\ Idle.pc = "idle"
<1>1. Unborn \in Content
  BY DEF Unborn, Content
<1>2. NoRow \in RowType
  BY <1>1 DEF NoRow, RowType, Statuses
<1>3. NotYet \in AppliedType
  BY DEF NotYet, AppliedType
<1>4. Idle \in ReqType
  BY DEF Idle, ReqType, Steps
<1>5. Done \in ReqType /\ Done.pc = "done" /\ Idle.pc = "idle"
  BY <1>4 DEF Idle, Done, ReqType, Steps
<1> QED
  BY <1>1, <1>2, <1>3, <1>4, <1>5

LEMMA InitTyped == Init => TypeOK
<1> SUFFICES ASSUME Init PROVE TypeOK
  OBVIOUS
<1>1. content \in [Entity -> Content]
  <2>1. [Unborn EXCEPT !.alive = TRUE, !.rev = 1] \in Content
    BY DEF Unborn, Content
  <2> QED
    BY <2>1, PlaceholdersAreTyped DEF Init
<1>2. row \in [Proposal -> RowType] /\ req \in [Request -> ReqType]
      /\ applied \in [Proposal -> AppliedType]
  BY PlaceholdersAreTyped DEF Init
<1>3. /\ \A p \in Proposal : row[p].status = "none"
      /\ \A r \in Request : req[r].pc = "idle"
  BY DEF Init, NoRow, Idle
<1>4. audited \subseteq Proposal /\ stranded \subseteq Proposal
      /\ spent \in [edits : Nat, crashes : Nat]
  BY DEF Init
<1> QED
  BY <1>1, <1>2, <1>3, <1>4 DEF TypeOK, RowType, ReqType, AppliedType

LEMMA FileTyped == ASSUME TypeOK, NEW p \in Proposal, File(p) PROVE TypeOK'
<1>1. ASSUME NEW x \in RowType, row' = [row EXCEPT ![p] = x],
             x.action # "create" => x.entity # None
      PROVE  TypeOK'
  BY <1>1 DEF TypeOK, File, RowType
<1>2. CASE row' = [row EXCEPT ![p] = [NoRow EXCEPT !.status = "pending", !.payload = 1]]
  <2>1. [NoRow EXCEPT !.status = "pending", !.payload = 1] \in RowType
        /\ [NoRow EXCEPT !.status = "pending", !.payload = 1].action = "create"
    BY DEF NoRow, RowType, Statuses, Unborn, Content
  <2> QED
    BY <1>1, <1>2, <2>1
<1>3. ASSUME NEW e \in Entity, NEW action \in {"update", "delete"},
             row' = [row EXCEPT ![p] = [status |-> "pending", action |-> action,
                                        entity |-> e, payload |-> 1, base |-> content[e]]]
      PROVE  TypeOK'
  <2>1. [status |-> "pending", action |-> action, entity |-> e, payload |-> 1,
         base |-> content[e]] \in RowType
    BY DEF TypeOK, RowType, Statuses
  <2> QED
    BY <1>1, <1>3, <2>1, NamesDiffer
<1> QED
  BY <1>2, <1>3 DEF File

LEMMA EditTyped == ASSUME TypeOK, NEW e \in Entity, Edit(e) PROVE TypeOK'
<1>1. PICK alive \in BOOLEAN :
        content' = [content EXCEPT ![e] = [alive |-> alive, by |-> People,
                                           rev |-> spent.edits + 2]]
  BY DEF Edit
<1>2. spent.edits + 2 \in Nat /\ spent' \in [edits : Nat, crashes : Nat]
  BY DEF TypeOK, Edit
<1>3. content' \in [Entity -> Content]
  BY <1>1, <1>2 DEF TypeOK, Content
<1> QED
  BY <1>2, <1>3 DEF TypeOK, Edit

LEMMA PreludeTyped ==
    ASSUME TypeOK, NEW r \in Request, NEW p \in Proposal,
           ReadToApprove(r, p) \/ ReadToDecide(r, p) \/ ReadToRevise(r, p)
    PROVE  TypeOK'
<1>1. PICK pc \in {"claim", "reject", "withdraw", "revise"}, rev \in Nat,
              amended \in BOOLEAN : Read(r, p, pc, rev, amended)
  BY PreludeIs
<1>2. req' = [req EXCEPT ![r] = [pc |-> pc, p |-> p, rev |-> rev, amended |-> amended]]
      /\ UNCHANGED <<row, content, audited, applied, stranded, spent>>
  BY <1>1 DEF Read
<1>3. req' \in [Request -> ReqType]
  BY <1>2 DEF TypeOK, ReqType, Steps
<1>4. \A q \in Request : req'[q].pc \notin {"idle", "done"} => req'[q].p # None
  BY <1>2, NamesDiffer DEF TypeOK
<1> QED
  BY <1>2, <1>3, <1>4 DEF TypeOK, ReqType

(* The types of the requests, however one of them moves on.                 *)
LEMMA MovesTyped ==
    ASSUME TypeOK, NEW r \in Request, req[r].pc \notin {"idle", "done"},
           Answer(r) \/ \E pc \in {"write", "revert", "finalize"} : Goto(r, pc)
    PROVE  /\ req' \in [Request -> ReqType]
           /\ \A q \in Request : req'[q].pc \notin {"idle", "done"} => req'[q].p # None
<1>1. CASE Answer(r)
  <2>1. req' = [req EXCEPT ![r] = Done] /\ Done \in ReqType /\ Done.pc = "done"
    BY <1>1, PlaceholdersAreTyped DEF Answer
  <2>2. req' \in [Request -> ReqType]
    BY <2>1 DEF TypeOK, ReqType
  <2> QED
    BY <2>1, <2>2 DEF TypeOK
<1>2. ASSUME NEW pc \in {"write", "revert", "finalize"}, Goto(r, pc)
      PROVE  /\ req' \in [Request -> ReqType]
             /\ \A q \in Request : req'[q].pc \notin {"idle", "done"} => req'[q].p # None
  <2>1. req' = [req EXCEPT ![r].pc = pc]
    BY <1>2 DEF Goto
  <2>2. req' \in [Request -> ReqType]
    BY <2>1 DEF TypeOK, ReqType, Steps
  <2> QED
    BY <2>1, <2>2 DEF TypeOK
<1> QED
  BY <1>1, <1>2

LEMMA CallTyped ==
    ASSUME TypeOK, NEW r \in Request,
           Claim(r) \/ Decide(r) \/ Revise(r) \/ Write(r) \/ WriteFails(r) \/ Revert(r)
              \/ Finalize(r)
    PROVE  TypeOK'
<1>1. req[r].pc \notin {"idle", "done"}
  BY DEF Claim, Decide, Revise, Write, WriteFails, Revert, Finalize
<1>2. req[r].p \in Proposal
  BY <1>1, ActiveHasProposal
<1>3. /\ req' \in [Request -> ReqType]
      /\ \A q \in Request : req'[q].pc \notin {"idle", "done"} => req'[q].p # None
  <2>1. Answer(r) \/ \E pc \in {"write", "revert", "finalize"} : Goto(r, pc)
    BY DEF Claim, Decide, Revise, Write, WriteFails, Revert, Finalize
  <2> QED
    BY <1>1, <2>1, MovesTyped
<1> DEFINE RowsTyped == /\ row' \in [Proposal -> RowType]
                        /\ \A p \in Proposal : row'[p].status # "none" /\ row'[p].action # "create"
                             => row'[p].entity # None
<1>4. CASE Claim(r) \/ Revert(r) \/ Decide(r)
  <2>1. \/ UNCHANGED row
        \/ \E status \in Statuses \ {"none"} :
             row' = [row EXCEPT ![req[r].p].status = status] /\ row[req[r].p].status # "none"
    BY <1>4 DEF Claim, Revert, Decide, RevertedToPending, StillPending, Statuses
  <2>2. RowsTyped
    <3>1. CASE UNCHANGED row
      BY <3>1 DEF TypeOK, RowType
    <3>2. ASSUME NEW status \in Statuses \ {"none"}, row[req[r].p].status # "none",
                 row' = [row EXCEPT ![req[r].p].status = status]
          PROVE  RowsTyped
      BY <1>2, <3>2 DEF TypeOK, RowType
    <3> QED
      BY <2>1, <3>1, <3>2
  <2>3. UNCHANGED <<content, audited, applied, spent>> /\ stranded' \subseteq Proposal
    BY <1>2, <1>4 DEF Claim, Revert, Decide, TypeOK
  <2> QED
    BY <1>3, <2>2, <2>3 DEF TypeOK, RowType, ReqType
<1>5. CASE Revise(r)
  <2>1. req[r].rev \in Nat
    BY DEF TypeOK
  <2>2. RowsTyped
    BY <1>2, <1>5, <2>1 DEF Revise, TypeOK, RowType
  <2> QED
    BY <1>3, <1>5, <2>2 DEF Revise, TypeOK, RowType, ReqType
<1>6. CASE Write(r)
  <2>1. PICK e \in Entity : Applied(r, e)
    BY <1>6 DEF Write
  <2>2. req[r].rev \in Nat
    BY DEF TypeOK
  <2>3. content' \in [Entity -> Content]
    BY <1>2, <2>1, <2>2 DEF Applied, TypeOK, Content
  <2>4. applied' \in [Proposal -> AppliedType]
    BY <1>2, <2>1, <2>2 DEF Applied, TypeOK, AppliedType
  <2> QED
    BY <1>3, <1>6, <2>3, <2>4 DEF Write, TypeOK, ReqType, AppliedType
<1>7. CASE WriteFails(r)
  BY <1>3, <1>7 DEF WriteFails, TypeOK, ReqType
<1>8. CASE Finalize(r)
  <2>1. RowsTyped
    <3>1. req[r].rev \in Nat /\ applied[req[r].p].entity \in Entity \cup {None}
      BY <1>2 DEF TypeOK
    <3>2. CASE row' = Recorded(r)
      BY <1>2, <3>1, <3>2 DEF Recorded, TypeOK, RowType
    <3>3. CASE UNCHANGED row
      BY <3>3 DEF TypeOK, RowType
    <3> QED
      BY <1>8, <3>2, <3>3 DEF Finalize
  <2>2. audited' \subseteq Proposal
    BY <1>2, <1>8 DEF Finalize, TypeOK
  <2> QED
    BY <1>3, <1>8, <2>1, <2>2 DEF Finalize, TypeOK, RowType, ReqType
<1> QED
  BY <1>4, <1>5, <1>6, <1>7, <1>8

LEMMA CrashTyped == ASSUME TypeOK, Crash PROVE TypeOK'
<1>1. req' \in [Request -> ReqType]
      /\ \A q \in Request : req'[q].pc \in {"idle", "done"}
  BY PlaceholdersAreTyped DEF Crash
<1>2. spent' \in [edits : Nat, crashes : Nat]
  BY DEF Crash, TypeOK
<1>3. stranded' \subseteq Proposal
  BY DEF Crash, TypeOK
<1> QED
  BY <1>1, <1>2, <1>3 DEF Crash, TypeOK, ReqType

LEMMA NextTyped == TypeOK /\ [Next]_vars => TypeOK'
<1> SUFFICES ASSUME TypeOK, [Next]_vars PROVE TypeOK'
  OBVIOUS
<1>1. CASE UNCHANGED vars
  BY <1>1 DEF TypeOK, vars
<1> QED
  BY <1>1, FileTyped, EditTyped, PreludeTyped, CallTyped, CrashTyped DEF Next

-----------------------------------------------------------------------------
(* Claims.                                                                  *)

LEMMA InitClaims == Init => ClaimInv
<1> SUFFICES ASSUME Init PROVE ClaimInv
  OBVIOUS
<1>1. /\ \A r \in Request : req[r].pc = "idle"
      /\ \A p \in Proposal : ~applied[p].done
  BY DEF Init, Idle, NotYet
<1> QED
  BY <1>1 DEF ClaimInv, ClaimsAreTrue, ClaimsAreSole, AppliedIsApproved, Holding

(* No request starts or stops holding anything and no status changes.       *)
LEMMA OutsideKeepsClaims ==
    ASSUME TypeOK, ClaimInv, UNCHANGED applied,
           \A q \in Request : \/ req'[q] = req[q]
                              \/ req'[q].pc \notin Holding,
           \A p \in Proposal : row'[p].status = row[p].status
    PROVE  ClaimInv'
<1>1. ClaimsAreTrue'
  <2> SUFFICES ASSUME NEW q \in Request, req'[q].pc \in Holding
               PROVE  /\ req'[q].pc \in {"write", "revert"} =>
                           row'[req'[q].p].status = "approved" /\ ~applied[req'[q].p].done
                      /\ req'[q].pc = "finalize" => applied[req'[q].p].done
    BY DEF ClaimsAreTrue, Holding
  <2>1. req'[q] = req[q]
    OBVIOUS
  <2>2. req[q].p \in Proposal
    BY <2>1, ActiveHasProposal DEF Holding
  <2> QED
    BY <2>1, <2>2 DEF ClaimInv, ClaimsAreTrue
<1>2. ClaimsAreSole'
  BY DEF ClaimInv, ClaimsAreSole
<1>3. AppliedIsApproved'
  BY DEF ClaimInv, AppliedIsApproved
<1> QED
  BY <1>1, <1>2, <1>3 DEF ClaimInv

LEMMA FileKeepsClaims ==
    ASSUME TypeOK, ClaimInv, NEW p \in Proposal, File(p)
    PROVE  ClaimInv'
<1>1. /\ row[p].status = "none" /\ row'[p].status = "pending"
      /\ \A q \in Proposal \ {p} : row'[q] = row[q]
      /\ UNCHANGED <<req, applied>>
  <2>1. CASE row' = [row EXCEPT ![p] = [NoRow EXCEPT !.status = "pending", !.payload = 1]]
    BY <2>1 DEF File, TypeOK, NoRow
  <2>2. ASSUME NEW e \in Entity, NEW action \in {"update", "delete"},
               row' = [row EXCEPT ![p] = [status |-> "pending", action |-> action,
                                          entity |-> e, payload |-> 1, base |-> content[e]]]
        PROVE  row'[p].status = "pending" /\ \A q \in Proposal \ {p} : row'[q] = row[q]
    BY <2>2 DEF TypeOK
  <2> QED
    BY <2>1, <2>2 DEF File
<1>2. ClaimsAreTrue'
  <2> SUFFICES ASSUME NEW q \in Request, req[q].pc \in Holding
               PROVE  /\ req[q].pc \in {"write", "revert"} =>
                           row'[req[q].p].status = "approved" /\ ~applied[req[q].p].done
                      /\ req[q].pc = "finalize" => applied[req[q].p].done
    BY <1>1 DEF ClaimsAreTrue, Holding
  <2>1. req[q].p \in Proposal
    BY ActiveHasProposal DEF Holding
  <2> QED
    BY <1>1, <2>1 DEF ClaimInv, ClaimsAreTrue
<1>3. ClaimsAreSole' /\ AppliedIsApproved'
  BY <1>1 DEF ClaimInv, ClaimsAreSole, AppliedIsApproved
<1> QED
  BY <1>2, <1>3 DEF ClaimInv

LEMMA ClaimKeepsClaims ==
    ASSUME TypeOK, ClaimInv, NEW r \in Request, Claim(r)
    PROVE  ClaimInv'
<1> DEFINE p == req[r].p
<1>1. p \in Proposal /\ UNCHANGED applied
  BY ActiveHasProposal DEF Claim
<1>2. CASE StillPending(p)
  <2>1. /\ row' = [row EXCEPT ![p].status = "approved"]
        /\ req' = [req EXCEPT ![r].pc = "write"] /\ row[p].status = "pending"
    BY <1>2 DEF Claim, Goto, StillPending
  <2>2. ~applied[p].done
    BY <1>1, <2>1 DEF ClaimInv, AppliedIsApproved
  <2>3. \A q \in Request \ {r} : req[q].pc \in Holding => req[q].p \in Proposal \ {p}
    <3> SUFFICES ASSUME NEW q \in Request \ {r}, req[q].pc \in Holding
                 PROVE  req[q].p \in Proposal \ {p}
      OBVIOUS
    <3>1. req[q].p \in Proposal
      BY ActiveHasProposal DEF Holding
    <3> QED
      BY <2>1, <2>2, <3>1 DEF ClaimInv, ClaimsAreTrue, Holding
  <2>4. req'[r].pc = "write" /\ req'[r].p = p /\ \A q \in Request \ {r} : req'[q] = req[q]
    BY <2>1 DEF TypeOK
  <2>5. row'[p].status = "approved" /\ \A q \in Proposal \ {p} : row'[q] = row[q]
    BY <1>1, <2>1 DEF TypeOK
  <2>6. ClaimsAreTrue'
    BY <1>1, <2>2, <2>3, <2>4, <2>5 DEF ClaimInv, ClaimsAreTrue, Holding
  <2>7. ClaimsAreSole'
    BY <2>3, <2>4 DEF ClaimInv, ClaimsAreSole
  <2>8. AppliedIsApproved'
    BY <1>1, <2>5 DEF ClaimInv, AppliedIsApproved
  <2> QED
    BY <2>6, <2>7, <2>8 DEF ClaimInv
<1>3. CASE ~StillPending(p)
  <2>1. req' = [req EXCEPT ![r] = Done] /\ UNCHANGED row
    BY <1>3 DEF Claim, Answer
  <2>2. \A q \in Request : req'[q] = req[q] \/ req'[q].pc \notin Holding
    BY <2>1, PlaceholdersAreTyped DEF TypeOK, Holding
  <2> QED
    BY <1>1, <2>1, <2>2, OutsideKeepsClaims
<1> QED
  BY <1>2, <1>3

(* r lets go of its claim while the proposal's status changes at most to    *)
(* "pending" (a revert) or from "pending" (a decision, a revision).         *)
LEMMA AnswerKeepsClaims ==
    ASSUME TypeOK, ClaimInv, NEW r \in Request,
           Decide(r) \/ Revise(r) \/ Revert(r) \/ Finalize(r)
    PROVE  ClaimInv'
<1> DEFINE p == req[r].p
<1>1. p \in Proposal /\ UNCHANGED applied /\ Answer(r)
  BY ActiveHasProposal DEF Decide, Revise, Revert, Finalize
<1>2. req'[r].pc = "done" /\ \A q \in Request \ {r} : req'[q] = req[q]
  BY <1>1, PlaceholdersAreTyped DEF TypeOK, Answer
<1>3. \A q \in Proposal \ {p} : row'[q] = row[q]
  BY <1>1 DEF Decide, Revise, Revert, Finalize, RevertedToPending, Recorded, TypeOK
<1>4. CASE Finalize(r) \/ row' = row
  <2>1. row'[p].status = row[p].status
    BY <1>1, <1>4 DEF Finalize, Recorded, TypeOK
  <2> QED
    BY <1>1, <1>2, <1>3, <2>1, OutsideKeepsClaims DEF Holding
<1>5. CASE Revise(r) /\ row' # row
  <2>1. row'[p].status = row[p].status
    BY <1>1, <1>5 DEF Revise, TypeOK
  <2> QED
    BY <1>1, <1>2, <1>3, <2>1, OutsideKeepsClaims DEF Holding
<1>6. CASE Decide(r) /\ row' # row
  <2>1. row[p].status = "pending"
    BY <1>6 DEF Decide, StillPending
  <2>2. ~applied[p].done
    BY <1>1, <2>1 DEF ClaimInv, AppliedIsApproved
  <2>3. \A q \in Request : req[q].pc \in Holding => req[q].p \in Proposal \ {p}
    <3> SUFFICES ASSUME NEW q \in Request, req[q].pc \in Holding
                 PROVE  req[q].p \in Proposal \ {p}
      OBVIOUS
    <3>1. req[q].p \in Proposal
      BY ActiveHasProposal DEF Holding
    <3> QED
      BY <2>1, <2>2, <3>1 DEF ClaimInv, ClaimsAreTrue, Holding
  <2>4. ClaimsAreTrue'
    BY <1>1, <1>2, <1>3, <2>3 DEF ClaimInv, ClaimsAreTrue, Holding
  <2>5. ClaimsAreSole'
    BY <1>2 DEF ClaimInv, ClaimsAreSole, Holding
  <2>6. AppliedIsApproved'
    BY <1>1, <1>3, <2>2 DEF ClaimInv, AppliedIsApproved
  <2> QED
    BY <2>4, <2>5, <2>6 DEF ClaimInv
<1>7. CASE Revert(r) /\ row' # row
  <2>1. req[r].pc = "revert" /\ ~applied[p].done
    BY <1>7 DEF Revert, ClaimInv, ClaimsAreTrue
  <2>2. \A q \in Request \ {r} : req[q].pc \in Holding => req[q].p \in Proposal \ {p}
    <3> SUFFICES ASSUME NEW q \in Request \ {r}, req[q].pc \in Holding
                 PROVE  req[q].p \in Proposal \ {p}
      OBVIOUS
    <3>1. req[q].p \in Proposal
      BY ActiveHasProposal DEF Holding
    <3> QED
      BY <2>1, <3>1 DEF ClaimInv, ClaimsAreSole, Holding
  <2>3. ClaimsAreTrue'
    BY <1>1, <1>2, <1>3, <2>2 DEF ClaimInv, ClaimsAreTrue, Holding
  <2>4. ClaimsAreSole'
    BY <1>2 DEF ClaimInv, ClaimsAreSole, Holding
  <2>5. AppliedIsApproved'
    BY <1>1, <1>3, <2>1 DEF ClaimInv, AppliedIsApproved
  <2> QED
    BY <2>3, <2>4, <2>5 DEF ClaimInv
<1> QED
  BY <1>4, <1>5, <1>6, <1>7

LEMMA WriteKeepsClaims ==
    ASSUME FailuresComeFirst, TypeOK, ClaimInv, NEW r \in Request,
           Write(r) \/ WriteFails(r)
    PROVE  ClaimInv'
<1> DEFINE p == req[r].p
<1>1. /\ p \in Proposal /\ UNCHANGED row /\ req[r].pc = "write"
      /\ row[p].status = "approved" /\ ~applied[p].done
  BY ActiveHasProposal DEF Write, WriteFails, ClaimInv, ClaimsAreTrue
<1>2. \A q \in Request \ {r} : req[q].pc \in Holding => req[q].p \in Proposal \ {p}
  <2> SUFFICES ASSUME NEW q \in Request \ {r}, req[q].pc \in Holding
               PROVE  req[q].p \in Proposal \ {p}
    OBVIOUS
  <2>1. req[q].p \in Proposal
    BY ActiveHasProposal DEF Holding
  <2> QED
    BY <1>1, <2>1 DEF ClaimInv, ClaimsAreSole, Holding
<1>3. CASE Write(r)
  <2>1. req' = [req EXCEPT ![r].pc = "finalize"]
    BY <1>3 DEF Write, Goto, FailuresComeFirst
  <2>2. applied'[p].done /\ \A q \in Proposal \ {p} : applied'[q] = applied[q]
    BY <1>1, <1>3 DEF Write, Applied, TypeOK
  <2>3. /\ req'[r].pc = "finalize" /\ req'[r].p = p
        /\ \A q \in Request \ {r} : req'[q] = req[q]
    BY <2>1 DEF TypeOK
  <2>4. ClaimsAreTrue'
    BY <1>1, <1>2, <2>2, <2>3 DEF ClaimInv, ClaimsAreTrue, Holding
  <2>5. ClaimsAreSole'
    BY <1>2, <2>3 DEF ClaimInv, ClaimsAreSole
  <2>6. AppliedIsApproved'
    BY <1>1, <2>2 DEF ClaimInv, AppliedIsApproved
  <2> QED
    BY <2>4, <2>5, <2>6 DEF ClaimInv
<1>4. CASE WriteFails(r)
  <2>1. req' = [req EXCEPT ![r].pc = "revert"] /\ UNCHANGED applied
    BY <1>4 DEF WriteFails, Goto
  <2>2. /\ req'[r].pc = "revert" /\ req'[r].p = p
        /\ \A q \in Request \ {r} : req'[q] = req[q]
    BY <2>1 DEF TypeOK
  <2>3. ClaimsAreTrue'
    BY <1>1, <2>1, <2>2 DEF ClaimInv, ClaimsAreTrue
  <2>4. ClaimsAreSole'
    BY <1>2, <2>2 DEF ClaimInv, ClaimsAreSole
  <2>5. AppliedIsApproved'
    BY <1>1, <2>1 DEF ClaimInv, AppliedIsApproved
  <2> QED
    BY <2>3, <2>4, <2>5 DEF ClaimInv
<1> QED
  BY <1>3, <1>4

(* The steps that leave status, claims and what was applied alone.          *)
LEMMA OthersKeepClaims ==
    ASSUME TypeOK, ClaimInv,
           \/ \E e \in Entity : Edit(e)
           \/ \E r \in Request, p \in Proposal :
                ReadToApprove(r, p) \/ ReadToDecide(r, p) \/ ReadToRevise(r, p)
           \/ Crash \/ UNCHANGED vars
    PROVE  ClaimInv'
<1>1. CASE UNCHANGED <<row, req, applied>>
  BY <1>1, OutsideKeepsClaims
<1>2. ASSUME NEW r \in Request, NEW p \in Proposal,
             ReadToApprove(r, p) \/ ReadToDecide(r, p) \/ ReadToRevise(r, p)
      PROVE  ClaimInv'
  <2>1. PICK pc \in {"claim", "reject", "withdraw", "revise"}, rev \in Nat,
                amended \in BOOLEAN : Read(r, p, pc, rev, amended)
    BY <1>2, PreludeIs
  <2>2. /\ req'[r].pc \notin Holding /\ \A q \in Request \ {r} : req'[q] = req[q]
        /\ UNCHANGED <<row, applied>>
    BY <2>1 DEF Read, TypeOK, Holding
  <2> QED
    BY <2>2, OutsideKeepsClaims
<1>3. CASE Crash
  <2>1. \A q \in Request : req'[q].pc \notin Holding
    BY <1>3, PlaceholdersAreTyped DEF Crash, Holding
  <2> QED
    BY <1>3, <2>1, OutsideKeepsClaims DEF Crash
<1> QED
  BY <1>1, <1>2, <1>3 DEF Edit, vars

LEMMA NextClaims ==
    ASSUME FailuresComeFirst, IInv, [Next]_vars
    PROVE  IInv'
<1>1. TypeOK'
  BY NextTyped DEF IInv
<1>2. ClaimInv'
  BY FileKeepsClaims, ClaimKeepsClaims, AnswerKeepsClaims, WriteKeepsClaims,
     OthersKeepClaims DEF Next, IInv
<1> QED
  BY <1>1, <1>2 DEF IInv

-----------------------------------------------------------------------------
(* The abstract review.                                                     *)

LEMMA VerdictIs ==
    ASSUME TypeOK, AppliedIsApproved, NEW p \in Proposal
    PROVE  Verdict(p) = IF applied[p].done THEN "approved"
                        ELSE IF row[p].status \in {"pending", "approved"} THEN "open"
                        ELSE row[p].status
  BY DEF Verdict

LEMMA InitIsReview == Init => Queue!Init
<1> SUFFICES ASSUME Init PROVE Queue!Init
  OBVIOUS
<1>1. \A p \in Proposal : Verdict(p) = "none"
  BY DEF Init, NoRow, NotYet, Verdict
<1>2. TypeOK
  BY InitTyped
<1>3. \A e \in Entity : content[e].by = People
  <2>1. /\ Unborn.by = People /\ [Unborn EXCEPT !.alive = TRUE, !.rev = 1].by = People
    BY DEF Unborn
  <2> QED
    BY <2>1 DEF Init
<1> QED
  BY <1>1, <1>2, <1>3, NamesDiffer DEF Queue!Init, TypeOK

(* Status, and whether it was applied, decide the verdict.                  *)
LEMMA SameVerdict ==
    ASSUME TypeOK, AppliedIsApproved, TypeOK', AppliedIsApproved', NEW p \in Proposal,
           applied'[p].done = applied[p].done,
           \/ row'[p].status = row[p].status
           \/ row[p].status \in {"pending", "approved"}
                /\ row'[p].status \in {"pending", "approved"}
    PROVE  Verdict(p)' = Verdict(p)
<1>1. Verdict(p)' = IF applied'[p].done THEN "approved"
                    ELSE IF row'[p].status \in {"pending", "approved"} THEN "open"
                    ELSE row'[p].status
  BY DEF Verdict, AppliedIsApproved
<1> QED
  BY <1>1, VerdictIs

LEMMA StepIsReview ==
    ASSUME FailuresComeFirst, IInv, [Next]_vars
    PROVE  [Queue!Next]_<<[p \in Proposal |-> Verdict(p)], content>>
<1> DEFINE verdict == [p \in Proposal |-> Verdict(p)]
<1>1. IInv'
  BY NextClaims
<1>2. TypeOK /\ TypeOK' /\ AppliedIsApproved /\ AppliedIsApproved' /\ ClaimsAreTrue
  BY <1>1 DEF IInv, ClaimInv
<1>3. ASSUME UNCHANGED content, UNCHANGED applied,
             \A p \in Proposal : \/ row'[p].status = row[p].status
                                 \/ row[p].status \in {"pending", "approved"}
                                      /\ row'[p].status \in {"pending", "approved"}
      PROVE  UNCHANGED <<verdict, content>>
  <2>1. \A p \in Proposal : Verdict(p)' = Verdict(p)
    BY <1>2, <1>3, SameVerdict
  <2> QED
    BY <1>3, <2>1
<1>4. ASSUME NEW p \in Proposal, File(p)
      PROVE  Queue!File(p)
  <2>1. UNCHANGED <<content, applied>> /\ row[p].status = "none"
    BY <1>4 DEF File
  <2>2. row'[p].status = "pending" /\ \A q \in Proposal \ {p} : row'[q] = row[q]
    <3>1. CASE row' = [row EXCEPT ![p] = [NoRow EXCEPT !.status = "pending", !.payload = 1]]
      BY <1>2, <3>1 DEF TypeOK, NoRow
    <3>2. ASSUME NEW e \in Entity, NEW action \in {"update", "delete"},
                 row' = [row EXCEPT ![p] = [status |-> "pending", action |-> action,
                                            entity |-> e, payload |-> 1,
                                            base |-> content[e]]]
          PROVE  row'[p].status = "pending" /\ \A q \in Proposal \ {p} : row'[q] = row[q]
      BY <1>2, <3>2 DEF TypeOK
    <3> QED
      BY <1>4, <3>1, <3>2 DEF File
  <2>3. Verdict(p) = "none" /\ Verdict(p)' = "open"
    <3>1. ~applied[p].done
      BY <1>2, <2>1 DEF AppliedIsApproved
    <3> QED
      BY <2>1, <2>2, <3>1 DEF Verdict
  <2>4. \A q \in Proposal \ {p} : Verdict(q)' = Verdict(q)
    BY <2>1, <2>2, <1>2, SameVerdict
  <2>5. verdict' = [verdict EXCEPT ![p] = "open"]
    BY <2>3, <2>4
  <2> QED
    BY <2>1, <2>3, <2>5 DEF Queue!File
<1>5. ASSUME NEW e \in Entity, Edit(e)
      PROVE  Queue!Edit
  <2>1. PICK x \in Content : x.by = People /\ content' = [content EXCEPT ![e] = x]
    <3>1. PICK alive \in BOOLEAN :
            content' = [content EXCEPT ![e] = [alive |-> alive, by |-> People,
                                               rev |-> spent.edits + 2]]
      BY <1>5 DEF Edit
    <3>2. spent.edits + 2 \in Nat
      BY <1>2 DEF TypeOK
    <3>3. [alive |-> alive, by |-> People, rev |-> spent.edits + 2] \in Content
      BY <3>2 DEF Content
    <3> QED
      BY <3>1, <3>3
  <2>2. content'[e] = x
    BY <1>2, <2>1 DEF TypeOK
  <2>3. UNCHANGED verdict
    <3>1. \A p \in Proposal : Verdict(p)' = Verdict(p)
      BY <1>5 DEF Edit, Verdict
    <3> QED
      BY <3>1
  <2> QED
    BY <2>1, <2>2, <2>3 DEF Queue!Edit, Queue!Written
<1>6. ASSUME NEW r \in Request, NEW p \in Proposal,
             ReadToApprove(r, p) \/ ReadToDecide(r, p) \/ ReadToRevise(r, p)
      PROVE  UNCHANGED <<verdict, content>>
  BY <1>3, <1>6 DEF ReadToApprove, ReadToDecide, ReadToRevise, Read
<1>7. ASSUME NEW r \in Request, Claim(r) \/ Revise(r) \/ Revert(r) \/ Finalize(r) \/ WriteFails(r)
      PROVE  UNCHANGED <<verdict, content>>
  <2>1. req[r].p \in Proposal /\ UNCHANGED <<content, applied>>
    BY <1>2, <1>7, ActiveHasProposal DEF Claim, Revise, Revert, Finalize, WriteFails
  <2>2. \A p \in Proposal : \/ row'[p].status = row[p].status
                            \/ row[p].status \in {"pending", "approved"}
                                 /\ row'[p].status \in {"pending", "approved"}
    BY <1>2, <1>7, <2>1 DEF Claim, Revise, Revert, Finalize, WriteFails, StillPending,
       RevertedToPending, Recorded, TypeOK
  <2> QED
    BY <1>3, <2>1, <2>2
<1>8. ASSUME NEW r \in Request, Decide(r)
      PROVE  UNCHANGED <<verdict, content>> \/ \E p \in Proposal : Queue!Refuse(p)
  <2>0. PICK p \in Proposal : p = req[r].p
    BY <1>2, <1>8, ActiveHasProposal DEF Decide
  <2>1. p \in Proposal /\ UNCHANGED <<content, applied>>
    BY <1>8 DEF Decide
  <2>2. CASE ~StillPending(p)
    BY <1>3, <1>8, <2>0, <2>1, <2>2 DEF Decide
  <2>3. CASE StillPending(p)
    <3>1. PICK v \in {"rejected", "withdrawn"} : row' = [row EXCEPT ![p].status = v]
      BY <1>8, <2>0, <2>3 DEF Decide
    <3>2. row[p].status = "pending" /\ row'[p].status = v
          /\ \A q \in Proposal \ {p} : row'[q] = row[q]
      BY <1>2, <2>1, <2>3, <3>1 DEF StillPending, TypeOK
    <3>3. ~applied[p].done
      BY <1>2, <2>1, <3>2 DEF AppliedIsApproved
    <3>4. Verdict(p) = "open" /\ Verdict(p)' = v
      BY <2>1, <3>2, <3>3 DEF Verdict
    <3>5. \A q \in Proposal \ {p} : Verdict(q)' = Verdict(q)
      BY <1>2, <2>1, <3>2, SameVerdict
    <3>6. verdict' = [verdict EXCEPT ![p] = v]
      BY <3>4, <3>5
    <3>7. Queue!Refuse(p)
      BY <2>1, <3>4, <3>6 DEF Queue!Refuse
    <3> QED
      BY <2>1, <3>7
  <2> QED
    BY <2>2, <2>3
<1>9. ASSUME NEW r \in Request, Write(r)
      PROVE  \E p \in Proposal : Queue!Approve(p)
  <2>0. PICK p \in Proposal : p = req[r].p
    BY <1>2, <1>9, ActiveHasProposal DEF Write
  <2>1. p \in Proposal /\ UNCHANGED row
    BY <1>9 DEF Write
  <2>2. row[p].status = "approved" /\ ~applied[p].done
    BY <1>2, <1>9, <2>0 DEF Write, ClaimsAreTrue
  <2>3. PICK e \in Entity : Applied(r, e)
    BY <1>9 DEF Write
  <2>4. applied'[p].done /\ \A q \in Proposal \ {p} : applied'[q] = applied[q]
    BY <1>2, <2>0, <2>1, <2>3 DEF Applied, TypeOK
  <2>5. content'[e] \in Content /\ content'[e].by = p
        /\ content' = [content EXCEPT ![e] = content'[e]]
    <3> DEFINE x == [alive |-> row[p].action # "delete", by |-> p, rev |-> req[r].rev]
    <3>1. content' = [content EXCEPT ![e] = x]
      BY <2>0, <2>3 DEF Applied
    <3>2. req[r].rev \in Nat
      BY <1>2 DEF TypeOK
    <3>3. x \in Content
      BY <2>1, <3>2 DEF Content
    <3> HIDE DEF x
    <3>4. content'[e] = x
      BY <1>2, <3>1 DEF TypeOK
    <3>5. x.by = p
      BY DEF x
    <3> QED
      BY <3>1, <3>3, <3>4, <3>5
  <2>6. Verdict(p) = "open" /\ Verdict(p)' = "approved"
    BY <2>2, <2>4 DEF Verdict
  <2>7. \A q \in Proposal \ {p} : Verdict(q)' = Verdict(q)
    BY <1>2, <2>1, <2>4, SameVerdict
  <2>8. verdict' = [verdict EXCEPT ![p] = "approved"]
    BY <2>6, <2>7
  <2>9. Queue!Written(p)
    BY <2>5 DEF Queue!Written
  <2> QED
    BY <2>1, <2>6, <2>8, <2>9 DEF Queue!Approve
<1>10. ASSUME Crash \/ UNCHANGED vars
       PROVE  UNCHANGED <<verdict, content>>
  BY <1>3, <1>10 DEF Crash, vars
<1> HIDE DEF verdict
<1>11. ASSUME Next
       PROVE  Queue!Next \/ UNCHANGED <<verdict, content>>
  <2>1. ASSUME NEW r \in Request,
               Claim(r) \/ Decide(r) \/ Revise(r) \/ Write(r) \/ WriteFails(r)
                  \/ Revert(r) \/ Finalize(r)
        PROVE  Queue!Next \/ UNCHANGED <<verdict, content>>
    BY <2>1, <1>7, <1>8, <1>9 DEF Queue!Next
  <2>2. ASSUME NEW p \in Proposal, File(p) PROVE Queue!Next
    BY <2>2, <1>4 DEF Queue!Next
  <2>3. ASSUME NEW e \in Entity, Edit(e) PROVE Queue!Next
    BY <2>3, <1>5 DEF Queue!Next
  <2> QED
    BY <1>6, <1>10, <1>11, <2>1, <2>2, <2>3 DEF Next
<1>12. Queue!Next \/ UNCHANGED <<verdict, content>>
  BY <1>10, <1>11
<1> QED
  BY <1>12 DEF verdict

-----------------------------------------------------------------------------
(* What the rows record.                                                    *)

LEMMA InitRecords == Init => RecordInv
<1> SUFFICES ASSUME Init PROVE RecordInv
  OBVIOUS
<1>1. /\ \A r \in Request : req[r].pc = "idle"
      /\ \A p \in Proposal : ~applied[p].done /\ row[p].entity = None
      /\ audited = {}
  BY DEF Init, Idle, NotYet, NoRow
<1> QED
  BY <1>1 DEF RecordInv, ReadsAreFiled, ReadsAreCurrent, LinksAreTrue, AuditedRowIsTrue, Holding

(* Only the row of p moved, no request reads it, and it was not applied.    *)
LEMMA FileKeepsRecords ==
    ASSUME IInv, RecordInv, NEW p \in Proposal, File(p)
    PROVE  RecordInv'
<1>1. /\ row[p].status = "none" /\ row'[p].status = "pending"
      /\ row'[p].action = "create" => row'[p].entity = None
      /\ \A q \in Proposal \ {p} : row'[q] = row[q]
      /\ UNCHANGED <<req, applied, audited>>
  <2>1. CASE row' = [row EXCEPT ![p] = [NoRow EXCEPT !.status = "pending", !.payload = 1]]
    <3>1. [NoRow EXCEPT !.status = "pending", !.payload = 1].entity = None
          /\ [NoRow EXCEPT !.status = "pending", !.payload = 1].status = "pending"
      BY DEF NoRow
    <3> QED
      BY <2>1, <3>1 DEF File, IInv, TypeOK
  <2>2. ASSUME NEW e \in Entity, NEW action \in {"update", "delete"},
               row' = [row EXCEPT ![p] = [status |-> "pending", action |-> action,
                                          entity |-> e, payload |-> 1, base |-> content[e]]]
        PROVE  /\ row'[p].status = "pending" /\ row'[p].action # "create"
               /\ \A q \in Proposal \ {p} : row'[q] = row[q]
    BY <2>2 DEF IInv, TypeOK
  <2> QED
    BY <2>1, <2>2 DEF File
<1>2. ~applied[p].done
  BY <1>1 DEF IInv, ClaimInv, AppliedIsApproved
<1>3. \A r \in Request : req[r].pc \notin {"idle", "done"} => req[r].p \in Proposal \ {p}
  <2> SUFFICES ASSUME NEW r \in Request, req[r].pc \notin {"idle", "done"}
               PROVE  req[r].p \in Proposal \ {p}
    OBVIOUS
  <2> QED
    BY <1>1, ActiveHasProposal DEF IInv, RecordInv, ReadsAreFiled
<1>4. ReadsAreFiled' /\ ReadsAreCurrent'
  BY <1>1, <1>3 DEF RecordInv, ReadsAreFiled, ReadsAreCurrent, Holding
<1>5. LinksAreTrue'
  BY <1>1, <1>2 DEF RecordInv, LinksAreTrue
<1>6. AuditedRowIsTrue'
  BY <1>1, <1>2 DEF RecordInv, AuditedRowIsTrue, IInv, TypeOK
<1> QED
  BY <1>4, <1>5, <1>6 DEF RecordInv

LEMMA ReadKeepsRecords ==
    ASSUME IInv, RecordInv, NEW r \in Request, NEW p \in Proposal,
           ReadToApprove(r, p) \/ ReadToDecide(r, p) \/ ReadToRevise(r, p)
    PROVE  RecordInv'
<1>1. PICK pc \in {"claim", "reject", "withdraw", "revise"}, rev \in Nat,
              amended \in BOOLEAN :
         /\ Read(r, p, pc, rev, amended)
         /\ pc = "claim" => (amended \/ rev = row[p].payload)
  BY PreludeIs DEF IInv
<1>2. /\ req'[r] = [pc |-> pc, p |-> p, rev |-> rev, amended |-> amended]
      /\ \A q \in Request \ {r} : req'[q] = req[q]
      /\ UNCHANGED <<row, applied, audited>> /\ row[p].status = "pending"
  BY <1>1 DEF Read, IInv, TypeOK
<1>3. ReadsAreFiled' /\ ReadsAreCurrent'
  BY <1>1, <1>2 DEF RecordInv, ReadsAreFiled, ReadsAreCurrent, Holding
<1>4. LinksAreTrue' /\ AuditedRowIsTrue'
  BY <1>2 DEF RecordInv, LinksAreTrue, AuditedRowIsTrue
<1> QED
  BY <1>3, <1>4 DEF RecordInv

(* What a request that answers, or only moves on, leaves of the records     *)
(* when payloads, links and what was applied stay.                          *)
LEMMA StatusKeepsRecords ==
    ASSUME IInv, RecordInv, UNCHANGED <<applied, audited>>,
           \A q \in Request : \/ req'[q] = req[q]
                              \/ req'[q].pc \in {"idle", "done"}
                              \/ /\ req[q].pc \in {"claim", "write"}
                                 /\ ~applied[req[q].p].done
                                 /\ req'[q].pc \in {"write", "revert"}
                                 /\ req'[q].p = req[q].p /\ req'[q].rev = req[q].rev
                                 /\ req'[q].amended = req[q].amended,
           \A p \in Proposal :
             /\ row'[p].payload = row[p].payload /\ row'[p].entity = row[p].entity
             /\ row'[p].action = row[p].action
             /\ row[p].status # "none" => row'[p].status # "none"
             /\ applied[p].done => row'[p].status = row[p].status
    PROVE  RecordInv'
<1>1. ASSUME NEW q \in Request, req'[q].pc \notin {"idle", "done"}
      PROVE  /\ req[q].pc \notin {"idle", "done"} /\ req[q].p \in Proposal
             /\ req'[q].p = req[q].p /\ req'[q].rev = req[q].rev
             /\ req'[q].amended = req[q].amended
             /\ req'[q].pc = "claim" => req[q].pc = "claim"
             /\ req'[q].pc = "finalize" => req[q].pc = "finalize"
             /\ req'[q].pc \in Holding => \/ req[q].pc \in Holding
                                          \/ req[q].pc = "claim" /\ ~applied[req[q].p].done
  <2>1. req[q].pc \notin {"idle", "done"}
    BY <1>1
  <2>2. req[q].p \in Proposal
    BY <2>1, ActiveHasProposal DEF IInv
  <2> QED
    BY <1>1, <2>1, <2>2 DEF Holding
<1>2. ReadsAreFiled'
  BY <1>1 DEF RecordInv, ReadsAreFiled
<1>3. ReadsAreCurrent'
  <2> SUFFICES ASSUME NEW q \in Request, req'[q].pc \notin {"idle", "done"}
               PROVE  /\ req'[q].pc = "claim" /\ ~req'[q].amended
                           /\ ~applied'[req'[q].p].done => req'[q].rev = row'[req'[q].p].payload
                      /\ req'[q].pc \in Holding /\ ~req'[q].amended =>
                           req'[q].rev = row'[req'[q].p].payload
                      /\ req'[q].pc = "finalize" => req'[q].rev = applied'[req'[q].p].rev
    BY DEF ReadsAreCurrent, Holding
  <2> QED
    BY <1>1 DEF RecordInv, ReadsAreCurrent
<1>4. LinksAreTrue'
  BY DEF RecordInv, LinksAreTrue
<1>5. AuditedRowIsTrue'
  BY DEF RecordInv, AuditedRowIsTrue, IInv, TypeOK
<1> QED
  BY <1>2, <1>3, <1>4, <1>5 DEF RecordInv

LEMMA DecisionKeepsRecords ==
    ASSUME IInv, RecordInv, NEW r \in Request,
           Claim(r) \/ Decide(r) \/ WriteFails(r) \/ Revert(r)
    PROVE  RecordInv'
<1>0. PICK p \in Proposal : p = req[r].p
  BY ActiveHasProposal DEF IInv, Claim, Decide, WriteFails, Revert
<1>1. UNCHANGED <<applied, audited>> /\ TypeOK
  BY DEF Claim, Decide, WriteFails, Revert, IInv
<1>2. /\ \A q \in Proposal : /\ row'[q].payload = row[q].payload
                             /\ row'[q].entity = row[q].entity
                             /\ row'[q].action = row[q].action
      /\ \A q \in Proposal \ {p} : row'[q] = row[q]
  <2>1. row' = row \/ \E status \in Statuses : row' = [row EXCEPT ![p].status = status]
    BY <1>0 DEF Claim, Decide, WriteFails, Revert, RevertedToPending, Statuses
  <2>2. ASSUME NEW status \in Statuses, row' = [row EXCEPT ![p].status = status]
        PROVE  /\ \A q \in Proposal : /\ row'[q].payload = row[q].payload
                                       /\ row'[q].entity = row[q].entity
                                       /\ row'[q].action = row[q].action
               /\ \A q \in Proposal \ {p} : row'[q] = row[q]
    BY <1>1, <2>2 DEF TypeOK
  <2> QED
    BY <2>1, <2>2
<1>3. /\ row[p].status # "none" => row'[p].status # "none"
      /\ applied[p].done => row'[p].status = row[p].status
  <2>1. CASE row' = row
    BY <2>1
  <2>2. CASE Revert(r) /\ row' # row
    <3>1. ~applied[p].done
      BY <1>0, <2>2 DEF Revert, IInv, ClaimInv, ClaimsAreTrue
    <3> QED
      BY <1>0, <1>1, <2>2, <3>1 DEF Revert, RevertedToPending, TypeOK
  <2>3. CASE (Claim(r) \/ Decide(r)) /\ row' # row
    <3>1. row[p].status = "pending"
      BY <1>0, <2>3 DEF Claim, Decide, StillPending
    <3>2. ~applied[p].done
      BY <3>1 DEF IInv, ClaimInv, AppliedIsApproved
    <3> QED
      BY <1>0, <1>1, <2>3, <3>1, <3>2 DEF Claim, Decide, TypeOK
  <2> QED
    BY <2>1, <2>2, <2>3 DEF WriteFails
<1>4. \A q \in Request \ {r} : req'[q] = req[q]
  BY <1>1 DEF Claim, Decide, WriteFails, Revert, Answer, Goto, TypeOK
<1>5. \/ req'[r].pc = "done"
      \/ /\ req[r].pc \in {"claim", "write"} /\ ~applied[p].done
         /\ req'[r].pc \in {"write", "revert"} /\ req'[r].p = req[r].p
         /\ req'[r].rev = req[r].rev /\ req'[r].amended = req[r].amended
  <2>1. CASE Answer(r)
    BY <1>1, <2>1, PlaceholdersAreTyped DEF Answer, TypeOK
  <2>2. CASE WriteFails(r)
    <3>1. ~applied[p].done /\ req[r].pc = "write"
      BY <1>0, <2>2 DEF WriteFails, IInv, ClaimInv, ClaimsAreTrue
    <3> QED
      BY <1>1, <2>2, <3>1 DEF WriteFails, Goto, TypeOK
  <2>3. CASE Claim(r) /\ StillPending(p)
    <3>1. ~applied[p].done /\ req[r].pc = "claim"
      BY <2>3 DEF Claim, StillPending, IInv, ClaimInv, AppliedIsApproved
    <3> QED
      BY <1>0, <1>1, <2>3, <3>1 DEF Claim, Goto, TypeOK
  <2> QED
    BY <1>0, <2>1, <2>2, <2>3 DEF Claim, Decide, Revert
<1> QED
  BY <1>0, <1>1, <1>2, <1>3, <1>4, <1>5, StatusKeepsRecords

LEMMA ReviseKeepsRecords ==
    ASSUME RevisionsKeepOut, IInv, RecordInv, NEW r \in Request, Revise(r)
    PROVE  RecordInv'
<1>0. PICK p \in Proposal : p = req[r].p
  BY ActiveHasProposal DEF IInv, Revise
<1>1. UNCHANGED <<applied, audited>> /\ TypeOK
  BY DEF Revise, IInv
<1>2. req'[r].pc = "done" /\ \A q \in Request \ {r} : req'[q] = req[q]
  BY <1>1, PlaceholdersAreTyped DEF Revise, Answer, TypeOK
<1>3. CASE ~StillPending(p)
  BY <1>0, <1>1, <1>2, <1>3, StatusKeepsRecords DEF Revise
<1>4. CASE StillPending(p)
  <2>1. row[p].status = "pending" /\ ~applied[p].done
    BY <1>4 DEF StillPending, IInv, ClaimInv, AppliedIsApproved
  <2>2. /\ row'[p].status = "pending" /\ row'[p].entity = row[p].entity
        /\ row'[p].action = row[p].action /\ \A q \in Proposal \ {p} : row'[q] = row[q]
    BY <1>0, <1>1, <1>4, <2>1 DEF Revise, TypeOK
  <2>3. \A q \in Request \ {r} :
          req[q].pc = "claim" \/ req[q].pc \in Holding => req[q].p \in Proposal \ {p}
    <3> SUFFICES ASSUME NEW q \in Request \ {r}, req[q].pc = "claim" \/ req[q].pc \in Holding
                 PROVE  req[q].p \in Proposal \ {p}
      OBVIOUS
    <3>1. req[q].p \in Proposal
      BY ActiveHasProposal DEF Holding, IInv
    <3>2. CASE req[q].pc = "claim"
      BY <1>0, <3>1, <3>2 DEF Revise, BeingApproved, RevisionsKeepOut
    <3>3. CASE req[q].pc \in Holding
      BY <2>1, <3>1, <3>3 DEF IInv, ClaimInv, ClaimsAreTrue, Holding
    <3> QED
      BY <3>2, <3>3
  <2>4. ReadsAreFiled'
    <3>1. \A q \in Request : req[q].pc \notin {"idle", "done"} => req[q].p \in Proposal
      BY <1>1, ActiveHasProposal
    <3> QED
      BY <1>2, <2>2, <3>1 DEF RecordInv, ReadsAreFiled
  <2>5. ReadsAreCurrent'
    BY <1>1, <1>2, <2>2, <2>3 DEF RecordInv, ReadsAreCurrent, Holding
  <2>6. LinksAreTrue'
    BY <1>1, <2>1, <2>2 DEF RecordInv, LinksAreTrue
  <2>7. AuditedRowIsTrue'
    <3>1. audited \subseteq Proposal \ {p}
      BY <1>1, <2>1 DEF RecordInv, AuditedRowIsTrue, TypeOK
    <3> QED
      BY <1>1, <2>2, <3>1 DEF RecordInv, AuditedRowIsTrue
  <2> QED
    BY <2>4, <2>5, <2>6, <2>7 DEF RecordInv
<1> QED
  BY <1>3, <1>4

LEMMA WriteKeepsRecords ==
    ASSUME FailuresComeFirst, IInv, RecordInv, NEW r \in Request, Write(r)
    PROVE  RecordInv'
<1>0. PICK p \in Proposal : p = req[r].p
  BY ActiveHasProposal DEF IInv, Write
<1>1. UNCHANGED <<row, audited>> /\ TypeOK /\ ~applied[p].done
      /\ row[p].status = "approved"
  BY <1>0 DEF Write, IInv, ClaimInv, ClaimsAreTrue
<1>2. PICK e \in Entity :
        /\ row[p].action # "create" => e = row[p].entity
        /\ Applied(r, e)
  BY <1>0 DEF Write
<1>3. /\ applied'[p] = [done |-> TRUE, entity |-> e, rev |-> req[r].rev]
      /\ \A q \in Proposal \ {p} : applied'[q] = applied[q]
  BY <1>0, <1>1, <1>2 DEF Applied, TypeOK
<1>4. /\ req'[r].pc = "finalize" /\ req[r].pc = "write" /\ req'[r].p = p
      /\ req'[r].rev = req[r].rev /\ req'[r].amended = req[r].amended
      /\ \A q \in Request \ {r} : req'[q] = req[q]
  BY <1>0, <1>1 DEF Write, Goto, FailuresComeFirst, TypeOK
<1>5. \A q \in Request \ {r} : req[q].pc \in Holding => req[q].p # p
  BY <1>0, <1>4 DEF IInv, ClaimInv, ClaimsAreSole, Holding
<1>6. ReadsAreFiled'
  BY <1>0, <1>1, <1>4, ActiveHasProposal DEF RecordInv, ReadsAreFiled
<1>7. ReadsAreCurrent'
  <2>1. ASSUME NEW q \in Request \ {r}, req[q].pc \notin {"idle", "done"}
        PROVE  /\ req[q].pc = "claim" /\ ~req[q].amended /\ ~applied'[req[q].p].done =>
                    req[q].rev = row[req[q].p].payload
               /\ req[q].pc \in Holding /\ ~req[q].amended => req[q].rev = row[req[q].p].payload
               /\ req[q].pc = "finalize" => req[q].rev = applied'[req[q].p].rev
    <3>1. req[q].p \in Proposal
      BY <1>1, <2>1, ActiveHasProposal
    <3>2. CASE req[q].p = p
      BY <1>3, <1>5, <3>2 DEF Holding
    <3>3. CASE req[q].p # p
      BY <1>3, <3>1, <3>3 DEF RecordInv, ReadsAreCurrent
    <3> QED
      BY <3>2, <3>3
  <2>2. ~req[r].amended => req[r].rev = row[p].payload
    BY <1>0, <1>4 DEF RecordInv, ReadsAreCurrent, Holding
  <2> QED
    BY <1>1, <1>3, <1>4, <2>1, <2>2 DEF ReadsAreCurrent, Holding
<1>8. LinksAreTrue'
  BY <1>1, <1>2, <1>3, NamesDiffer, StorylinesAreEntities DEF RecordInv, LinksAreTrue
<1>9. AuditedRowIsTrue'
  BY <1>1, <1>3 DEF RecordInv, AuditedRowIsTrue, TypeOK
<1> QED
  BY <1>6, <1>7, <1>8, <1>9 DEF RecordInv

LEMMA FinalizeKeepsRecords ==
    ASSUME IInv, RecordInv, NEW r \in Request, Finalize(r)
    PROVE  RecordInv'
<1>0. PICK p \in Proposal : p = req[r].p
  BY ActiveHasProposal DEF IInv, Finalize
<1>1. UNCHANGED applied /\ TypeOK /\ applied[p].done /\ row[p].status = "approved"
      /\ req[r].pc = "finalize"
  BY <1>0 DEF Finalize, IInv, ClaimInv, ClaimsAreTrue, AppliedIsApproved
<1>2. req'[r].pc = "done" /\ \A q \in Request \ {r} : req'[q] = req[q]
  BY <1>1, PlaceholdersAreTyped DEF Finalize, Answer, TypeOK
<1>3. CASE UNCHANGED <<row, audited>>
  BY <1>0, <1>1, <1>2, <1>3, StatusKeepsRecords
<1>4. CASE row' = Recorded(r) /\ audited' = audited \cup {p}
  <2>1. /\ row'[p].status = "approved" /\ row'[p].action = row[p].action
        /\ row'[p].payload = IF req[r].amended THEN req[r].rev ELSE row[p].payload
        /\ row'[p].entity = IF row[p].entity = None THEN applied[p].entity
                            ELSE row[p].entity
        /\ \A q \in Proposal \ {p} : row'[q] = row[q]
    BY <1>0, <1>1, <1>4 DEF Recorded, TypeOK
  <2>2. row'[p].payload = applied[p].rev
    BY <1>0, <1>1, <2>1 DEF RecordInv, ReadsAreCurrent, Holding
  <2>3. row'[p].entity = applied[p].entity
    BY <1>1, <2>1 DEF RecordInv, LinksAreTrue
  <2>4. \A q \in Request \ {r} : req[q].pc \in Holding => req[q].p # p
    BY <1>0, <1>1 DEF IInv, ClaimInv, ClaimsAreSole, Holding
  <2>5. ReadsAreFiled'
    <3>1. \A q \in Request : req[q].pc \notin {"idle", "done"} => req[q].p \in Proposal
      BY <1>1, ActiveHasProposal
    <3> QED
      BY <1>2, <2>1, <3>1 DEF RecordInv, ReadsAreFiled
  <2>6. ReadsAreCurrent'
    <3>1. ASSUME NEW q \in Request \ {r}, req[q].pc \notin {"idle", "done"}
          PROVE  /\ req[q].pc = "claim" /\ ~req[q].amended /\ ~applied[req[q].p].done =>
                      req[q].rev = row'[req[q].p].payload
                 /\ req[q].pc \in Holding /\ ~req[q].amended =>
                      req[q].rev = row'[req[q].p].payload
                 /\ req[q].pc = "finalize" => req[q].rev = applied[req[q].p].rev
      <4>1. req[q].p \in Proposal
        BY <1>1, <3>1, ActiveHasProposal
      <4>2. CASE req[q].p = p
        BY <1>1, <2>4, <4>2 DEF Holding
      <4>3. CASE req[q].p # p
        BY <2>1, <4>1, <4>3 DEF RecordInv, ReadsAreCurrent
      <4> QED
        BY <4>2, <4>3
    <3> QED
      BY <1>1, <1>2, <3>1 DEF ReadsAreCurrent, Holding
  <2>7. LinksAreTrue'
    BY <1>1, <2>1, <2>3 DEF RecordInv, LinksAreTrue
  <2>8. AuditedRowIsTrue'
    BY <1>1, <1>4, <2>1, <2>2, <2>3 DEF RecordInv, AuditedRowIsTrue, TypeOK
  <2> QED
    BY <2>5, <2>6, <2>7, <2>8 DEF RecordInv
<1> QED
  BY <1>0, <1>3, <1>4 DEF Finalize

LEMMA OthersKeepRecords ==
    ASSUME IInv, RecordInv, (\E e \in Entity : Edit(e)) \/ Crash \/ UNCHANGED vars
    PROVE  RecordInv'
<1>1. UNCHANGED <<row, applied, audited>>
  BY DEF Edit, Crash, vars
<1>2. \A q \in Request : req'[q] = req[q] \/ req'[q].pc \in {"idle", "done"}
  BY PlaceholdersAreTyped DEF Edit, Crash, vars
<1> QED
  BY <1>1, <1>2, StatusKeepsRecords

LEMMA NextRecords ==
    ASSUME FailuresComeFirst, RevisionsKeepOut, IInv, RecordInv, [Next]_vars
    PROVE  RecordInv'
BY FileKeepsRecords, ReadKeepsRecords, DecisionKeepsRecords, ReviseKeepsRecords,
   WriteKeepsRecords, FinalizeKeepsRecords, OthersKeepRecords DEF Next

-----------------------------------------------------------------------------
(* Hollow approvals need no claim to be sole: their holder is in sight.     *)

HollowInv == TypeOK /\ ApprovalIsNotHollow

LEMMA InitHollow == Init => HollowInv
<1> SUFFICES ASSUME Init PROVE HollowInv
  OBVIOUS
<1>1. \A p \in Proposal : row[p].status = "none"
  BY DEF Init, NoRow
<1> QED
  BY <1>1, InitTyped DEF HollowInv, ApprovalIsNotHollow

LEMMA NextHollow == HollowInv /\ [Next]_vars => HollowInv'
<1> SUFFICES ASSUME HollowInv, [Next]_vars,
                    NEW p \in Proposal, row'[p].status = "approved", ~applied'[p].done,
                    p \notin stranded'
             PROVE  \E r \in Request : req'[r].p = p /\ req'[r].pc \in {"write", "revert"}
  BY NextTyped DEF HollowInv, ApprovalIsNotHollow
<1> DEFINE Held(r) == req[r].p = p /\ req[r].pc \in {"write", "revert"}
           Kept(r) == req'[r].p = p /\ req'[r].pc \in {"write", "revert"}
<1> USE DEF HollowInv
<1>1. row[p].status = "approved" /\ ~applied[p].done /\ p \notin stranded =>
        \E r \in Request : Held(r)
  BY DEF ApprovalIsNotHollow
<1>2. ASSUME NEW q \in Proposal, File(q) PROVE \E r \in Request : Kept(r)
  <2>1. p # q
    <3>1. CASE row' = [row EXCEPT ![q] = [NoRow EXCEPT !.status = "pending", !.payload = 1]]
      <4>1. [NoRow EXCEPT !.status = "pending", !.payload = 1].status = "pending"
        BY DEF NoRow
      <4> QED
        BY <3>1, <4>1 DEF TypeOK
    <3>2. CASE \E e \in Entity, action \in {"update", "delete"} :
                 row' = [row EXCEPT ![q] = [status |-> "pending", action |-> action,
                                            entity |-> e, payload |-> 1, base |-> content[e]]]
      BY <3>2 DEF TypeOK
    <3> QED
      BY <1>2, <3>1, <3>2 DEF File
  <2>2. row'[p] = row[p] /\ UNCHANGED <<req, applied, stranded>>
    BY <1>2, <2>1 DEF File, TypeOK
  <2> QED
    BY <1>1, <2>2
<1>3. ASSUME UNCHANGED <<row, req, applied, stranded>> PROVE \E r \in Request : Kept(r)
  BY <1>1, <1>3
<1>4. ASSUME NEW r \in Request, NEW q \in Proposal,
             ReadToApprove(r, q) \/ ReadToDecide(r, q) \/ ReadToRevise(r, q)
      PROVE  \E s \in Request : Kept(s)
  <2>1. PICK pc \in {"claim", "reject", "withdraw", "revise"}, rev \in Nat,
                amended \in BOOLEAN : Read(r, q, pc, rev, amended)
    BY <1>4, PreludeIs
  <2>2. req[r].pc = "idle" /\ \A s \in Request \ {r} : req'[s] = req[s]
    BY <2>1, PlaceholdersAreTyped DEF Read, TypeOK
  <2>3. UNCHANGED <<row, applied, stranded>>
    BY <2>1 DEF Read
  <2> QED
    BY <1>1, <2>2, <2>3
<1>5. ASSUME NEW r \in Request, Claim(r) \/ WriteFails(r)
      PROVE  \E s \in Request : Kept(s)
  <2>1. /\ req[r].p \in Proposal /\ UNCHANGED <<applied, stranded>>
        /\ req[r].pc \in {"claim", "write"}
    BY <1>5, ActiveHasProposal DEF Claim, WriteFails
  <2>2. \A s \in Request \ {r} : req'[s] = req[s]
    BY <1>5 DEF Claim, WriteFails, Goto, Answer, TypeOK
  <2>3. CASE req[r].p # p
    <3>1. row'[p] = row[p]
      BY <1>5, <2>1, <2>3 DEF Claim, WriteFails, TypeOK
    <3>2. PICK s \in Request : Held(s)
      BY <1>1, <2>1, <3>1
    <3> QED
      BY <2>2, <2>3, <3>2
  <2>4. CASE req[r].p = p /\ (WriteFails(r) \/ StillPending(p))
    <3>1. \E pc \in {"write", "revert"} : req' = [req EXCEPT ![r].pc = pc]
      BY <1>5, <2>4 DEF Claim, WriteFails, Goto
    <3> QED
      BY <2>4, <3>1 DEF TypeOK
  <2>5. CASE req[r].p = p /\ Claim(r) /\ ~StillPending(p)
    <3>1. UNCHANGED row /\ req[r].pc = "claim"
      BY <2>5 DEF Claim
    <3>2. PICK s \in Request : Held(s)
      BY <1>1, <2>1, <3>1
    <3> QED
      BY <2>2, <3>1, <3>2
  <2> QED
    BY <1>5, <2>3, <2>4, <2>5
<1>6. ASSUME NEW r \in Request, Write(r)
      PROVE  \E s \in Request : Kept(s)
  <2>1. PICK e \in Entity : Applied(r, e)
    BY <1>6 DEF Write
  <2>2. req[r].p \in Proposal /\ UNCHANGED <<row, stranded>>
    BY <1>6, ActiveHasProposal DEF Write
  <2>3. applied'[req[r].p].done /\ \A q \in Proposal \ {req[r].p} : applied'[q] = applied[q]
    BY <2>1, <2>2 DEF Applied, TypeOK
  <2>4. req[r].p # p
    BY <2>3
  <2>5. \A s \in Request \ {r} : req'[s] = req[s]
    BY <1>6 DEF Write, Goto, TypeOK
  <2>6. PICK s \in Request : Held(s)
    BY <1>1, <2>2, <2>3, <2>4
  <2> QED
    BY <2>4, <2>5, <2>6
<1>7. ASSUME NEW r \in Request, Decide(r) \/ Revise(r) \/ Finalize(r)
      PROVE  \E s \in Request : Kept(s)
  <2>1. /\ req[r].p \in Proposal /\ UNCHANGED <<applied, stranded>>
        /\ req[r].pc \notin {"write", "revert"}
    BY <1>7, ActiveHasProposal DEF Decide, Revise, Finalize
  <2>2. \A s \in Request \ {r} : req'[s] = req[s]
    BY <1>7 DEF Decide, Revise, Finalize, Answer, TypeOK
  <2>3. row[p].status = "approved"
    <3>1. CASE Decide(r)
      <4>1. row' = row \/ \E v \in {"rejected", "withdrawn"} :
                            row' = [row EXCEPT ![req[r].p].status = v]
        BY <3>1 DEF Decide
      <4>2. ASSUME NEW v \in {"rejected", "withdrawn"},
                   row' = [row EXCEPT ![req[r].p].status = v]
            PROVE  row'[p] = row[p]
        <5>1. row'[req[r].p].status = v
          BY <2>1, <4>2 DEF TypeOK
        <5>2. req[r].p # p
          BY <5>1
        <5> QED
          BY <2>1, <4>2, <5>2 DEF TypeOK
      <4> QED
        BY <4>1, <4>2
    <3>2. CASE Revise(r)
      BY <2>1, <3>2 DEF Revise, TypeOK
    <3>3. CASE Finalize(r)
      BY <2>1, <3>3 DEF Finalize, Recorded, TypeOK
    <3> QED
      BY <1>7, <3>1, <3>2, <3>3
  <2>4. PICK s \in Request : Held(s)
    BY <1>1, <2>1, <2>3
  <2> QED
    BY <2>1, <2>2, <2>4
<1>8. ASSUME NEW r \in Request, Revert(r)
      PROVE  \E s \in Request : Kept(s)
  <2>1. req[r].p \in Proposal /\ UNCHANGED applied /\ stranded \subseteq stranded'
    BY <1>8, ActiveHasProposal DEF Revert
  <2>2. \A s \in Request \ {r} : req'[s] = req[s]
    BY <1>8 DEF Revert, Answer, TypeOK
  <2>3. CASE req[r].p = p
    <3>1. row' = RevertedToPending(p)
      BY <1>8, <2>3 DEF Revert
    <3> QED
      BY <3>1 DEF RevertedToPending, TypeOK
  <2>4. CASE req[r].p # p
    <3>1. row'[p] = row[p]
      BY <1>8, <2>1, <2>4 DEF Revert, RevertedToPending, TypeOK
    <3>2. PICK s \in Request : Held(s)
      BY <1>1, <2>1, <3>1
    <3> QED
      BY <2>2, <2>4, <3>2
  <2> QED
    BY <2>3, <2>4
<1>9. ASSUME Crash PROVE \E s \in Request : Kept(s)
  <2>1. UNCHANGED <<row, applied>> /\ p \notin stranded
    BY <1>9 DEF Crash
  <2>2. PICK s \in Request : Held(s)
    BY <1>1, <2>1
  <2> QED
    BY <1>9, <2>2 DEF Crash
<1> QED
  BY <1>2, <1>3, <1>4, <1>5, <1>6, <1>7, <1>8, <1>9 DEF Next, Edit, vars

-----------------------------------------------------------------------------
(* Theorems.                                                                *)

(* The types of the rows, the entities and the requests.                    *)
THEOREM TypeCorrect == Spec => []TypeOK
  BY InitTyped, NextTyped, PTL DEF Spec

(* The detailed queue implements the abstract review: an entity write is    *)
(* the decision on a proposal nobody has refused, and there is one only,    *)
(* provided no entity service fails after it has written.                   *)
THEOREM ImplementsReview ==
    ASSUME FailuresComeFirst
    PROVE  Spec => ReviewIsKept
<1>1. Init => IInv
  BY InitTyped, InitClaims DEF IInv
<1>2. IInv /\ [Next]_vars => IInv'
  BY NextClaims
<1>3. Init => Queue!Init
  BY InitIsReview
<1>4. IInv /\ [Next]_vars => [Queue!Next]_<<[p \in Proposal |-> Verdict(p)], content>>
  BY StepIsReview
<1> QED
  BY <1>1, <1>2, <1>3, <1>4, PTL DEF Spec, ReviewIsKept, Queue!Spec

(* Once audited, a row says what was applied and to which entity, however   *)
(* often the proposal was revised, amended or raced for (issues 124, 681).  *)
THEOREM AuditsAreTrue ==
    ASSUME FailuresComeFirst, RevisionsKeepOut
    PROVE  Spec => []AuditedRowIsTrue
<1>1. Init => IInv /\ RecordInv
  BY InitTyped, InitClaims, InitRecords DEF IInv
<1>2. IInv /\ RecordInv /\ [Next]_vars => (IInv /\ RecordInv)'
  BY NextClaims, NextRecords
<1>3. RecordInv => AuditedRowIsTrue
  BY DEF RecordInv
<1> QED
  BY <1>1, <1>2, <1>3, PTL DEF Spec

(* An approved row nothing came of has its approver still at work, or lost  *)
(* it to a crash or a failed revert; this holds whatever fails, and when.   *)
THEOREM HollowApprovalsAreKnown == Spec => []ApprovalIsNotHollow
<1>1. HollowInv => ApprovalIsNotHollow
  BY DEF HollowInv
<1> QED
  BY <1>1, InitHollow, NextHollow, PTL DEF Spec

(* Nothing an approved update overwrites in a storyline entity is news to   *)
(* its author (issue 1311).                                                 *)
THEOREM StorylinesSurvive == Spec => StorylineEditsSurvive
<1>1. ASSUME TypeOK, [Next]_vars, NEW p \in Proposal, applied'[p] # applied[p],
             row[p].action = "update", row[p].entity \in Storyline
      PROVE  content[row[p].entity] = row[p].base
  <2>1. PICK r \in Request : Write(r)
    BY <1>1 DEF Next, vars, File, Edit, ReadToApprove, ReadToDecide, ReadToRevise, Read,
       Claim, Decide, Revise, WriteFails, Revert, Finalize, Crash
  <2>2. req[r].p \in Proposal
    BY <1>1, <2>1, ActiveHasProposal DEF Write
  <2>3. PICK e \in Entity :
          /\ row[req[r].p].action # "create" => e = row[req[r].p].entity /\ Takes(e, req[r].p)
          /\ Applied(r, e)
    BY <2>1 DEF Write
  <2>4. req[r].p = p
    BY <1>1, <2>2, <2>3 DEF Applied, TypeOK
  <2>5. e = row[p].entity /\ Takes(e, p)
    BY <1>1, <2>3, <2>4
  <2> QED
    BY <1>1, <2>5 DEF Takes
<1>2. TypeOK /\ [Next]_vars =>
        [\A p \in Proposal :
           applied'[p] # applied[p] /\ row[p].action = "update"
             /\ row[p].entity \in Storyline => content[row[p].entity] = row[p].base]_vars
  BY <1>1
<1>3. Spec => [][Next]_vars
  BY DEF Spec
<1> QED
  BY <1>2, <1>3, TypeCorrect, PTL DEF StorylineEditsSurvive
=============================================================================
