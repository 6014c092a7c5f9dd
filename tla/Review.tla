------------------------------- MODULE Review -------------------------------
(***************************************************************************)
(* What the review queue of a campaign promises: content changes because   *)
(* people edit it or because a proposal that nobody had decided yet is     *)
(* approved, and a proposal is decided once.  Proposals.tla implements it. *)
(***************************************************************************)
CONSTANTS
    Proposal,
    Entity,
    People,         \* whoever writes entities without a proposal
    Content         \* what an entity may hold; content.by is who wrote it

VARIABLES
    verdict,        \* Proposal -> "none" before it is filed, "open", ...
    content         \* Entity -> Content

Init ==
    /\ verdict = [p \in Proposal |-> "none"]
    /\ content \in [Entity -> Content]
    /\ \A e \in Entity : content[e].by \notin Proposal

File(p) ==
    /\ verdict[p] = "none" /\ verdict' = [verdict EXCEPT ![p] = "open"]
    /\ UNCHANGED content

(* One entity, and no other, becomes what somebody wrote.                   *)
Written(by) ==
    \E e \in Entity :
        /\ content'[e] \in Content /\ content'[e].by = by
        /\ content' = [content EXCEPT ![e] = content'[e]]

(* The entity becomes what the proposal says, and that is the decision.     *)
Approve(p) ==
    /\ verdict[p] = "open" /\ verdict' = [verdict EXCEPT ![p] = "approved"]
    /\ Written(p)

Refuse(p) ==
    /\ verdict[p] = "open"
    /\ \E v \in {"rejected", "withdrawn"} : verdict' = [verdict EXCEPT ![p] = v]
    /\ UNCHANGED content

Edit == Written(People) /\ UNCHANGED verdict

Next == Edit \/ \E p \in Proposal : File(p) \/ Approve(p) \/ Refuse(p)

Spec == Init /\ [][Next]_<<verdict, content>>
=============================================================================
