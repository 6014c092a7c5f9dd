--------------------------- MODULE LiveFightProofs ---------------------------
(***************************************************************************)
(* Proofs about LiveFight, for any fights, any hit points and any number   *)
(* of writes to the sheet.                                                 *)
(***************************************************************************)
EXTENDS LiveFight, TLAPS

(* No fight takes a token for hit points it has not seen.                   *)
StampsAreEarned == "stale_stamps" \notin Env

(* Who is not trusted to write back has a token the sheet has left behind:  *)
(* what makes the refusal of a stale write-back complete.                   *)
UnseenIsStale ==
    \A f \in Fight : known[f] = "no" => comb[f].token < sheet.token

(* The two facts about hit points that hold whatever is stamped.            *)
SheetInv == TypeOK /\ TrackerMatchesSheet

IInv == SheetInv /\ PointerNamesLiveFight

-----------------------------------------------------------------------------
LEMMA InitInv == Init => IInv
<1> SUFFICES ASSUME Init PROVE IInv
  OBVIOUS
<1>1. PICK n \in Hp : /\ sheet = [hp |-> n, token |-> 0]
                      /\ comb = [f \in Fight |-> [hp |-> n, token |-> 0]]
  BY DEF Init
<1>2. TypeOK
  BY <1>1 DEF Init, TypeOK, Copies
<1>3. PointerNamesLiveFight
  BY DEF Init, PointerNamesLiveFight, Live
<1>4. TrackerMatchesSheet
  BY <1>1 DEF Init, TrackerMatchesSheet
<1> QED
  BY <1>2, <1>3, <1>4 DEF IInv, SheetInv

LEMMA InitStale == Init => UnseenIsStale
  BY DEF Init, UnseenIsStale

(* Who becomes live: the handlers that change status, trash or pointer.     *)
Lifecycle(f) ==
    \/ Create(f) \/ Start(f) \/ End(f) \/ Reopen(f) \/ Remove(f) \/ Restore(f)

(* The handlers that only write the sheet, and what it is copied to.        *)
SheetWrite ==
    \/ \E f \in Fight, n \in Hp : UpdateCombatant(f, n)
    \/ \E n \in Hp : EditSheet(n) \/ RestParty(n)
    \/ \E f \in Fight : StampCombatant(f)
    \/ EditNotes \/ EditConditions

-----------------------------------------------------------------------------
LEMMA LifecycleKeepsPointer ==
    ASSUME IInv, NEW f \in Fight, Lifecycle(f)
    PROVE  PointerNamesLiveFight'
<1> USE NoFightIsNone
<1>1. CASE Create(f)
  BY <1>1 DEF IInv, SheetInv, TypeOK, PointerNamesLiveFight, Live, Create
<1>2. CASE Start(f)
  BY <1>2 DEF IInv, SheetInv, TypeOK, PointerNamesLiveFight, Live, Start, There, NoOtherLive
<1>3. CASE End(f)
  BY <1>3 DEF IInv, SheetInv, TypeOK, PointerNamesLiveFight, Live, End, Unpointed
<1>4. CASE Reopen(f)
  BY <1>4 DEF IInv, SheetInv, TypeOK, PointerNamesLiveFight, Live, Reopen, There, NoOtherLive
<1>5. CASE Remove(f)
  BY <1>5 DEF IInv, SheetInv, TypeOK, PointerNamesLiveFight, Live, Remove, There, Unpointed
<1>6. CASE Restore(f)
  BY <1>6 DEF IInv, SheetInv, TypeOK, PointerNamesLiveFight, Live, Restore
<1> QED
  BY <1>1, <1>2, <1>3, <1>4, <1>5, <1>6 DEF Lifecycle

LEMMA SheetWritesKeepPointer ==
    ASSUME IInv, SheetWrite \/ UNCHANGED vars
    PROVE  PointerNamesLiveFight'
<1>1. UNCHANGED <<status, trashed, active, revived>>
  BY DEF SheetWrite, UpdateCombatant, EditSheet, RestParty, StampCombatant, Stamp,
         EditNotes, EditConditions, vars
<1> QED
  BY <1>1 DEF IInv, PointerNamesLiveFight, Live

-----------------------------------------------------------------------------
LEMMA CreateKeepsSheet ==
    ASSUME SheetInv, NEW f \in Fight, Create(f)
    PROVE  SheetInv'
<1>1. TypeOK'
  BY DEF SheetInv, TypeOK, Copies, Create
<1>2. TrackerMatchesSheet'
  BY DEF SheetInv, TypeOK, Copies, Create, TrackerMatchesSheet
<1> QED
  BY <1>1, <1>2 DEF SheetInv

LEMMA StartKeepsSheet ==
    ASSUME SheetInv, NEW f \in Fight, Start(f) \/ Remove(f) \/ Restore(f)
    PROVE  SheetInv'
<1>1. TypeOK'
  BY DEF SheetInv, TypeOK, Start, Remove, Restore, Unpointed
<1>2. TrackerMatchesSheet'
  BY DEF SheetInv, TypeOK, Start, Remove, Restore, There, TrackerMatchesSheet
<1> QED
  BY <1>1, <1>2 DEF SheetInv

LEMMA EndKeepsSheet ==
    ASSUME SheetInv, NEW f \in Fight, End(f)
    PROVE  SheetInv'
<1>1. /\ sheet' = [hp |-> comb[f].hp, token |-> sheet.token + 1]
      /\ comb' = [comb EXCEPT ![f].token = sheet.token + 1]
      /\ known' = [g \in Fight |->
            IF g = f THEN "yes"
            ELSE IF comb[f].hp = sheet.hp THEN known[g] ELSE "no"]
      /\ status' = [status EXCEPT ![f] = "ended"]
  BY DEF End, WriteSheet, NextUpdatedAt, Learn
<1>2. TypeOK'
  <2>1. comb[f].hp \in Hp /\ sheet.token \in Nat
    BY DEF SheetInv, TypeOK, Copies
  <2>2. sheet' \in Copies /\ comb' \in [Fight -> Copies]
    BY <1>1, <2>1 DEF SheetInv, TypeOK, Copies
  <2>3. \A g \in Fight : comb'[g].token <= sheet'.token
    BY <1>1, <2>1 DEF SheetInv, TypeOK, Copies
  <2>4. known' \in [Fight -> {"yes", "no", "kept"}]
    BY <1>1 DEF SheetInv, TypeOK
  <2> QED
    BY <1>1, <2>2, <2>3, <2>4 DEF SheetInv, TypeOK, End, Unpointed
<1>3. TrackerMatchesSheet'
  BY <1>1 DEF SheetInv, TypeOK, Copies, TrackerMatchesSheet
<1> QED
  BY <1>2, <1>3 DEF SheetInv

LEMMA ReopenKeepsSheet ==
    ASSUME SheetInv, NEW f \in Fight, Reopen(f)
    PROVE  SheetInv'
<1>1. PICK direction \in {"keep_combatant", "pull_sheet"} :
         /\ comb' = [comb EXCEPT ![f] =
              [hp |-> IF direction = "pull_sheet" THEN sheet.hp ELSE @.hp,
               token |-> sheet.token]]
         /\ known' = [known EXCEPT ![f] =
              IF comb[f].hp # sheet.hp /\ direction = "keep_combatant"
              THEN "kept" ELSE "yes"]
  BY DEF Reopen
<1>2. TypeOK'
  BY <1>1 DEF SheetInv, TypeOK, Copies, Reopen
<1>3. TrackerMatchesSheet'
  BY <1>1 DEF SheetInv, TypeOK, Copies, Reopen, TrackerMatchesSheet
<1> QED
  BY <1>2, <1>3 DEF SheetInv

(* A write of n that `told' fights take over, all that the hit point        *)
(* handlers do.                                                             *)
Told(n, told) ==
    /\ sheet' = [hp |-> n, token |-> sheet.token + 1]
    /\ comb' = [f \in Fight |->
          IF f \in told THEN [hp |-> n, token |-> sheet.token + 1] ELSE comb[f]]
    /\ Learn(n, told)
    /\ UNCHANGED <<status, trashed, active, revived>>

LEMMA ToldKeepsSheet ==
    ASSUME SheetInv, NEW n \in Hp, NEW told \in SUBSET Fight, Told(n, told)
    PROVE  SheetInv'
<1>1. TypeOK'
  BY DEF SheetInv, TypeOK, Copies, Told, Learn
<1>2. TrackerMatchesSheet'
  BY DEF SheetInv, TypeOK, Copies, Told, Learn, TrackerMatchesSheet
<1> QED
  BY <1>1, <1>2 DEF SheetInv

LEMMA ToldKeepsStale ==
    ASSUME SheetInv, UnseenIsStale, NEW n \in Hp, NEW told \in SUBSET Fight,
           Told(n, told)
    PROVE  UnseenIsStale'
  BY DEF SheetInv, TypeOK, Copies, Told, Learn, UnseenIsStale

(* A new token for the sheet and for `told' fights, and nothing else.       *)
Stamped(told) ==
    /\ sheet' = [hp |-> sheet.hp, token |-> sheet.token + 1]
    /\ comb' = [f \in Fight |->
          IF f \in told THEN [comb[f] EXCEPT !.token = sheet.token + 1] ELSE comb[f]]
    /\ UNCHANGED <<status, trashed, active, revived, known>>

LEMMA StampedKeepsSheet ==
    ASSUME SheetInv, NEW told \in SUBSET Fight, Stamped(told)
    PROVE  SheetInv'
<1>1. TypeOK'
  BY DEF SheetInv, TypeOK, Copies, Stamped
<1>2. TrackerMatchesSheet'
  BY DEF SheetInv, TypeOK, Copies, Stamped, TrackerMatchesSheet
<1> QED
  BY <1>1, <1>2 DEF SheetInv

LEMMA StampedKeepsStale ==
    ASSUME SheetInv, UnseenIsStale, NEW told \in SUBSET Fight, Stamped(told),
           \A f \in told : known[f] # "no"
    PROVE  UnseenIsStale'
  BY DEF SheetInv, TypeOK, Copies, Stamped, UnseenIsStale

(* Every handler that only writes the sheet is one of the two, and never    *)
(* stamps a fight that has missed something.                                *)
LEMMA SheetWriteForms ==
    ASSUME SheetInv, SheetWrite
    PROVE  \/ \E n \in Hp, told \in SUBSET Fight : Told(n, told)
           \/ \E told \in SUBSET Fight :
                /\ Stamped(told)
                /\ StampsAreEarned => \A f \in told : known[f] # "no"

<1>1. ASSUME NEW f \in Fight, NEW n \in Hp, UpdateCombatant(f, n)
      PROVE  Told(n, {f})
  BY <1>1 DEF UpdateCombatant, WriteSheet, NextUpdatedAt, Told, SheetInv, TypeOK
<1>2. ASSUME NEW n \in Hp, EditSheet(n)
      PROVE  Told(n, Mirrored)
  BY <1>2 DEF EditSheet, WriteSheet, NextUpdatedAt, Told, Mirrored
<1>3. ASSUME NEW n \in Hp, RestParty(n)
      PROVE  Told(n, {f \in Fight : Live(f)})
  BY <1>3 DEF RestParty, WriteSheet, NextUpdatedAt, Told
<1>4. ASSUME NEW told, Stamp(told)
      PROVE  Stamped(told) /\ (StampsAreEarned => \A f \in told : known[f] # "no")
  BY <1>4 DEF Stamp, Stampable, StampsAreEarned, Stamped, WriteSheet, NextUpdatedAt
<1>5. CASE EditNotes
  <2>1. Stamped({})
    BY <1>5 DEF EditNotes, WriteSheet, NextUpdatedAt, Stamped, SheetInv, TypeOK
  <2> QED
    BY <2>1
<1>6. CASE EditConditions
  <2>1. Stamped(Mirrored) /\ (StampsAreEarned => \A f \in Mirrored : known[f] # "no")
    BY <1>4, <1>6 DEF EditConditions
  <2> QED
    BY <2>1 DEF Mirrored
<1>7. ASSUME NEW f \in Fight, StampCombatant(f)
      PROVE  Stamped({f}) /\ (StampsAreEarned => \A g \in {f} : known[g] # "no")
  BY <1>4, <1>7 DEF StampCombatant
<1>8. Mirrored \in SUBSET Fight /\ {f \in Fight : Live(f)} \in SUBSET Fight
  BY DEF Mirrored
<1>9. CASE \E f \in Fight, n \in Hp : UpdateCombatant(f, n)
  BY <1>1, <1>9
<1>10. CASE \E n \in Hp : EditSheet(n) \/ RestParty(n)
  BY <1>2, <1>3, <1>8, <1>10
<1>11. CASE \E f \in Fight : StampCombatant(f)
  <2>1. PICK f \in Fight : StampCombatant(f)
    BY <1>11
  <2>2. {f} \in SUBSET Fight
    OBVIOUS
  <2> QED
    BY <1>7, <2>1, <2>2
<1> QED
  BY <1>5, <1>6, <1>9, <1>10, <1>11 DEF SheetWrite

LEMMA SheetWritesKeepSheet ==
    ASSUME SheetInv, SheetWrite
    PROVE  SheetInv'
  BY SheetWriteForms, ToldKeepsSheet, StampedKeepsSheet

-----------------------------------------------------------------------------
(* With stamps that are earned, an unseen write leaves a stale token.       *)
LEMMA NextKeepsStale ==
    ASSUME StampsAreEarned, IInv, UnseenIsStale, [Next]_vars
    PROVE  UnseenIsStale'
<1> USE DEF IInv, SheetInv, TypeOK, Copies, UnseenIsStale
<1>1. ASSUME NEW f \in Fight, Create(f) PROVE UnseenIsStale'
  BY <1>1 DEF Create
<1>2. ASSUME NEW f \in Fight, Start(f) \/ Remove(f) \/ Restore(f)
      PROVE  UnseenIsStale'
  BY <1>2 DEF Start, Remove, Restore
<1>3. ASSUME NEW f \in Fight, End(f) PROVE UnseenIsStale'
  <2>1. /\ sheet' = [hp |-> comb[f].hp, token |-> sheet.token + 1]
        /\ comb' = [comb EXCEPT ![f].token = sheet.token + 1]
        /\ known' = [g \in Fight |->
              IF g = f THEN "yes"
              ELSE IF comb[f].hp = sheet.hp THEN known[g] ELSE "no"]
    BY <1>3 DEF End, WriteSheet, NextUpdatedAt, Learn
  <2> QED
    BY <2>1
<1>4. ASSUME NEW f \in Fight, Reopen(f) PROVE UnseenIsStale'
  BY <1>4 DEF Reopen
<1>5. CASE SheetWrite
  BY <1>5, SheetWriteForms, ToldKeepsStale, StampedKeepsStale
<1>6. CASE UNCHANGED vars
  BY <1>6 DEF vars
<1> QED
  BY <1>1, <1>2, <1>3, <1>4, <1>5, <1>6 DEF Next, SheetWrite

-----------------------------------------------------------------------------
LEMMA NextKeepsInv == IInv /\ [Next]_vars => IInv'
<1> SUFFICES ASSUME IInv, [Next]_vars PROVE IInv'
  OBVIOUS
<1>1. SheetInv
  BY DEF IInv
<1>2. ASSUME NEW f \in Fight, Lifecycle(f) PROVE IInv'
  <2>1. PointerNamesLiveFight'
    BY <1>2, LifecycleKeepsPointer
  <2>2. SheetInv'
    BY <1>1, <1>2, CreateKeepsSheet, StartKeepsSheet, EndKeepsSheet,
       ReopenKeepsSheet DEF Lifecycle
  <2> QED
    BY <2>1, <2>2 DEF IInv
<1>3. CASE SheetWrite
  BY <1>1, <1>3, SheetWritesKeepPointer, SheetWritesKeepSheet DEF IInv
<1>4. CASE UNCHANGED vars
  BY <1>4 DEF IInv, SheetInv, TypeOK, PointerNamesLiveFight, TrackerMatchesSheet,
              Live, vars
<1> QED
  BY <1>2, <1>3, <1>4 DEF Next, Lifecycle, SheetWrite

LEMMA InvHolds == Spec => []IInv
  BY InitInv, NextKeepsInv, PTL DEF Spec

-----------------------------------------------------------------------------
(* The fields keep their types, and no fight's sync token runs ahead of the *)
(* sheet's stamp.                                                           *)
THEOREM TypeCorrect == Spec => []TypeOK
<1>1. IInv => TypeOK
  BY DEF IInv, SheetInv
<1> QED
  BY <1>1, InvHolds, PTL

(* The campaign's pointer follows the live fight through every start, end,  *)
(* reopening and trashing.                                                  *)
THEOREM PointerFollows == Spec => []PointerNamesLiveFight
<1>1. IInv => PointerNamesLiveFight
  BY DEF IInv
<1> QED
  BY <1>1, InvHolds, PTL

(* However many fights a campaign has, one is live at most, those brought   *)
(* back from the trash while running apart (issue 744).                     *)
THEOREM OneFightIsLive == Spec => []OneLiveFight
<1>1. IInv => OneLiveFight
  BY DEF IInv, PointerNamesLiveFight, OneLiveFight
<1> QED
  BY <1>1, InvHolds, PTL

(* Every fight that is not over shows the sheet's hit points as far as it   *)
(* was told of them (issue 50).                                             *)
THEOREM TrackerFollowsSheet == Spec => []TrackerMatchesSheet
<1>1. IInv => TrackerMatchesSheet
  BY DEF IInv, SheetInv
<1> QED
  BY <1>1, InvHolds, PTL

(* No end of a fight overwrites a sheet edit the fight has not seen         *)
(* (issue 466): the sync token is what gives it away, provided no write     *)
(* gives a fight the sheet's token without its hit points.                  *)
THEOREM EndNeverOverwrites ==
    ASSUME StampsAreEarned
    PROVE  Spec => EndKeepsUnseenSheet
<1>1. ASSUME IInv, UnseenIsStale, NEW f \in Fight, End(f), sheet'.hp # sheet.hp
      PROVE  known[f] # "no"
  <2>1. sheet'.hp = comb[f].hp
    BY <1>1 DEF End, WriteSheet
  <2>2. comb[f].token = sheet.token
    BY <1>1, <2>1 DEF End, CanWriteBackHp
  <2>3. sheet.token \in Nat
    BY <1>1 DEF IInv, SheetInv, TypeOK, Copies
  <2> QED
    BY <1>1, <2>2, <2>3 DEF UnseenIsStale
<1>2. IInv /\ UnseenIsStale /\ [Next]_vars =>
        [\A f \in Fight : End(f) /\ sheet'.hp # sheet.hp => known[f] # "no"]_vars
  BY <1>1
<1>3. IInv /\ UnseenIsStale /\ [Next]_vars => UnseenIsStale'
  BY NextKeepsStale
<1> QED
  BY <1>2, <1>3, InitInv, InitStale, NextKeepsInv, PTL DEF Spec, EndKeepsUnseenSheet
=============================================================================
