------------------------------ MODULE LiveFight ------------------------------
(***************************************************************************)
(* The fights of one campaign and the sheet of one character in all of     *)
(* them (encounters.service.ts, hp-sync.ts, characters.service.ts): which  *)
(* fight is live, and whose hit points win when a fight ends, is reopened, *)
(* or the sheet is edited meanwhile.                                       *)
(*                                                                         *)
(* A handler is one action: what it reads before its transaction comes     *)
(* from local queries, and no other request is served in between.  Hit     *)
(* points stand for the whole slice the two copies share; `token' is the   *)
(* sheet's updatedAt, which nextUpdatedAt always moves.  Rosters are never *)
(* empty and always rolled; rows without a sync token (older databases)    *)
(* are left out.                                                           *)
(***************************************************************************)
EXTENDS Naturals

CONSTANTS
    Fight,          \* encounters
    NoFight,
    Hp,             \* hit points
    MaxWrites,      \* bound: writes to the sheet
    Env             \* what may happen: "stale_stamps"

ASSUME NoFightIsNone == NoFight \notin Fight
ASSUME WritesAreNat == MaxWrites \in Nat

VARIABLES
    status,         \* Fight -> status, "none" before it is created
    trashed,        \* fights with a deletedAt
    active,         \* campaigns.activeEncounterId
    sheet,          \* the characters row: hp and updatedAt
    comb,           \* Fight -> the character's combatants row: hp and
                    \* sheetSyncedUpdatedAt
    revived,        \* ghost: running fights that came back from the trash
    known           \* ghost: Fight -> "yes" the sheet's hp is the one it last
                    \* synced, "kept" the DM kept the fight's instead, "no"

vars == <<status, trashed, active, sheet, comb, revived, known>>

Copies == [hp : Hp, token : Nat]

TypeOK ==
    /\ status \in [Fight -> {"none", "preparing", "running", "ended"}]
    /\ trashed \subseteq Fight /\ revived \subseteq Fight
    /\ active \in Fight \cup {NoFight}
    /\ sheet \in Copies /\ comb \in [Fight -> Copies]
    /\ known \in [Fight -> {"yes", "no", "kept"}]
    /\ \A f \in Fight : comb[f].token <= sheet.token

Init ==
    /\ status = [f \in Fight |-> "none"] /\ trashed = {} /\ active = NoFight
    /\ revived = {}
    /\ \E n \in Hp : /\ sheet = [hp |-> n, token |-> 0]
                     /\ comb = [f \in Fight |-> [hp |-> n, token |-> 0]]
    /\ known = [f \in Fight |-> "yes"]

-----------------------------------------------------------------------------
(* A fight that is live for its campaign.                                   *)
Live(f) == status[f] = "running" /\ f \notin trashed

There(f) == status[f] # "none" /\ f \notin trashed

(* assertNoOtherLiveEncounter.                                              *)
NoOtherLive(f) == \A g \in Fight \ {f} : ~Live(g)

(* Mutant: a fight that is over keeps the campaign's pointer.               *)
UnpointedLater(f) == active

(* The campaign's pointer once f is over or in the trash.                   *)
Unpointed(f) == IF active = f THEN NoFight ELSE active

NextUpdatedAt(token) == token + 1

(* The sheet takes n.                                                       *)
WriteSheet(n) == sheet' = [hp |-> n, token |-> NextUpdatedAt(sheet.token)]

(* What each fight knows after that; `told' are those that take the value.  *)
Learn(n, told) ==
    known' = [f \in Fight |-> IF f \in told THEN "yes"
                              ELSE IF n = sheet.hp THEN known[f] ELSE "no"]

(* Mutant: any fight may write its hit points back.                         *)
CanWriteBackAlways(f) == TRUE

(* canWriteBackHp: the copies agree, or nobody wrote the sheet since this   *)
(* fight last synced with it.                                               *)
CanWriteBackHp(f) == comb[f].hp = sheet.hp \/ comb[f].token = sheet.token

Bounded == sheet.token < MaxWrites

-----------------------------------------------------------------------------
(* create, with the party's members taken from their sheets.                *)
Create(f) ==
    /\ status[f] = "none"
    /\ status' = [status EXCEPT ![f] = "preparing"]
    /\ comb' = [comb EXCEPT ![f] = sheet]
    /\ known' = [known EXCEPT ![f] = "yes"]
    /\ UNCHANGED <<trashed, active, sheet, revived>>

Start(f) ==
    /\ status[f] = "preparing" /\ There(f) /\ NoOtherLive(f)
    /\ status' = [status EXCEPT ![f] = "running"] /\ active' = f
    /\ UNCHANGED <<trashed, sheet, comb, revived, known>>

(* end, unless the sheet was written since and differs.                     *)
End(f) ==
    LET token == NextUpdatedAt(sheet.token)
    IN  /\ Bounded /\ Live(f) /\ CanWriteBackHp(f)
        /\ status' = [status EXCEPT ![f] = "ended"]
        /\ active' = Unpointed(f) /\ revived' = revived \ {f}
        /\ WriteSheet(comb[f].hp) /\ comb' = [comb EXCEPT ![f].token = token]
        /\ Learn(comb[f].hp, {f}) /\ UNCHANGED trashed

(* reopen: where the copies differ the DM says which one to keep.           *)
Reopen(f) ==
    /\ status[f] = "ended" /\ There(f) /\ NoOtherLive(f)
    /\ \E direction \in {"keep_combatant", "pull_sheet"} :
         /\ comb' = [comb EXCEPT ![f] =
              [hp |-> IF direction = "pull_sheet" THEN sheet.hp ELSE @.hp,
               token |-> sheet.token]]
         /\ known' = [known EXCEPT ![f] =
              IF comb[f].hp # sheet.hp /\ direction = "keep_combatant"
              THEN "kept" ELSE "yes"]
    /\ status' = [status EXCEPT ![f] = "running"] /\ active' = f
    /\ UNCHANGED <<trashed, sheet, revived>>

(* updateCombatant with hit points or a death state, which go to the sheet. *)
UpdateCombatant(f, n) ==
    /\ Bounded /\ There(f) /\ status[f] # "ended"
    /\ WriteSheet(n)
    /\ comb' = [comb EXCEPT ![f] = [hp |-> n, token |-> NextUpdatedAt(sheet.token)]]
    /\ Learn(n, {f})
    /\ UNCHANGED <<status, trashed, active, revived>>

(* Mutant: only running fights hear of a sheet edit.                        *)
MirroredRunning == {f \in Fight : status[f] = "running"}

(* syncActiveCombatants: every fight that has not ended, trashed or not.    *)
Mirrored == {f \in Fight : status[f] \in {"preparing", "running"}}

(* A sheet edit, a rest of one character, damage on the sheet.              *)
EditSheet(n) ==
    /\ Bounded /\ WriteSheet(n)
    /\ comb' = [f \in Fight |->
          IF f \in Mirrored THEN [hp |-> n, token |-> NextUpdatedAt(sheet.token)]
          ELSE comb[f]]
    /\ Learn(n, {f \in Fight : status[f] \in {"preparing", "running"}})
    /\ UNCHANGED <<status, trashed, active, revived>>

(* An edit of anything else on the sheet; only its token moves.             *)
EditNotes ==
    /\ Bounded /\ WriteSheet(sheet.hp)
    /\ UNCHANGED <<status, trashed, active, comb, revived, known>>

(* A sync token says that the two copies were made equal; a write that only *)
(* stamps it says so without making them.                                   *)
Stampable(f) == known[f] = "no" => "stale_stamps" \in Env

(* The sheet and these fights take a new token, and no hit points.          *)
Stamp(told) ==
    /\ Bounded /\ (\A f \in told : Stampable(f)) /\ WriteSheet(sheet.hp)
    /\ comb' = [f \in Fight |->
          IF f \in told THEN [comb[f] EXCEPT !.token = NextUpdatedAt(sheet.token)]
          ELSE comb[f]]
    /\ UNCHANGED <<status, trashed, active, revived, known>>

(* updateCombatant with conditions only, a broken concentration, and the    *)
(* slot an action spends or its undo gives back.                            *)
StampCombatant(f) == There(f) /\ status[f] # "ended" /\ Stamp({f})

(* Conditions are edited on the sheet.                                      *)
EditConditions == Stamp(Mirrored)

(* The whole party rests: only live fights are told.                        *)
RestParty(n) ==
    LET told == {f \in Fight : Live(f)}
    IN  /\ Bounded /\ WriteSheet(n)
        /\ comb' = [f \in Fight |->
              IF f \in told THEN [hp |-> n, token |-> NextUpdatedAt(sheet.token)]
              ELSE comb[f]]
        /\ Learn(n, told) /\ UNCHANGED <<status, trashed, active, revived>>

(* remove: into the trash, whatever its status.                             *)
Remove(f) ==
    /\ There(f) /\ trashed' = trashed \cup {f}
    /\ active' = Unpointed(f)
    /\ UNCHANGED <<status, sheet, comb, revived, known>>

(* restore: nobody asks what became live meanwhile.                         *)
Restore(f) ==
    /\ f \in trashed /\ trashed' = trashed \ {f}
    /\ revived' = IF status[f] = "running" THEN revived \cup {f} ELSE revived
    /\ UNCHANGED <<status, active, sheet, comb, known>>

Next ==
    \/ \E f \in Fight : \/ Create(f) \/ Start(f) \/ End(f) \/ Reopen(f)
                        \/ Remove(f) \/ Restore(f)
    \/ \E f \in Fight, n \in Hp : UpdateCombatant(f, n)
    \/ \E n \in Hp : EditSheet(n) \/ RestParty(n)
    \/ \E f \in Fight : StampCombatant(f)
    \/ EditNotes \/ EditConditions

Spec == Init /\ [][Next]_vars

-----------------------------------------------------------------------------
(* A campaign has one live fight at most (issue 744), not counting those    *)
(* put in the trash while they ran and taken out again.                     *)
OneLiveFight ==
    \A f, g \in Fight \ revived : Live(f) /\ Live(g) => f = g

(* The campaign's pointer names a live fight, and the live one whenever     *)
(* there is one, so nothing that follows it lands in a fight that is over.  *)
PointerNamesLiveFight ==
    /\ active # NoFight => Live(active)
    /\ \A f \in Fight \ revived : Live(f) => active = f

(* Ending a fight never overwrites hit points the sheet was given behind    *)
(* the fight's back (issue 466).  So it is as long as no fight takes a      *)
(* token for hit points it has not seen.                                    *)
EndKeepsUnseenSheet ==
    [][\A f \in Fight : End(f) /\ sheet'.hp # sheet.hp => known[f] # "no"]_vars

(* The tracker and the sheet show the same hit points in every fight that   *)
(* is not over, unless the sheet changed without it (another fight's        *)
(* damage, a party rest) or the DM kept the fight's own (issue 50).         *)
TrackerMatchesSheet ==
    \A f \in Fight :
        status[f] \in {"preparing", "running"} /\ known[f] = "yes" =>
            comb[f].hp = sheet.hp
=============================================================================
