----------------------------- MODULE ActionChain -----------------------------
(***************************************************************************)
(* Resolved actions of one running fight (action-resolver.service.ts):     *)
(* previewed, applied as one chain of consequences and costs, and undone   *)
(* from the snapshot that apply stored, while turns go by and the tracker  *)
(* (encounters.service.ts) writes the same combatants.                     *)
(*                                                                         *)
(* A handler is one transaction, or synchronous: one action.  Hit points   *)
(* stand for hit points, temporary hit points and death saves; every       *)
(* action costs the actor's one action of the turn, and a cast, which      *)
(* starts concentration, a slot that no turn gives back.  Plain conditions *)
(* and timed effects, targeting rules, the sheets (see LiveFight), holds,  *)
(* rests and corrections of the economy by hand, the lifetime of unused    *)
(* previews, the order of queued saves and the log are left out.  Turns    *)
(* may pass to anybody, back as well as on (see TurnOrder): nextTurn and   *)
(* undoTurn do the same to what is here.                                   *)
(***************************************************************************)
EXTENDS Naturals, FiniteSets

CONSTANTS
    Who,            \* combatants
    Chain,          \* resolutions, each with its chain id
    Damage,         \* the action-queued save of the tracker
    None,
    MaxHp,          \* hit points of everybody
    MaxActions,     \* actions of a turn
    MaxSlots,       \* slots of a caster
    MaxTargets,     \* targets of an action
    MaxTurns,       \* bound: turns that begin
    MaxHits,        \* bound: writes by the tracker and the turn workspace
    Env             \* what may happen: "self_drop", "queued_saves",
                    \* "orphan_saves", "late_undo", "stale_undo"

ASSUME NoneIsNothing == None \notin Who \cup Chain \cup {Damage} /\ Damage \notin Chain
ASSUME BoundsAreNat ==
    {MaxHp, MaxActions, MaxSlots, MaxTargets, MaxTurns, MaxHits} \subseteq Nat

VARIABLES
    there,          \* the combatants rows
    board,          \* Who -> hit points, concentration and its links
    used, slots,    \* Who -> actions used this turn, slots used
    turn,           \* the encounter's pointer and turnVersion
    chain,          \* action_pending_resolutions and action_apply_chains
    hits,           \* tracker writes so far
    passed,         \* ghost: chains previewed in a turn that is over
    fresh           \* ghost: applied chains whose actor is in the same turn still

vars == <<there, board, used, slots, turn, chain, hits, passed, fresh>>

(* What a combatant concentrates on; which saves are queued; and whose      *)
(* concentration sustains conditions on it.                                 *)
Label == {"cast", "spell", None}
Row == [hp : 0..MaxHp, on : Label, saves : SUBSET (Chain \cup {Damage}),
        linked : SUBSET Who]

NoChain == [state |-> "none"]

TypeOK ==
    /\ there \subseteq Who /\ board \in [Who -> Row]
    /\ used \in [Who -> 0..MaxActions] /\ slots \in [Who -> 0..MaxSlots]
    /\ turn \in [of : Who, version : 0..MaxTurns] /\ hits \in 0..MaxHits
    /\ \A c \in Chain :
         chain[c].state \in {"none", "pending", "applied", "undone"}
    /\ passed \subseteq Chain /\ fresh \subseteq Chain

Init ==
    /\ there = Who
    /\ board = [w \in Who |-> [hp |-> MaxHp, on |-> None, saves |-> {}, linked |-> {}]]
    /\ used = [w \in Who |-> 0] /\ slots = [w \in Who |-> 0]
    /\ turn \in [of : Who, version : {0}]
    /\ chain = [c \in Chain |-> NoChain] /\ hits = 0 /\ passed = {} /\ fresh = {}

-----------------------------------------------------------------------------
(* The rows b of a fight.                                                   *)

Sustains(b, w) == b[w].on # None \/ \E v \in there : w \in b[v].linked

Down(b, w) == b[w].hp = 0

(* breakConcentration: of everyone in ws.                                   *)
Broken(b, ws) ==
    [v \in Who |->
       IF v \notin there THEN b[v]
       ELSE [b[v] EXCEPT !.linked = @ \ ws,
                         !.on = IF v \in ws THEN None ELSE @,
                         !.saves = IF v \in ws THEN {} ELSE @]]

(* The hit points after harm, or after healing.                             *)
Hurt(hp, effect) ==
    CASE effect = "harm" -> IF hp = 0 THEN 0 ELSE hp - 1
      [] effect = "heal" -> IF hp = MaxHp THEN MaxHp ELSE hp + 1
      [] OTHER -> hp

(* enqueueConcentrationCheck.                                               *)
Queued(b, ws, id) ==
    [v \in Who |-> IF v \in ws THEN [b[v] EXCEPT !.saves = @ \cup {id}] ELSE b[v]]

-----------------------------------------------------------------------------
(* A blow, a spell that harms, one that only holds, and healing.            *)
Actions == {[effect |-> "harm", casts |-> FALSE], [effect |-> "harm", casts |-> TRUE],
            [effect |-> "none", casts |-> TRUE], [effect |-> "heal", casts |-> FALSE]}

(* resolve: the action is rolled, and only the chain id leaves the server.  *)
Preview(c) ==
    /\ chain[c].state = "none"
    /\ \E a \in there, ts \in SUBSET there, action \in Actions :
         /\ Cardinality(ts) \in 1..MaxTargets
         /\ chain' = [chain EXCEPT ![c] =
              [state |-> "pending", actor |-> a, targets |-> ts,
               effect |-> action.effect, casts |-> action.casts,
               version |-> turn.version]]
    /\ UNCHANGED <<there, board, used, slots, turn, hits, passed, fresh>>

(* Mutant: the pointer is compared, not the turn.                           *)
SameSeat(c) == turn.of = chain[c].actor

(* A player applies in the turn of the preview only.                        *)
SameTurn(c) == turn.of = chain[c].actor /\ turn.version = chain[c].version

(* Mutant: only the slot is asked for (issue 1637).                         *)
PaysSlotOnly(k) == k.casts => slots[k.actor] < MaxSlots

Pays(k) == /\ used[k.actor] < MaxActions
           /\ k.casts => slots[k.actor] < MaxSlots

(* The actor pays and drops what it was concentrating on, before anything   *)
(* lands on a target.                                                       *)
Breaks(k) == k.casts \/ (Down(board, k.actor) /\ Sustains(board, k.actor))

Paid(k) ==
    LET b == IF Breaks(k) THEN Broken(board, {k.actor}) ELSE board
    IN  IF ~k.casts THEN b
        ELSE [b EXCEPT ![k.actor].saves = {},
                       ![k.actor].on = IF Down(b, k.actor) THEN @ ELSE "cast"]

(* Those whom harm shakes, as they were before the action.                  *)
Shaken(k) ==
    {t \in k.targets : k.effect = "harm" /\ Sustains(board, t)}

(* Mutant: a target that drops goes on concentrating.                       *)
DroppedNever(k) == {}

(* Those it drops; the actor is left out.                                   *)
Dropped(k) ==
    {t \in Shaken(k) \ {k.actor} : Hurt(board[t].hp, k.effect) = 0}

(* The actor is down and drops saves of a concentration it no longer has:   *)
(* what it concentrated on was removed, or lay on somebody who was.         *)
DropsOrphans(k) ==
    /\ Breaks(k) /\ k.actor \notin k.targets /\ Down(board, k.actor)
    /\ board[k.actor].on = None /\ board[k.actor].saves # {}

(* The fight after the chain k with id c.                                   *)
Applied(k, c) ==
    LET saved == Queued(Paid(k), Shaken(k) \ (IF k.casts THEN {k.actor} ELSE {}), c)
        struck == [v \in Who |->
                     IF v \in k.targets THEN [saved[v] EXCEPT !.hp = Hurt(@, k.effect)]
                     ELSE saved[v]]
    IN  Broken(struck, Dropped(k))

(* Bystanders who lose a condition with someone's concentration.            *)
Cascades(k) ==
    LET sources == Dropped(k) \cup (IF Breaks(k) THEN {k.actor} ELSE {})
    IN  {v \in there \ k.targets : board[v].linked \cap sources # {}}

(* apply: the pending row is deleted first, whoever comes later has lost;   *)
(* refused whole if a cost cannot be paid, or someone has left.             *)
Apply(c, role) ==
    LET k == chain[c]
        after == Applied(k, c)
    IN  /\ chain[c].state = "pending"
        /\ k.actor \in there /\ k.targets \subseteq there
        /\ role # "dm" => SameTurn(c)
        /\ Pays(k)
        /\ (\A t \in Dropped(k) : board[t].saves # {} => "queued_saves" \in Env)
        /\ k.actor \in k.targets /\ Down(after, k.actor) /\ Sustains(after, k.actor)
             => "self_drop" \in Env
        /\ DropsOrphans(k) => "orphan_saves" \in Env
        /\ board' = after
        /\ used' = [used EXCEPT ![k.actor] = @ + 1]
        /\ slots' = IF k.casts THEN [slots EXCEPT ![k.actor] = @ + 1] ELSE slots
        /\ chain' = [chain EXCEPT ![c] =
             [state |-> "applied", actor |-> k.actor, targets |-> k.targets,
              casts |-> k.casts, broke |-> Breaks(k), cascades |-> Cascades(k),
              was |-> board, after |-> after]]
        /\ fresh' = fresh \cup {c} /\ passed' = passed \ {c}
        /\ UNCHANGED <<there, turn, hits>>

-----------------------------------------------------------------------------
(* undo                                                                     *)

(* Concentration goes back only where the chain's own is still there, or    *)
(* nothing is.                                                              *)
Reverts(k, v) ==
    \/ k.casts /\ board[v].on = "cast"
    \/ board[v].on = None /\ k.was[v].on # None

(* Mutant: a bystander's condition stays lost.                              *)
RestoredTargets(k, c) ==
    [v \in Who |->
       IF v \in k.targets \cap there
       THEN [hp |-> k.was[v].hp, linked |-> k.was[v].linked,
             on |-> IF Reverts(k, v) THEN k.was[v].on ELSE board[v].on,
             saves |-> (board[v].saves \ {c}) \cup (IF k.broke THEN k.was[v].saves ELSE {})]
       ELSE board[v]]

(* The stored rows: targets whole, bystanders their conditions only.        *)
Restored(k, c) ==
    [v \in Who |->
       CASE v \in k.targets \cap there ->
              [hp |-> k.was[v].hp, linked |-> k.was[v].linked,
               on |-> IF Reverts(k, v) THEN k.was[v].on ELSE board[v].on,
               saves |-> (board[v].saves \ {c})
                           \cup (IF k.broke THEN k.was[v].saves ELSE {})]
         [] v \in k.cascades \cap there ->
              [board[v] EXCEPT !.linked = k.was[v].linked, !.saves = @ \ {c}]
         [] OTHER -> board[v]]

(* The actor's own row, when it was no target.                              *)
Refocused(b, k) ==
    IF k.broke /\ k.actor \notin k.targets /\ Reverts(k, k.actor)
    THEN [b EXCEPT ![k.actor].on = k.was[k.actor].on,
                   ![k.actor].saves = k.was[k.actor].saves]
    ELSE b

(* The fight is as the chain left it, but for those who were removed.       *)
AsLeft(k) == \A v \in there : board[v] = k.after[v]

Less(n) == IF n = 0 THEN 0 ELSE n - 1

Undo(c) ==
    LET k == chain[c]
    IN  /\ k.state = "applied" /\ k.actor \in there
        /\ c \in fresh \/ "late_undo" \in Env
        /\ AsLeft(k) \/ "stale_undo" \in Env
        /\ board' = Refocused(Restored(k, c), k)
        /\ used' = [used EXCEPT ![k.actor] = Less(@)]
        /\ slots' = IF k.casts THEN [slots EXCEPT ![k.actor] = Less(@)] ELSE slots
        /\ chain' = [chain EXCEPT ![c] = [state |-> "undone"]]
        /\ fresh' = fresh \ {c} /\ UNCHANGED <<there, turn, hits, passed>>

-----------------------------------------------------------------------------
(* Everybody else who writes these rows.                                    *)

(* nextTurn, undoTurn: the one whose turn begins has its actions again.     *)
BeginTurn(w) ==
    /\ w \in there /\ turn.version < MaxTurns
    /\ turn' = [of |-> w, version |-> turn.version + 1]
    /\ used' = [used EXCEPT ![w] = 0]
    /\ passed' = passed \cup {c \in Chain : chain[c].state = "pending"}
    /\ fresh' = {c \in fresh : chain[c].actor # w}
    /\ UNCHANGED <<there, board, slots, chain, hits>>

Tracked == hits < MaxHits /\ hits' = hits + 1
Workspace == Tracked /\ UNCHANGED <<there, used, slots, turn, chain, passed, fresh>>

(* updateCombatant with damage or healing.                                  *)
UpdateCombatant(w) ==
    /\ w \in there /\ Workspace
    /\ \E effect \in {"harm", "heal"} :
         LET struck == [board EXCEPT ![w].hp = Hurt(@, effect)]
         IN  board' = IF effect = "heal" \/ ~Sustains(board, w) THEN struck
                      ELSE IF Down(struck, w) /\ ~Down(board, w) THEN Broken(struck, {w})
                      ELSE Queued(struck, {w}, Damage)

(* updateTurnState: a concentration begins (nobody gives one to a combatant *)
(* that is down) ...                                                        *)
Concentrate(w) ==
    /\ w \in there /\ ~Down(board, w) /\ board[w].on = None /\ Workspace
    /\ board' = [board EXCEPT ![w].on = "spell", ![w].saves = {}]

(* ... ends, or its first save is rolled.                                   *)
EndConcentration(w) ==
    /\ w \in there /\ Sustains(board, w) /\ Workspace
    /\ board' = Broken(board, {w})

PassSave(w) ==
    /\ w \in there /\ Workspace
    /\ \E id \in board[w].saves : board' = [board EXCEPT ![w].saves = @ \ {id}]

(* updateCombatant puts a condition on t that w sustains.                   *)
Link(w, t) ==
    /\ {w, t} \subseteq there /\ ~Down(board, w) /\ w \notin board[t].linked
    /\ Workspace
    /\ board' = [board EXCEPT ![t].linked = @ \cup {w}]

(* removeCombatant                                                          *)
Remove(w) ==
    /\ w \in there /\ w # turn.of /\ Tracked
    /\ board' = Broken(board, {w}) /\ there' = there \ {w}
    /\ UNCHANGED <<used, slots, turn, chain, passed, fresh>>

Next ==
    \/ \E c \in Chain : \/ Preview(c) \/ Undo(c)
                        \/ \E role \in {"dm", "player"} : Apply(c, role)
    \/ \E w \in Who : \/ BeginTurn(w) \/ UpdateCombatant(w) \/ Concentrate(w)
                      \/ EndConcentration(w) \/ PassSave(w) \/ Remove(w)
    \/ \E w, t \in Who : Link(w, t)

Spec == Init /\ [][Next]_vars

-----------------------------------------------------------------------------
(* Properties.                                                              *)

(* Undoing a chain when the fight is again as the chain left it puts back   *)
(* everything the chain took, from bystanders too: hit points, whose        *)
(* concentration stands, what it sustained and the saves it had queued.     *)
(* Chains undone in reverse order unwind the whole way.                     *)
UndoIsExact ==
    [][\A c \in Chain :
         Undo(c) /\ AsLeft(chain[c]) => \A v \in there : board'[v] = chain[c].was[v]]_vars

Count(w, cs) == Cardinality({c \in cs : chain[c].actor = w})

(* Nobody acts more often than it can pay for: the chains that stand are    *)
(* counted against the actor's actions of the turn and against its slots,   *)
(* and are never more than it has, whatever was undone in between.          *)
SpendsAreCovered ==
    \A w \in Who :
      /\ Count(w, fresh) <= used[w] /\ used[w] <= MaxActions
      /\ Count(w, {c \in Chain : chain[c].state = "applied" /\ chain[c].casts}) <= slots[w]
      /\ slots[w] <= MaxSlots

(* Nobody who is down concentrates on anything or sustains a condition.     *)
DownDoNotConcentrate ==
    \A w \in there : Down(board, w) => ~Sustains(board, w)

(* A player's action lands in the turn it was previewed in, though the      *)
(* pointer may have gone on and come back.                                  *)
LandsInItsTurn ==
    [][\A c \in passed : ~Apply(c, "player")]_vars
=============================================================================
