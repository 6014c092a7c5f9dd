-------------------------- MODULE ActionChainProofs --------------------------
(***************************************************************************)
(* Facts for any combatants, chains, hit points and limits.  A player's    *)
(* action lands in the turn it was previewed in: the turn's version only   *)
(* grows, so a preview of an earlier turn bears an older one for good.     *)
(* Nobody who is down concentrates, whatever is applied, undone or written *)
(* in whatever order.  The chains that stand are paid for.  And an undo    *)
(* that finds the fight as its chain left it gives everything back: what   *)
(* it does not put back of a row, the chain left alone (GivesBack).        *)
(***************************************************************************)
EXTENDS ActionChain, FiniteSetTheorems, TLAPS

(* A pending preview bears the version of the turn it was made in; one      *)
(* that saw its turn pass bears an older version than the turn now.  A      *)
(* chain id is never previewed twice.                                       *)
VersionsAge ==
    /\ turn \in [of : Who, version : Nat]
    /\ chain = [c \in Chain |-> chain[c]]
    /\ passed \subseteq Chain
    /\ \A c \in Chain : chain[c].state = "pending" =>
         chain[c].version \in Nat /\ chain[c].version <= turn.version
    /\ \A c \in passed :
         /\ chain[c].state # "none"
         /\ chain[c].state = "pending" => chain[c].version < turn.version

(* The fight starts with no preview at all.                                 *)
LEMMA VersionsAtStart == Init => VersionsAge
BY DEF Init, VersionsAge, NoChain

(* Every handler keeps it: previews take the version of now, a new turn     *)
(* raises it, and nothing else touches a pending chain.                     *)
LEMMA VersionsStep == VersionsAge /\ [Next]_vars => VersionsAge'
<1> SUFFICES ASSUME VersionsAge, [Next]_vars PROVE VersionsAge'
  OBVIOUS
<1> USE DEF VersionsAge
<1>1. ASSUME NEW c \in Chain, Preview(c) PROVE VersionsAge'
  <2>1. PICK a \in there, ts \in SUBSET there, action \in Actions :
          chain' = [chain EXCEPT ![c] =
            [state |-> "pending", actor |-> a, targets |-> ts,
             effect |-> action.effect, casts |-> action.casts,
             version |-> turn.version]]
    BY <1>1 DEF Preview
  <2>2. /\ chain'[c].version = turn.version
        /\ \A d \in Chain \ {c} : chain'[d] = chain[d]
        /\ chain' = [d \in Chain |-> chain'[d]]
    BY <2>1 DEF Actions
  <2>3. c \notin passed /\ UNCHANGED <<turn, passed>>
    BY <1>1 DEF Preview
  <2> QED
    BY <2>2, <2>3
<1>2. ASSUME NEW c \in Chain, NEW role, Apply(c, role) PROVE VersionsAge'
  BY <1>2 DEF Apply
<1>3. ASSUME NEW c \in Chain, Undo(c) PROVE VersionsAge'
  BY <1>3 DEF Undo
<1>4. ASSUME NEW w \in Who, BeginTurn(w) PROVE VersionsAge'
  <2>1. /\ turn' = [of |-> w, version |-> turn.version + 1] /\ chain' = chain
        /\ passed' = passed \cup {c \in Chain : chain[c].state = "pending"}
    BY <1>4 DEF BeginTurn
  <2>2. turn.version \in Nat /\ turn'.version = turn.version + 1
    BY <2>1
  <2>3. turn' \in [of : Who, version : Nat]
    BY <2>1, <2>2
  <2> QED
    BY <2>1, <2>2, <2>3
<1>5. ASSUME UNCHANGED <<turn, chain, passed>> PROVE VersionsAge'
  BY <1>5
<1>6. ASSUME NEW w \in Who,
             \/ UpdateCombatant(w) \/ Concentrate(w) \/ EndConcentration(w)
             \/ PassSave(w) \/ Remove(w) \/ \E t \in Who : Link(w, t)
      PROVE  UNCHANGED <<turn, chain, passed>>
  BY <1>6 DEF UpdateCombatant, Concentrate, EndConcentration, PassSave, Remove,
              Link, Workspace, Tracked
<1>7. CASE UNCHANGED vars
  BY <1>5, <1>7 DEF vars
<1>8. CASE Next
  BY <1>1, <1>2, <1>3, <1>4, <1>5, <1>6, <1>8 DEF Next
<1> QED
  BY <1>7, <1>8

(* A player's apply asks for the version of now, which a chain whose turn   *)
(* has passed no longer bears.                                              *)
LEMMA StaleIsRefused ==
    ASSUME VersionsAge, NEW c \in passed PROVE ~Apply(c, "player")
<1> SUFFICES ASSUME Apply(c, "player") PROVE FALSE
  OBVIOUS
<1>1. chain[c].state = "pending" /\ ("player" # "dm" => SameTurn(c))
  BY Zenon DEF Apply
<1> QED
  BY <1>1 DEF VersionsAge, SameTurn

(* A player's action lands in the turn it was previewed in, though the      *)
(* pointer may have gone on and come back (issue 1316).                     *)
THEOREM ActionsLandInTheirTurn == Spec => LandsInItsTurn
<1>1. Init => VersionsAge
  BY VersionsAtStart
<1>2. VersionsAge /\ [Next]_vars => VersionsAge'
  BY VersionsStep
<1>3. VersionsAge => \A c \in passed : ~Apply(c, "player")
  BY StaleIsRefused
<1>4. VersionsAge /\ [Next]_vars => [\A c \in passed : ~Apply(c, "player")]_vars
  BY <1>3
<1> QED
  BY <1>1, <1>2, <1>4, PTL DEF Spec, LandsInItsTurn
-----------------------------------------------------------------------------
(* Nobody who is down concentrates.                                         *)

(* The fight b lets nobody there concentrate who is down.                   *)
Calm(b) == \A w \in there : Down(b, w) => ~Sustains(b, w)

(* What an action does to anybody: conditions that concentration sustains   *)
(* only go; those who are no target keep their hit points; who was down     *)
(* does not begin to concentrate.                                           *)
OnlyTakes(before, after, targets) ==
    \A v \in Who :
      /\ after[v].linked \subseteq before[v].linked
      /\ v \notin targets => after[v].hp = before[v].hp
      /\ Down(before, v) => after[v].on \in {None, before[v].on}

PreviewOK(k) == k.actor \in Who /\ k.targets \subseteq Who

SnapshotOK(k) ==
    /\ k.actor \in Who /\ k.was \in [Who -> Row] /\ k.after \in [Who -> Row]
    /\ Calm(k.was) /\ OnlyTakes(k.was, k.after, k.targets)
    /\ k.targets \cap k.cascades = {}

(* An undo that finds the fight as the chain left it must not bring a       *)
(* concentration back to somebody down: the snapshots are calm too, and     *)
(* nothing the chain left behind exceeds them.                              *)
CalmInv ==
    /\ there \subseteq Who /\ board \in [Who -> Row] /\ Calm(board)
    /\ chain = [c \in Chain |-> chain[c]]
    /\ \A c \in Chain : /\ chain[c].state = "pending" => PreviewOK(chain[c])
                        /\ chain[c].state = "applied" => SnapshotOK(chain[c])

(* Harm and healing stay between nothing and all.                           *)
LEMMA HurtInRange ==
    ASSUME NEW hp \in 0..MaxHp, NEW effect PROVE Hurt(hp, effect) \in 0..MaxHp
BY BoundsAreNat DEF Hurt

(* Breaking concentration leaves hit points alone, ends what it sustained   *)
(* and adds nothing.                                                        *)
LEMMA BrokenTakes ==
    ASSUME NEW b \in [Who -> Row], NEW ws
    PROVE  /\ Broken(b, ws) \in [Who -> Row]
           /\ \A v \in Who :
                /\ Broken(b, ws)[v].hp = b[v].hp
                /\ Broken(b, ws)[v].linked \subseteq b[v].linked
                /\ Broken(b, ws)[v].on \in {None, b[v].on}
                /\ v \in there => Broken(b, ws)[v].linked = b[v].linked \ ws
                /\ v \in there /\ v \in ws => Broken(b, ws)[v].on = None
<1> DEFINE cut(v) == [b[v] EXCEPT !.linked = @ \ ws,
                                  !.on = IF v \in ws THEN None ELSE @,
                                  !.saves = IF v \in ws THEN {} ELSE @]
<1>1. \A v \in Who : b[v] \in Row
  OBVIOUS
<1>2. ASSUME NEW v \in Who
      PROVE  /\ cut(v) \in Row
             /\ cut(v).hp = b[v].hp /\ cut(v).linked = b[v].linked \ ws
             /\ cut(v).on = IF v \in ws THEN None ELSE b[v].on
  <2> DEFINE x == b[v]
             on == IF v \in ws THEN None ELSE x.on
             saves == IF v \in ws THEN {} ELSE x.saves
             linked == x.linked \ ws
  <2>1. x \in Row
    OBVIOUS
  <2>2. on \in Label /\ saves \in SUBSET (Chain \cup {Damage}) /\ linked \in SUBSET Who
    BY <2>1 DEF Row, Label
  <2>3. cut(v) = [x EXCEPT !.linked = linked, !.on = on, !.saves = saves]
    OBVIOUS
  <2> HIDE DEF cut, on, saves, linked
  <2> HIDE DEF x
  <2>4. cut(v) \in Row
    BY <2>1, <2>2, <2>3 DEF Row
  <2>5. cut(v).hp = x.hp /\ cut(v).linked = linked /\ cut(v).on = on
    BY <2>1, <2>2, <2>3 DEF Row
  <2> QED
    BY <2>4, <2>5 DEF on, linked, x
<1>3. Broken(b, ws) = [v \in Who |-> IF v \notin there THEN b[v] ELSE cut(v)]
  BY DEF Broken
<1> HIDE DEF cut
<1> QED
  BY <1>1, <1>2, <1>3

(* So it keeps the fight calm, and calms those it is about.                 *)
LEMMA BrokenCalms ==
    ASSUME NEW b \in [Who -> Row], NEW ws, there \subseteq Who,
           \A w \in there \ ws : Down(b, w) => ~Sustains(b, w)
    PROVE  Calm(Broken(b, ws))
BY BrokenTakes DEF Calm, Down, Sustains

(* Queueing saves changes nothing but saves.                                *)
LEMMA QueuedAdds ==
    ASSUME NEW b \in [Who -> Row], NEW ws, NEW id \in Chain \cup {Damage}
    PROVE  /\ Queued(b, ws, id) \in [Who -> Row]
           /\ \A v \in Who : /\ Queued(b, ws, id)[v].hp = b[v].hp
                             /\ Queued(b, ws, id)[v].linked = b[v].linked
                             /\ Queued(b, ws, id)[v].on = b[v].on
BY DEF Queued, Row

(* Paying changes no hit points, only takes links, and starts a             *)
(* concentration at most for an actor who stands.                           *)
LEMMA PaidTakes ==
    ASSUME NEW k, PreviewOK(k), board \in [Who -> Row]
    PROVE  /\ Paid(k) \in [Who -> Row]
           /\ \A v \in Who :
                /\ Paid(k)[v].hp = board[v].hp
                /\ Paid(k)[v].linked \subseteq board[v].linked
                /\ v # k.actor \/ Down(board, v) => Paid(k)[v].on \in {None, board[v].on}
<1> DEFINE b == IF Breaks(k) THEN Broken(board, {k.actor}) ELSE board
<1>1. /\ b \in [Who -> Row]
      /\ \A v \in Who : /\ b[v].hp = board[v].hp
                        /\ b[v].linked \subseteq board[v].linked
                        /\ b[v].on \in {None, board[v].on}
  BY BrokenTakes
<1>2. CASE ~k.casts
  BY <1>1, <1>2 DEF Paid
<1>3. CASE k.casts
  <2> DEFINE on == IF Down(b, k.actor) THEN b[k.actor].on ELSE "cast"
  <2>1. Paid(k) = [b EXCEPT ![k.actor].saves = {}, ![k.actor].on = on]
    BY <1>1, <1>3 DEF Paid, PreviewOK
  <2>2. on \in Label
    BY <1>1 DEF Row, Label, PreviewOK
  <2> HIDE DEF b, on
  <2>3. /\ Paid(k) \in [Who -> Row]
        /\ \A v \in Who :
             /\ Paid(k)[v].hp = b[v].hp
             /\ Paid(k)[v].linked = b[v].linked
             /\ v # k.actor => Paid(k)[v].on = b[v].on
        /\ Paid(k)[k.actor].on = on
    BY <2>1, <2>2, <1>1 DEF Row, PreviewOK
  <2>4. Down(board, k.actor) => on = b[k.actor].on
    BY <1>1 DEF on, Down, PreviewOK
  <2> QED
    BY <2>3, <2>4, <1>1
<1> QED
  BY <1>2, <1>3 DEF PreviewOK

(* The whole chain: as OnlyTakes says, and the hit points and the           *)
(* concentrations of everybody there.                                       *)
LEMMA AppliedTakes ==
    ASSUME NEW k, NEW c \in Chain, PreviewOK(k), board \in [Who -> Row],
           there \subseteq Who
    PROVE  /\ Applied(k, c) \in [Who -> Row]
           /\ OnlyTakes(board, Applied(k, c), k.targets)
           /\ \A v \in k.targets :
                Applied(k, c)[v].hp = Hurt(board[v].hp, k.effect)
           /\ \A v \in Who \ {k.actor} : Applied(k, c)[v].on \in {None, board[v].on}
           /\ \A w \in Dropped(k) \cap there :
                ~Sustains(Applied(k, c), w)
<1> DEFINE queue == Shaken(k) \ (IF k.casts THEN {k.actor} ELSE {})
           saved == Queued(Paid(k), queue, c)
           struck == [v \in Who |->
                        IF v \in k.targets
                        THEN [saved[v] EXCEPT !.hp = Hurt(@, k.effect)] ELSE saved[v]]
<1>1. Applied(k, c) = Broken(struck, Dropped(k))
  BY DEF Applied
<1>2. /\ saved \in [Who -> Row]
      /\ \A v \in Who : /\ saved[v].hp = board[v].hp
                        /\ saved[v].linked \subseteq board[v].linked
                        /\ v # k.actor \/ Down(board, v) =>
                             saved[v].on \in {None, board[v].on}
  BY PaidTakes, QueuedAdds
<1> HIDE DEF saved
<1>3. /\ struck \in [Who -> Row]
      /\ \A v \in Who :
           /\ struck[v].hp = IF v \in k.targets THEN Hurt(board[v].hp, k.effect)
                             ELSE board[v].hp
           /\ struck[v].linked = saved[v].linked /\ struck[v].on = saved[v].on
  <2>1. \A v \in Who : Hurt(saved[v].hp, k.effect) \in 0..MaxHp
    BY <1>2, HurtInRange DEF Row
  <2> QED
    BY <2>1, <1>2 DEF Row
<1> HIDE DEF struck
<1>4. /\ Applied(k, c) \in [Who -> Row]
      /\ \A v \in Who :
           /\ Applied(k, c)[v].hp = struck[v].hp
           /\ Applied(k, c)[v].linked \subseteq struck[v].linked
           /\ Applied(k, c)[v].on \in {None, struck[v].on}
           /\ v \in there => Applied(k, c)[v].linked = struck[v].linked \ Dropped(k)
           /\ v \in there /\ v \in Dropped(k) => Applied(k, c)[v].on = None
  BY <1>1, <1>3, BrokenTakes
<1>5. OnlyTakes(board, Applied(k, c), k.targets)
  BY <1>2, <1>3, <1>4 DEF OnlyTakes
<1>6. \A v \in k.targets : Applied(k, c)[v].hp = Hurt(board[v].hp, k.effect)
  BY <1>3, <1>4 DEF PreviewOK
<1>7. \A v \in Who \ {k.actor} : Applied(k, c)[v].on \in {None, board[v].on}
  BY <1>2, <1>3, <1>4
<1>8. \A w \in Dropped(k) \cap there : ~Sustains(Applied(k, c), w)
  BY <1>4 DEF Sustains
<1> QED
  BY <1>4, <1>5, <1>6, <1>7, <1>8

(* An action keeps the fight calm: whoever was down stays so, whoever is    *)
(* dropped loses its concentration, and an actor that drops itself while it *)
(* concentrates is the one exception, which Env leaves out.                 *)
LEMMA ApplyCalms ==
    ASSUME CalmInv, "self_drop" \notin Env, NEW c \in Chain, NEW role, Apply(c, role)
    PROVE  CalmInv'
<1> DEFINE k == chain[c]
           after == Applied(k, c)
<1>1. /\ k.state = "pending" /\ PreviewOK(k) /\ k.targets \subseteq there
      /\ k.actor \in there
      /\ k.actor \in k.targets /\ Down(after, k.actor) => ~Sustains(after, k.actor)
      /\ board' = after /\ there' = there
      /\ chain' = [chain EXCEPT ![c] =
             [state |-> "applied", actor |-> k.actor, targets |-> k.targets,
              casts |-> k.casts, broke |-> Breaks(k), cascades |-> Cascades(k),
              was |-> board, after |-> after]]
  BY DEF Apply, CalmInv
<1>2. /\ after \in [Who -> Row] /\ OnlyTakes(board, after, k.targets)
      /\ \A v \in k.targets : after[v].hp = Hurt(board[v].hp, k.effect)
      /\ \A v \in Who \ {k.actor} : after[v].on \in {None, board[v].on}
      /\ \A w \in Dropped(k) \cap there : ~Sustains(after, w)
  BY <1>1, AppliedTakes DEF CalmInv
<1> HIDE DEF k, after
<1>3. ASSUME NEW w \in there, Down(after, w) PROVE ~Sustains(after, w)
  <2>1. CASE Down(board, w)
    BY <2>1, <1>2 DEF CalmInv, Calm, Sustains, OnlyTakes
  <2>2. CASE ~Down(board, w)
    <3>1. w \in k.targets /\ after[w].hp = Hurt(board[w].hp, k.effect)
      BY <2>2, <1>2, <1>3 DEF CalmInv, OnlyTakes, Down
    <3>2. k.effect = "harm"
      BY <3>1, <2>2, <1>3, BoundsAreNat DEF Hurt, Down, CalmInv, Row
    <3>3. CASE w = k.actor
      BY <3>1, <3>3, <1>1, <1>3
    <3>4. CASE w # k.actor /\ Sustains(board, w)
      BY <3>1, <3>2, <3>4, <1>1, <1>2, <1>3 DEF Dropped, Shaken, Down
    <3>5. CASE w # k.actor /\ ~Sustains(board, w)
      BY <3>5, <1>2 DEF CalmInv, OnlyTakes, Sustains
    <3> QED
      BY <3>3, <3>4, <3>5
  <2> QED
    BY <2>1, <2>2
<1>4. board' \in [Who -> Row] /\ Calm(board)'
  BY <1>1, <1>2, <1>3 DEF Calm, Down, Sustains
<1>5. /\ chain'[c].state = "applied" /\ chain'[c].actor = k.actor
      /\ chain'[c].targets = k.targets
      /\ chain'[c].was = board /\ chain'[c].after = after
      /\ k.targets \cap chain'[c].cascades = {}
      /\ \A d \in Chain \ {c} : chain'[d] = chain[d]
      /\ chain' = [d \in Chain |-> chain'[d]]
  BY <1>1 DEF CalmInv, Cascades
<1>6. SnapshotOK(chain[c])'
  BY <1>1, <1>2, <1>5 DEF SnapshotOK, CalmInv, PreviewOK, Calm, Down, Sustains, OnlyTakes
<1>7. \A d \in Chain \ {c} : /\ PreviewOK(chain[d]) => PreviewOK(chain[d])'
                             /\ SnapshotOK(chain[d]) => SnapshotOK(chain[d])'
  BY <1>1, <1>5 DEF SnapshotOK, PreviewOK, Calm, Down, Sustains, OnlyTakes
<1> QED
  BY <1>1, <1>4, <1>5, <1>6, <1>7 DEF CalmInv

(* What the undo of a chain restores is no more than what was there before  *)
(* it, if the fight is as the chain left it.                                *)
LEMMA UndoTakes ==
    ASSUME CalmInv, NEW c \in Chain, chain[c].state = "applied", AsLeft(chain[c]),
           NEW b, b = Refocused(Restored(chain[c], c), chain[c])
    PROVE  /\ b \in [Who -> Row]
           /\ \A v \in there :
                /\ b[v].hp = chain[c].was[v].hp
                /\ b[v].linked \subseteq chain[c].was[v].linked
                /\ Down(b, v) => b[v].on \in {None, chain[c].was[v].on}
<1> DEFINE k == chain[c]
           r == Restored(k, c)
<1>1. /\ k.was \in [Who -> Row] /\ k.actor \in Who
      /\ OnlyTakes(k.was, k.after, k.targets) /\ k.targets \cap k.cascades = {}
      /\ \A v \in there : v \in Who /\ board[v] = k.after[v]
  BY DEF CalmInv, SnapshotOK, AsLeft
<1>2. board \in [Who -> Row]
  BY DEF CalmInv
<1> HIDE DEF k
<1> DEFINE back(v) ==
             [hp |-> k.was[v].hp, linked |-> k.was[v].linked,
              on |-> IF Reverts(k, v) THEN k.was[v].on ELSE board[v].on,
              saves |-> (board[v].saves \ {c})
                          \cup (IF k.broke THEN k.was[v].saves ELSE {})]
           row(v) == CASE v \in k.targets \cap there -> back(v)
                       [] v \in k.cascades \cap there ->
                            [board[v] EXCEPT !.linked = k.was[v].linked, !.saves = @ \ {c}]
                       [] OTHER -> board[v]
<1>row. r = [v \in Who |-> row(v)]
  BY DEF Restored
<1> HIDE DEF row, r
<1>3. ASSUME NEW v \in Who
      PROVE  /\ r[v] \in Row
             /\ v \in there =>
                  /\ r[v].hp = k.was[v].hp /\ r[v].linked \subseteq k.was[v].linked
                  /\ r[v].on \in {k.was[v].on, board[v].on}
  <2>1. board[v] \in Row /\ k.was[v] \in Row
    BY <1>1, <1>2
  <2>2. CASE v \in k.targets \cap there
    <3> HIDE DEF back
    <3>1. row(v) = back(v)
      BY <2>2, <1>1 DEF row
    <3>2. /\ back(v) \in Row
          /\ back(v).hp = k.was[v].hp /\ back(v).linked = k.was[v].linked
          /\ back(v).on \in {k.was[v].on, board[v].on}
      BY <2>1 DEF Row, back
    <3> QED
      BY <3>1, <3>2, <1>row
  <2>3. CASE v \notin k.targets \cap there /\ v \in k.cascades \cap there
    <3>1. r[v] = [board[v] EXCEPT !.linked = k.was[v].linked, !.saves = @ \ {c}]
      BY <2>3, <1>row DEF row
    <3>2. board[v].hp = k.was[v].hp
      BY <2>3, <1>1 DEF OnlyTakes
    <3>3. board[v].saves \ {c} \in SUBSET (Chain \cup {Damage})
          /\ k.was[v].linked \in SUBSET Who /\ None \in Label
      BY <2>1 DEF Row, Label
    <3>4. r[v] \in Row /\ r[v].hp = board[v].hp /\ r[v].linked = k.was[v].linked
          /\ r[v].on = board[v].on
      BY <3>1, <3>3, <2>1 DEF Row
    <3> QED
      BY <3>2, <3>4
  <2>4. CASE v \notin k.targets \cap there /\ v \notin k.cascades \cap there
    <3>1. r[v] = board[v]
      BY <2>4, <1>row DEF row
    <3>2. v \in there => board[v].hp = k.was[v].hp
                         /\ board[v].linked \subseteq k.was[v].linked
      BY <2>4, <1>1 DEF OnlyTakes
    <3> QED
      BY <3>1, <3>2, <2>1
  <2> QED
    BY <2>2, <2>3, <2>4
<1>4. r = [v \in Who |-> r[v]]
  BY <1>row
<1>5. ASSUME NEW v \in Who
      PROVE  /\ b[v] \in Row /\ b[v].hp = r[v].hp /\ b[v].linked = r[v].linked
             /\ b[v].on \in {r[v].on, k.was[v].on}
  <2>1. b = Refocused(r, k)
    BY DEF k, r
  <2>2. k.was[v] \in Row
    BY <1>1
  <2>3. CASE k.broke /\ k.actor \notin k.targets /\ Reverts(k, k.actor)
    <3>1. b = [r EXCEPT ![k.actor].on = k.was[k.actor].on,
                        ![k.actor].saves = k.was[k.actor].saves]
      BY <2>1, <2>3 DEF Refocused
    <3>2. CASE v # k.actor
      BY <3>1, <3>2, <1>3, <1>4
    <3>3. CASE v = k.actor
      <4>1. b[v] = [r[v] EXCEPT !.on = k.was[v].on, !.saves = k.was[v].saves]
        BY <3>1, <3>3, <1>4, <1>1
      <4>2. k.was[v].on \in Label /\ k.was[v].saves \in SUBSET (Chain \cup {Damage})
            /\ {} \in SUBSET Who
        BY <2>2 DEF Row
      <4> QED
        BY <4>1, <4>2, <1>3 DEF Row
    <3> QED
      BY <3>2, <3>3
  <2>4. CASE ~(k.broke /\ k.actor \notin k.targets /\ Reverts(k, k.actor))
    BY <2>1, <2>4, <1>3 DEF Refocused
  <2> QED
    BY <2>3, <2>4
<1>6. b = [v \in Who |-> b[v]]
  BY <1>4 DEF Refocused, k, r
<1>7. b \in [Who -> Row]
  BY <1>5, <1>6
<1>8. ASSUME NEW v \in there
      PROVE  /\ b[v].hp = k.was[v].hp /\ b[v].linked \subseteq k.was[v].linked
             /\ Down(b, v) => b[v].on \in {None, k.was[v].on}
  BY <1>1, <1>3, <1>5 DEF OnlyTakes, Down
<1> QED
  BY <1>7, <1>8 DEF k

(* An undo of a fight that is as the chain left it keeps it calm.           *)
LEMMA UndoCalms ==
    ASSUME CalmInv, "stale_undo" \notin Env, NEW c \in Chain, Undo(c)
    PROVE  CalmInv'
<1>1. /\ chain[c].state = "applied" /\ AsLeft(chain[c]) /\ there' = there
      /\ board' = Refocused(Restored(chain[c], c), chain[c])
      /\ chain' = [chain EXCEPT ![c] = [state |-> "undone"]]
  BY DEF Undo
<1>2. /\ board' \in [Who -> Row]
      /\ \A v \in there :
           /\ board'[v].hp = chain[c].was[v].hp
           /\ board'[v].linked \subseteq chain[c].was[v].linked
           /\ Down(board', v) => board'[v].on \in {None, chain[c].was[v].on}
  BY <1>1, UndoTakes
<1>3. Calm(chain[c].was)
  BY <1>1 DEF CalmInv, SnapshotOK
<1>4. \A w \in there : Down(board', w) => ~Sustains(board', w)
  BY <1>2, <1>3 DEF Calm, Down, Sustains
<1>5. Calm(board)'
  BY <1>1, <1>4 DEF Calm, Down, Sustains
<1>6. /\ chain'[c].state = "undone" /\ \A d \in Chain \ {c} : chain'[d] = chain[d]
      /\ chain' = [d \in Chain |-> chain'[d]]
  BY <1>1 DEF CalmInv
<1>7. \A d \in Chain \ {c} : /\ PreviewOK(chain[d]) => PreviewOK(chain[d])'
                             /\ SnapshotOK(chain[d]) => SnapshotOK(chain[d])'
  BY <1>1, <1>6 DEF SnapshotOK, PreviewOK, Calm, Down, Sustains, OnlyTakes
<1> QED
  BY <1>1, <1>2, <1>5, <1>6, <1>7 DEF CalmInv

(* The tracker and the turn workspace: what they write is calm, and the     *)
(* snapshots are not theirs.                                                *)
LEMMA WritesCalm ==
    ASSUME CalmInv, there' = there, chain' = chain, board' \in [Who -> Row],
           \A w \in there : Down(board', w) => ~Sustains(board', w)
    PROVE  CalmInv'
<1>1. Calm(board)'
  BY DEF Calm, Down, Sustains
<1>2. \A d \in Chain : /\ PreviewOK(chain[d]) => PreviewOK(chain[d])'
                       /\ SnapshotOK(chain[d]) => SnapshotOK(chain[d])'
  BY DEF SnapshotOK, PreviewOK, Calm, Down, Sustains, OnlyTakes
<1> QED
  BY <1>1, <1>2 DEF CalmInv

(* Damage, healing, concentration and its links keep the fight calm. *)
LEMMA TrackerCalms ==
    ASSUME CalmInv, NEW w \in there,
           UpdateCombatant(w) \/ EndConcentration(w) \/ PassSave(w) \/ Concentrate(w)
             \/ \E t \in Who : Link(w, t)
    PROVE  CalmInv'
<1>1. there' = there /\ chain' = chain /\ w \in Who /\ board \in [Who -> Row]
  BY DEF UpdateCombatant, EndConcentration, PassSave, Concentrate, Link, Workspace,
         CalmInv
<1>2. \A v \in there : Down(board, v) => ~Sustains(board, v)
  BY DEF CalmInv, Calm
<1>3. CASE UpdateCombatant(w)
  <2>1. PICK effect \in {"harm", "heal"} :
          LET struck == [board EXCEPT ![w].hp = Hurt(@, effect)]
          IN  board' = IF effect = "heal" \/ ~Sustains(board, w) THEN struck
                       ELSE IF Down(struck, w) /\ ~Down(board, w) THEN Broken(struck, {w})
                       ELSE Queued(struck, {w}, Damage)
    BY <1>3 DEF UpdateCombatant
  <2> DEFINE hp == Hurt(board[w].hp, effect)
             struck == [board EXCEPT ![w].hp = hp]
  <2>2. hp \in 0..MaxHp /\ (effect = "heal" /\ hp = 0 => board[w].hp = 0)
    BY <1>1, HurtInRange, BoundsAreNat DEF Row, Hurt
  <2>3. board' = IF effect = "heal" \/ ~Sustains(board, w) THEN struck
                 ELSE IF Down(struck, w) /\ ~Down(board, w) THEN Broken(struck, {w})
                 ELSE Queued(struck, {w}, Damage)
    BY <2>1
  <2> HIDE DEF hp
  <2>4. /\ struck \in [Who -> Row] /\ struck[w].hp = hp
        /\ \A v \in Who : /\ v # w => struck[v].hp = board[v].hp
                          /\ struck[v].linked = board[v].linked
                          /\ struck[v].on = board[v].on
    BY <1>1, <2>2 DEF Row
  <2> HIDE DEF struck
  <2>5. \A v \in there : Sustains(struck, v) = Sustains(board, v)
    BY <2>4 DEF Sustains, CalmInv
  <2>6. \A v \in there \ {w} : Down(struck, v) => ~Sustains(struck, v)
    BY <2>4, <2>5, <1>2 DEF Down, CalmInv
  <2>7. CASE effect = "heal" \/ ~Sustains(board, w)
    <3>1. board' = struck
      BY <2>3, <2>7
    <3>2. Down(struck, w) => ~Sustains(struck, w)
      BY <2>2, <2>4, <2>5, <2>7, <1>2 DEF Down
    <3> QED
      BY <3>1, <3>2, <2>4, <2>6, <1>1, WritesCalm
  <2>8. CASE ~(effect = "heal" \/ ~Sustains(board, w)) /\ Down(struck, w) /\ ~Down(board, w)
    <3>1. board' = Broken(struck, {w})
      BY <2>3, <2>8
    <3>2. Calm(Broken(struck, {w})) /\ Broken(struck, {w}) \in [Who -> Row]
      BY <2>4, <2>6, BrokenCalms, BrokenTakes DEF CalmInv
    <3> QED
      BY <3>1, <3>2, <1>1, WritesCalm DEF Calm
  <2>9. CASE ~(effect = "heal" \/ ~Sustains(board, w)) /\ ~(Down(struck, w) /\ ~Down(board, w))
    <3>1. board' = Queued(struck, {w}, Damage)
      BY <2>3, <2>9
    <3>2. ~Down(struck, w)
      BY <2>9, <1>2
    <3>3. /\ board' \in [Who -> Row]
          /\ \A v \in Who : /\ board'[v].hp = struck[v].hp
                            /\ board'[v].linked = struck[v].linked
                            /\ board'[v].on = struck[v].on
      BY <3>1, <2>4, QueuedAdds
    <3>4. \A v \in there : Down(board', v) => ~Sustains(board', v)
      BY <3>2, <3>3, <2>6 DEF Down, Sustains, CalmInv
    <3> QED
      BY <3>3, <3>4, <1>1, WritesCalm
  <2> QED
    BY <2>7, <2>8, <2>9
<1>4. CASE EndConcentration(w)
  <2>1. board' = Broken(board, {w})
    BY <1>4 DEF EndConcentration
  <2>2. Calm(Broken(board, {w})) /\ Broken(board, {w}) \in [Who -> Row]
    BY <1>1, <1>2, BrokenCalms, BrokenTakes DEF CalmInv
  <2> QED
    BY <2>1, <2>2, <1>1, WritesCalm DEF Calm
<1>5. CASE PassSave(w)
  <2>1. PICK id \in board[w].saves : board' = [board EXCEPT ![w].saves = @ \ {id}]
    BY <1>5 DEF PassSave
  <2> DEFINE saves == board[w].saves \ {id}
  <2>3. board' = [board EXCEPT ![w].saves = saves]
    BY <2>1
  <2>4. saves \in SUBSET (Chain \cup {Damage})
    BY <1>1 DEF Row
  <2> HIDE DEF saves
  <2>2. /\ board' \in [Who -> Row]
        /\ \A v \in Who : /\ board'[v].hp = board[v].hp
                          /\ board'[v].linked = board[v].linked
                          /\ board'[v].on = board[v].on
    <3>1. [board[w] EXCEPT !.saves = saves] \in Row
      BY <2>4, <1>1 DEF Row
    <3>2. /\ [board[w] EXCEPT !.saves = saves].hp = board[w].hp
          /\ [board[w] EXCEPT !.saves = saves].linked = board[w].linked
          /\ [board[w] EXCEPT !.saves = saves].on = board[w].on
      BY <2>4, <1>1 DEF Row
    <3>3. /\ board'[w] = [board[w] EXCEPT !.saves = saves]
          /\ \A v \in Who \ {w} : board'[v] = board[v]
          /\ board' = [v \in Who |-> board'[v]]
      BY <2>3, <1>1
    <3>4. \A v \in Who : board[v] \in Row /\ board'[v] \in Row
      BY <3>1, <3>3, <1>1
    <3>5. board' \in [Who -> Row]
      BY <3>3, <3>4
    <3>6. ASSUME NEW v \in Who
          PROVE  /\ board'[v].hp = board[v].hp /\ board'[v].linked = board[v].linked
                 /\ board'[v].on = board[v].on
      BY <3>2, <3>3
    <3> QED
      BY <3>5, <3>6
  <2> QED
    BY <2>2, <1>1, <1>2, WritesCalm DEF Down, Sustains, CalmInv
<1>6. CASE Concentrate(w)
  <2>1. ~Down(board, w) /\ board' = [board EXCEPT ![w].on = "spell", ![w].saves = {}]
    BY <1>6 DEF Concentrate
  <2>2. /\ board' \in [Who -> Row]
        /\ \A v \in Who : /\ board'[v].hp = board[v].hp
                          /\ board'[v].linked = board[v].linked
                          /\ v # w => board'[v].on = board[v].on
    <3> DEFINE row == [board[w] EXCEPT !.on = "spell", !.saves = {}]
    <3>1. row \in Row
      <4> DEFINE held == [board[w] EXCEPT !.on = "spell"]
      <4>1. "spell" \in Label
        BY DEF Label
      <4>2. held \in Row
        BY ONLY <1>1, <4>1 DEF Row
      <4>3. row = [held EXCEPT !.saves = {}]
        OBVIOUS
      <4> HIDE DEF held, row
      <4> QED
        BY ONLY <4>2, <4>3 DEF Row
    <3>2. row.hp = board[w].hp /\ row.linked = board[w].linked
      BY <1>1 DEF Row
    <3>3. /\ board'[w] = row /\ \A v \in Who \ {w} : board'[v] = board[v]
          /\ board' = [v \in Who |-> board'[v]]
      BY <2>1, <1>1
    <3> HIDE DEF row
    <3>4. \A v \in Who : board'[v] \in Row
      BY <3>1, <3>3, <1>1
    <3>5. board' \in [Who -> Row]
      BY <3>3, <3>4
    <3> QED
      BY <3>2, <3>3, <3>5
  <2> QED
    BY <2>1, <2>2, <1>1, <1>2, WritesCalm DEF Down, Sustains, CalmInv
<1>7. ASSUME NEW t \in Who, Link(w, t) PROVE CalmInv'
  <2>1. ~Down(board, w) /\ board' = [board EXCEPT ![t].linked = @ \cup {w}]
    BY <1>7 DEF Link
  <2>2. /\ board' \in [Who -> Row]
        /\ \A v \in Who : /\ board'[v].hp = board[v].hp
                          /\ board'[v].linked \subseteq board[v].linked \cup {w}
                          /\ board'[v].on = board[v].on
    BY <2>1, <1>1 DEF Row
  <2> QED
    BY <2>1, <2>2, <1>1, <1>2, WritesCalm DEF Down, Sustains, CalmInv
<1> QED
  BY <1>3, <1>4, <1>5, <1>6, <1>7

(* Whoever leaves sustains nothing any more.                                *)
LEMMA RemoveCalms ==
    ASSUME CalmInv, NEW w \in there, Remove(w) PROVE CalmInv'
<1>1. board' = Broken(board, {w}) /\ there' = there \ {w} /\ chain' = chain
  BY DEF Remove
<1>2. /\ board' \in [Who -> Row]
      /\ \A v \in Who : /\ board'[v].hp = board[v].hp
                        /\ board'[v].linked \subseteq board[v].linked
                        /\ board'[v].on \in {None, board[v].on}
  BY <1>1, BrokenTakes DEF CalmInv
<1>3. ASSUME NEW v \in there \ {w}, board'[v].hp = 0
      PROVE  board'[v].on = None /\ \A u \in there \ {w} : v \notin board'[u].linked
  BY <1>2, <1>3 DEF CalmInv, Calm, Down, Sustains
<1>4. Calm(board)'
  BY <1>1, <1>3 DEF Calm, Down, Sustains
<1>5. \A d \in Chain : /\ PreviewOK(chain[d]) => PreviewOK(chain[d])'
                       /\ SnapshotOK(chain[d]) => SnapshotOK(chain[d])'
  BY <1>1 DEF SnapshotOK, PreviewOK, Calm, Down, Sustains, OnlyTakes
<1> QED
  BY <1>1, <1>2, <1>4, <1>5 DEF CalmInv

(* A preview touches nobody.                                                *)
LEMMA PreviewCalms ==
    ASSUME CalmInv, NEW c \in Chain, Preview(c) PROVE CalmInv'
<1>1. PICK a \in there, ts \in SUBSET there, action \in Actions :
        chain' = [chain EXCEPT ![c] =
          [state |-> "pending", actor |-> a, targets |-> ts,
           effect |-> action.effect, casts |-> action.casts, version |-> turn.version]]
  BY DEF Preview
<1>2. /\ chain'[c].state = "pending" /\ chain'[c].actor = a /\ chain'[c].targets = ts
      /\ chain'[c].casts = action.casts
      /\ \A d \in Chain \ {c} : chain'[d] = chain[d]
      /\ chain' = [d \in Chain |-> chain'[d]]
  BY <1>1 DEF CalmInv
<1>3. a \in Who /\ ts \subseteq Who
  BY DEF CalmInv
<1>4. UNCHANGED <<there, board>>
  BY DEF Preview
<1>5. PreviewOK(chain[c])' /\ UNCHANGED <<there, board>>
  BY <1>2, <1>3, <1>4 DEF PreviewOK
<1>6. \A d \in Chain \ {c} : /\ PreviewOK(chain[d]) => PreviewOK(chain[d])'
                             /\ SnapshotOK(chain[d]) => SnapshotOK(chain[d])'
  BY <1>2, <1>5 DEF SnapshotOK, PreviewOK, Calm, Down, Sustains, OnlyTakes
<1>7. Calm(board)'
  BY <1>5 DEF CalmInv, Calm, Down, Sustains
<1> QED
  BY <1>2, <1>5, <1>6, <1>7 DEF CalmInv

(* At the start everybody stands.                                           *)
LEMMA CalmAtStart == Init => CalmInv
<1> SUFFICES ASSUME Init PROVE CalmInv
  OBVIOUS
<1>1. [hp |-> MaxHp, on |-> None, saves |-> {}, linked |-> {}] \in Row
  BY BoundsAreNat DEF Row, Label
<1>2. board \in [Who -> Row] /\ Calm(board)
  BY <1>1 DEF Init, Calm, Sustains
<1> QED
  BY <1>2 DEF Init, CalmInv, NoChain

(* Every step of the fight, a chain's included, keeps it calm. *)
LEMMA CalmStep ==
    ASSUME "self_drop" \notin Env, "stale_undo" \notin Env
    PROVE  CalmInv /\ [Next]_vars => CalmInv'
<1> SUFFICES ASSUME CalmInv, [Next]_vars PROVE CalmInv'
  OBVIOUS
<1>1. ASSUME NEW c \in Chain, Preview(c) PROVE CalmInv'
  BY <1>1, PreviewCalms
<1>2. ASSUME NEW c \in Chain, NEW role, Apply(c, role) PROVE CalmInv'
  BY <1>2, ApplyCalms
<1>3. ASSUME NEW c \in Chain, Undo(c) PROVE CalmInv'
  BY <1>3, UndoCalms
<1>4. ASSUME there' = there, board' = board, chain' = chain PROVE CalmInv'
  BY <1>4, WritesCalm DEF CalmInv, Calm
<1>5. ASSUME NEW w \in Who, BeginTurn(w) PROVE CalmInv'
  BY <1>4, <1>5 DEF BeginTurn
<1>6. ASSUME NEW w \in Who,
             UpdateCombatant(w) \/ EndConcentration(w) \/ PassSave(w)
               \/ Concentrate(w) \/ \E t \in Who : Link(w, t)
      PROVE  CalmInv'
  <2>1. w \in there
    BY <1>6 DEF UpdateCombatant, EndConcentration, PassSave, Concentrate, Link
  <2> QED
    BY <1>6, <2>1, TrackerCalms
<1>7. ASSUME NEW w \in Who, Remove(w) PROVE CalmInv'
  BY <1>7, RemoveCalms DEF Remove
<1>8. CASE UNCHANGED vars
  BY <1>4, <1>8 DEF vars
<1>9. CASE Next
  BY <1>1, <1>2, <1>3, <1>5, <1>6, <1>7, <1>9 DEF Next
<1> QED
  BY <1>8, <1>9

(* Nobody who is down concentrates on anything or sustains a condition,     *)
(* provided that no actor drops itself while it concentrates and undos come *)
(* while the fight is as their chain left it.                               *)
THEOREM TheDownDoNotConcentrate ==
    ASSUME "self_drop" \notin Env, "stale_undo" \notin Env
    PROVE  Spec => []DownDoNotConcentrate
<1>1. CalmInv => DownDoNotConcentrate
  BY DEF CalmInv, Calm, DownDoNotConcentrate
<1> QED
  BY <1>1, CalmAtStart, CalmStep, PTL DEF Spec
-----------------------------------------------------------------------------
(* What the operators make of one row, field by field.                      *)

(* Rows with the same fields are the same.                                  *)
LEMMA SameFields ==
    ASSUME NEW r \in Row, NEW s \in Row, r.hp = s.hp, r.on = s.on, r.saves = s.saves,
           r.linked = s.linked
    PROVE  r = s
BY DEF Row

(* Whoever loses its concentration loses its saves; everybody loses what it *)
(* sustained.                                                               *)
LEMMA BrokenRow ==
    ASSUME NEW b \in [Who -> Row], NEW ws, there \subseteq Who, NEW v \in there
    PROVE  /\ Broken(b, ws) \in [Who -> Row]
           /\ Broken(b, ws)[v].hp = b[v].hp
           /\ Broken(b, ws)[v].on = IF v \in ws THEN None ELSE b[v].on
           /\ Broken(b, ws)[v].saves = IF v \in ws THEN {} ELSE b[v].saves
           /\ Broken(b, ws)[v].linked = b[v].linked \ ws
<1> DEFINE x == b[v]
           on == IF v \in ws THEN None ELSE x.on
           saves == IF v \in ws THEN {} ELSE x.saves
           linked == x.linked \ ws
           cut == [x EXCEPT !.linked = linked, !.on = on, !.saves = saves]
<1>1. x \in Row /\ Broken(b, ws)[v] = cut
  BY DEF Broken
<1>2. on \in Label /\ saves \in SUBSET (Chain \cup {Damage}) /\ linked \in SUBSET Who
  BY <1>1 DEF Row, Label
<1> HIDE DEF x, on, saves, linked
<1>3. cut.hp = x.hp /\ cut.on = on /\ cut.saves = saves /\ cut.linked = linked
  BY <1>1, <1>2 DEF Row
<1>4. Broken(b, ws) \in [Who -> Row]
  BY BrokenTakes
<1> QED
  BY <1>1, <1>3, <1>4 DEF x, on, saves, linked

(* Queueing adds a save.                                                    *)
LEMMA QueuedRow ==
    ASSUME NEW b \in [Who -> Row], NEW ws, NEW id \in Chain \cup {Damage}, NEW v \in Who
    PROVE  Queued(b, ws, id)[v].saves = b[v].saves \cup (IF v \in ws THEN {id} ELSE {})
<1>1. CASE v \in ws
  <2>1. Queued(b, ws, id)[v] = [b[v] EXCEPT !.saves = b[v].saves \cup {id}]
    BY <1>1 DEF Queued
  <2>2. b[v].saves \cup {id} \in SUBSET (Chain \cup {Damage}) /\ b[v] \in Row
    BY DEF Row
  <2> QED
    BY <1>1, <2>1, <2>2 DEF Row
<1>2. CASE v \notin ws
  BY <1>2 DEF Queued
<1> QED
  BY <1>1, <1>2

(* Paying: an actor that breaks loses its saves and concentrates on its     *)
(* cast, or on nothing.                                                     *)
PaidOn(k, v) ==
    IF v # k.actor \/ ~Breaks(k) THEN board[v].on
    ELSE IF k.casts /\ ~Down(board, v) THEN "cast" ELSE None

PaidSaves(k, v) == IF v = k.actor /\ Breaks(k) THEN {} ELSE board[v].saves

Loosened(k) == IF Breaks(k) THEN {k.actor} ELSE {}

LEMMA PaidRow ==
    ASSUME NEW k, k.actor \in there, there \subseteq Who, board \in [Who -> Row],
           k.casts \in BOOLEAN, NEW v \in there
    PROVE  /\ Paid(k)[v].on = PaidOn(k, v)
           /\ Paid(k)[v].saves = PaidSaves(k, v)
           /\ Paid(k)[v].linked = board[v].linked \ Loosened(k)
<1> DEFINE b == IF Breaks(k) THEN Broken(board, {k.actor}) ELSE board
<1>1. /\ b \in [Who -> Row]
      /\ b[v].hp = board[v].hp /\ b[v].saves = PaidSaves(k, v)
      /\ b[v].on = IF v = k.actor /\ Breaks(k) THEN None ELSE board[v].on
      /\ b[v].linked = board[v].linked \ Loosened(k)
      /\ b[k.actor].hp = board[k.actor].hp
      /\ Breaks(k) => b[k.actor].on = None
  BY BrokenRow DEF PaidSaves, Loosened
<1>2. CASE ~k.casts
  BY <1>1, <1>2 DEF Paid, PaidOn
<1>3. CASE k.casts
  <2> DEFINE on == IF Down(b, k.actor) THEN b[k.actor].on ELSE "cast"
  <2>1. Paid(k) = [b EXCEPT ![k.actor].saves = {}, ![k.actor].on = on]
    BY <1>1, <1>3 DEF Paid
  <2>2. Breaks(k)
    BY <1>3 DEF Breaks
  <2>3. on \in Label /\ on = IF Down(board, k.actor) THEN None ELSE "cast"
    BY <1>1, <2>2 DEF Label, Down
  <2> HIDE DEF b, on
  <2>4. v # k.actor => Paid(k)[v] = b[v]
    BY <2>1, <1>1
  <2>5. /\ Paid(k)[k.actor].saves = {} /\ Paid(k)[k.actor].on = on
        /\ Paid(k)[k.actor].linked = b[k.actor].linked
    BY <2>1, <2>3, <1>1 DEF Row
  <2> QED
    BY <2>2, <2>3, <2>4, <2>5, <1>1, <1>3 DEF PaidOn, PaidSaves
<1> QED
  BY <1>2, <1>3

(* The whole chain: hit points, concentration, saves and links of v.        *)
LEMMA AppliedRow ==
    ASSUME NEW k, NEW c \in Chain, k.actor \in there, k.targets \subseteq there,
           there \subseteq Who, board \in [Who -> Row], k.casts \in BOOLEAN, NEW v \in there
    PROVE  /\ Applied(k, c)[v].hp =
                IF v \in k.targets THEN Hurt(board[v].hp, k.effect) ELSE board[v].hp
           /\ Applied(k, c)[v].on = IF v \in Dropped(k) THEN None ELSE PaidOn(k, v)
           /\ v \in Dropped(k) => Applied(k, c)[v].saves = {}
           /\ v \notin Dropped(k) =>
                Applied(k, c)[v].saves = PaidSaves(k, v)
                  \cup (IF v \in Shaken(k) /\ ~(k.casts /\ v = k.actor) THEN {c} ELSE {})
           /\ Applied(k, c)[v].linked = board[v].linked \ (Dropped(k) \cup Loosened(k))
<1> DEFINE queue == Shaken(k) \ (IF k.casts THEN {k.actor} ELSE {})
           saved == Queued(Paid(k), queue, c)
           struck == [w \in Who |->
                        IF w \in k.targets
                        THEN [saved[w] EXCEPT !.hp = Hurt(@, k.effect)] ELSE saved[w]]
           hp == IF v \in k.targets THEN Hurt(board[v].hp, k.effect) ELSE board[v].hp
           saves == PaidSaves(k, v) \cup (IF v \in queue THEN {c} ELSE {})
<1>1. v \in Who /\ PreviewOK(k)
  BY DEF PreviewOK
<1>2. Paid(k) \in [Who -> Row] /\ Paid(k)[v].hp = board[v].hp
  BY <1>1, PaidTakes
<1>3. /\ saved \in [Who -> Row] /\ saved[v].hp = board[v].hp
      /\ saved[v].on = PaidOn(k, v) /\ saved[v].saves = saves
      /\ saved[v].linked = board[v].linked \ Loosened(k)
  <2> HIDE DEF queue
  <2>1. saved[v].saves = saves
    BY <1>1, <1>2, QueuedRow, PaidRow
  <2> QED
    BY <2>1, <1>1, <1>2, QueuedAdds, PaidRow
<1>4. Applied(k, c) = Broken(struck, Dropped(k))
  BY DEF Applied
<1>5. v \in queue <=> v \in Shaken(k) /\ ~(k.casts /\ v = k.actor)
  OBVIOUS
<1> HIDE DEF saved, queue, saves
<1>6. /\ struck \in [Who -> Row]
      /\ struck[v].hp = hp /\ struck[v].on = saved[v].on
      /\ struck[v].saves = saved[v].saves /\ struck[v].linked = saved[v].linked
  <2>1. \A w \in Who : Hurt(saved[w].hp, k.effect) \in 0..MaxHp
    BY <1>3, HurtInRange DEF Row
  <2> QED
    BY <2>1, <1>1, <1>3 DEF Row
<1> HIDE DEF struck
<1>7. /\ Applied(k, c)[v].hp = hp
      /\ Applied(k, c)[v].on = IF v \in Dropped(k) THEN None ELSE PaidOn(k, v)
      /\ Applied(k, c)[v].saves = IF v \in Dropped(k) THEN {} ELSE saves
      /\ Applied(k, c)[v].linked = (board[v].linked \ Loosened(k)) \ Dropped(k)
  BY <1>3, <1>4, <1>6, BrokenRow
<1> QED
  BY <1>5, <1>7 DEF saves

(* The fight after the undo of the chain k with id c.                       *)
Undone(k, c) == Refocused(Restored(k, c), k)

(* The actor, where its concentration broke and it was no target.           *)
Focus(k) == IF k.broke THEN {k.actor} \ k.targets ELSE {}

(* Those whose concentration goes back.                                     *)
Reverting(k) == {v \in there : Reverts(k, v)}

(* An undo: what it makes of a target, of a bystander and of the actor.     *)
LEMMA UndoneRow ==
    ASSUME NEW k, NEW c, board \in [Who -> Row], there \subseteq Who, NEW v \in there,
           k.was \in [Who -> Row], k.actor \in there, k.broke \in BOOLEAN,
           k.targets \cap k.cascades = {}
    PROVE  /\ Undone(k, c)[v] \in Row
           /\ Undone(k, c)[v].hp = IF v \in k.targets THEN k.was[v].hp ELSE board[v].hp
           /\ v \in Reverting(k) /\ v \in k.targets \cup Focus(k) =>
                Undone(k, c)[v].on = k.was[v].on
           /\ v \notin Reverting(k) => Undone(k, c)[v].on = board[v].on
           /\ v \notin k.targets \cup Focus(k) => Undone(k, c)[v].on = board[v].on
           /\ v \in k.targets =>
                Undone(k, c)[v].saves = (board[v].saves \ {c})
                               \cup (IF k.broke THEN k.was[v].saves ELSE {})
           /\ v \in Focus(k) /\ v \in Reverting(k) => Undone(k, c)[v].saves = k.was[v].saves
           /\ v \notin k.targets /\ ~(v \in Focus(k) /\ v \in Reverting(k)) =>
                /\ v \in k.cascades => Undone(k, c)[v].saves = board[v].saves \ {c}
                /\ v \notin k.cascades => Undone(k, c)[v].saves = board[v].saves
           /\ Undone(k, c)[v].linked = IF v \in k.targets \cup k.cascades THEN k.was[v].linked
                            ELSE board[v].linked
<1> DEFINE merged(w) == (board[w].saves \ {c}) \cup (IF k.broke THEN k.was[w].saves ELSE {})
           back(w) == [hp |-> k.was[w].hp, linked |-> k.was[w].linked,
                       on |-> IF Reverts(k, w) THEN k.was[w].on ELSE board[w].on,
                       saves |-> merged(w)]
           fewer == board[v].saves \ {c}
           links == k.was[v].linked
           bystander(w) == [board[w] EXCEPT !.linked = k.was[w].linked, !.saves = @ \ {c}]
           row(w) == CASE w \in k.targets \cap there -> back(w)
                       [] w \in k.cascades \cap there -> bystander(w)
                       [] OTHER -> board[w]
           r == Restored(k, c)
           b == Undone(k, c)
<1>row. r = [w \in Who |-> row(w)]
  BY DEF Restored
<1> HIDE DEF row, r, b
<1>1. r[v] = row(v) /\ r = [w \in Who |-> r[w]]
  BY <1>row
<1>2. board[v] \in Row /\ k.was[v] \in Row
  OBVIOUS
<1>3. /\ merged(v) \in SUBSET (Chain \cup {Damage}) /\ back(v) \in Row
      /\ back(v).hp = k.was[v].hp /\ back(v).linked = k.was[v].linked
      /\ back(v).on = IF Reverts(k, v) THEN k.was[v].on ELSE board[v].on
      /\ back(v).saves = merged(v)
  <2>1. merged(v) \in SUBSET (Chain \cup {Damage})
    BY <1>2 DEF Row
  <2> HIDE DEF merged
  <2> QED
    BY <1>2, <2>1 DEF Row
<1>4. fewer \in SUBSET (Chain \cup {Damage}) /\ links \in SUBSET Who /\ None \in Label
      /\ bystander(v) = [board[v] EXCEPT !.linked = links, !.saves = fewer]
  BY <1>2 DEF Row, Label
<1> HIDE DEF merged, back, fewer, links
<1>5. /\ bystander(v) \in Row
      /\ bystander(v).hp = board[v].hp /\ bystander(v).linked = links
      /\ bystander(v).on = board[v].on /\ bystander(v).saves = fewer
  BY <1>2, <1>4 DEF Row
<1> HIDE DEF bystander
<1>6. /\ v \in k.targets => row(v) = back(v)
      /\ v \notin k.targets /\ v \in k.cascades => row(v) = bystander(v)
      /\ v \notin k.targets /\ v \notin k.cascades => row(v) = board[v]
  <2>1. CASE v \in k.targets \cap there
    BY <2>1 DEF row
  <2>2. CASE v \notin k.targets \cap there /\ v \in k.cascades \cap there
    BY <2>2 DEF row
  <2>3. CASE v \notin k.targets \cap there /\ v \notin k.cascades \cap there
    BY <2>3 DEF row
  <2> QED
    BY <2>1, <2>2, <2>3
<1>7. /\ r[v] \in Row
      /\ r[v].hp = IF v \in k.targets THEN k.was[v].hp ELSE board[v].hp
      /\ Reverts(k, v) /\ v \in k.targets => r[v].on = k.was[v].on
      /\ ~(Reverts(k, v) /\ v \in k.targets) => r[v].on = board[v].on
      /\ r[v].saves =
           IF v \in k.targets
             THEN merged(v) ELSE IF v \in k.cascades THEN fewer ELSE board[v].saves
      /\ r[v].linked = IF v \in k.targets \cup k.cascades THEN k.was[v].linked
                       ELSE board[v].linked
  <2>1. CASE v \in k.targets
    BY <2>1, <1>1, <1>3, <1>6
  <2>2. CASE v \notin k.targets /\ v \in k.cascades
    BY <2>2, <1>1, <1>5, <1>6 DEF links
  <2>3. CASE v \notin k.targets /\ v \notin k.cascades
    BY <2>3, <1>1, <1>2, <1>6
  <2> QED
    BY <2>1, <2>2, <2>3
<1>8. /\ b[v] \in Row
      /\ b[v].hp = IF v \in k.targets THEN k.was[v].hp ELSE board[v].hp
      /\ Reverts(k, v) /\ (v \in k.targets \/ (k.broke /\ v = k.actor)) => b[v].on = k.was[v].on
      /\ ~Reverts(k, v) => b[v].on = board[v].on
      /\ v \notin k.targets /\ ~(k.broke /\ v = k.actor) => b[v].on = board[v].on
      /\ v \in k.targets => b[v].saves = merged(v)
      /\ v \notin k.targets /\ k.broke /\ v = k.actor /\ Reverts(k, v) =>
           b[v].saves = k.was[v].saves
      /\ v \notin k.targets /\ ~(k.broke /\ v = k.actor /\ Reverts(k, v)) =>
           b[v].saves = IF v \in k.cascades THEN fewer ELSE board[v].saves
      /\ b[v].linked = IF v \in k.targets \cup k.cascades THEN k.was[v].linked
                       ELSE board[v].linked
  <2>1. CASE k.broke /\ k.actor \notin k.targets /\ Reverts(k, k.actor)
    <3> DEFINE on == k.was[k.actor].on
               saves == k.was[k.actor].saves
    <3>1. b = [r EXCEPT ![k.actor].on = on, ![k.actor].saves = saves]
      BY <2>1 DEF Refocused, r, b, Undone
    <3>2. on \in Label /\ saves \in SUBSET (Chain \cup {Damage})
      BY DEF Row
    <3>3. CASE v # k.actor
      <4>1. b[v] = r[v]
        BY <3>1, <3>3, <1>1
      <4> QED
        BY <4>1, <3>3, <1>7
    <3>4. CASE v = k.actor
      <4> HIDE DEF on, saves
      <4>1. b[v] = [r[v] EXCEPT !.on = on, !.saves = saves]
        BY <3>1, <3>4, <1>1
      <4>2. /\ b[v] \in Row /\ b[v].hp = r[v].hp /\ b[v].on = on /\ b[v].saves = saves
            /\ b[v].linked = r[v].linked
        BY <4>1, <3>2, <1>7 DEF Row
      <4> QED
        BY <4>2, <3>4, <1>7, <2>1 DEF on, saves
    <3> QED
      BY <3>3, <3>4
  <2>2. CASE ~(k.broke /\ k.actor \notin k.targets /\ Reverts(k, k.actor))
    <3>1. b = r
      BY <2>2 DEF Refocused, r, b, Undone
    <3>2. CASE v \in k.targets
      BY <3>1, <3>2, <1>7
    <3>3. CASE v \notin k.targets
      <4>1. ~(k.broke /\ v = k.actor /\ Reverts(k, v))
        BY <3>3, <2>2
      <4> QED
        BY <3>1, <3>3, <4>1, <1>7
    <3> QED
      BY <3>2, <3>3
  <2> QED
    BY <2>1, <2>2
<1>9. /\ v \in Focus(k) <=> k.broke /\ v = k.actor /\ v \notin k.targets
      /\ v \in Reverting(k) <=> Reverts(k, v)
  BY DEF Focus, Reverting
<1> HIDE DEF b, merged, fewer
<1>10. v \in Reverting(k) /\ v \in k.targets \cup Focus(k) => b[v].on = k.was[v].on
  BY <1>8, <1>9
<1>11. v \notin Reverting(k) => b[v].on = board[v].on
  BY <1>8, <1>9
<1>12. v \notin k.targets \cup Focus(k) => b[v].on = board[v].on
  BY <1>8, <1>9
<1>13. v \in Focus(k) /\ v \in Reverting(k) => b[v].saves = k.was[v].saves
  BY <1>8, <1>9
<1>14. v \notin k.targets /\ ~(v \in Focus(k) /\ v \in Reverting(k)) =>
         b[v].saves = IF v \in k.cascades THEN fewer ELSE board[v].saves
  BY <1>8, <1>9
<1> QED
  BY <1>8, <1>10, <1>11, <1>12, <1>13, <1>14 DEF b, merged, fewer
-----------------------------------------------------------------------------
(* The types, what the chains keep included.                                *)

KeptOK(k) ==
    /\ k.actor \in Who /\ k.targets \subseteq Who /\ k.targets \cap k.cascades = {}
    /\ k.casts \in BOOLEAN /\ k.broke \in BOOLEAN
    /\ k.was \in [Who -> Row] /\ k.after \in [Who -> Row]

TypeInv ==
    /\ TypeOK /\ chain = [c \in Chain |-> chain[c]]
    /\ \A c \in Chain :
         /\ chain[c].state = "pending" => PreviewOK(chain[c]) /\ chain[c].casts \in BOOLEAN
         /\ chain[c].state = "applied" => KeptOK(chain[c])
    /\ \A c \in fresh : chain[c].state = "applied"

(* A chain queues saves under its own id, which no row bears before: the    *)
(* saves that are queued, or that a chain keeps to put back, are of chains  *)
(* that were applied once.                                                  *)
Done == {c \in Chain : chain[c].state \in {"applied", "undone"}}

SavesAreOld ==
    /\ \A v \in there : board[v].saves \cap Chain \subseteq Done
    /\ \A c \in Chain : chain[c].state = "applied" =>
         \A v \in there : chain[c].was[v].saves \cap Chain \subseteq Done

(* Rows that are gone stay as they were when an undo comes.                 *)
LEMMA UndoneElsewhere ==
    ASSUME NEW k, NEW c, board \in [Who -> Row], NEW v \in Who \ there,
           k.actor \in there
    PROVE  Undone(k, c)[v] = board[v]
<1> DEFINE back(w) == [hp |-> k.was[w].hp, linked |-> k.was[w].linked,
                       on |-> IF Reverts(k, w) THEN k.was[w].on ELSE board[w].on,
                       saves |-> (board[w].saves \ {c})
                                   \cup (IF k.broke THEN k.was[w].saves ELSE {})]
           bystander(w) == [board[w] EXCEPT !.linked = k.was[w].linked, !.saves = @ \ {c}]
           row(w) == CASE w \in k.targets \cap there -> back(w)
                       [] w \in k.cascades \cap there -> bystander(w)
                       [] OTHER -> board[w]
           r == Restored(k, c)
           b == Undone(k, c)
<1>1. r = [w \in Who |-> row(w)]
  BY DEF Restored
<1> HIDE DEF r, b, row, back, bystander
<1> SUFFICES b[v] = board[v]
  BY DEF b
<1>2. row(v) = board[v]
  <2>1. v \notin k.targets \cap there /\ v \notin k.cascades \cap there
    OBVIOUS
  <2> QED
    BY <2>1 DEF row
<1>3. r[v] = board[v] /\ r = [w \in Who |-> r[w]]
  BY <1>1, <1>2
<1>4. CASE k.broke /\ k.actor \notin k.targets /\ Reverts(k, k.actor)
  <2> DEFINE on == k.was[k.actor].on
             saves == k.was[k.actor].saves
  <2>1. b = [r EXCEPT ![k.actor].on = on, ![k.actor].saves = saves]
    BY <1>4 DEF Refocused, r, b, Undone
  <2>2. v # k.actor
    OBVIOUS
  <2> HIDE DEF on, saves
  <2> QED
    BY <2>1, <2>2, <1>3
<1>5. CASE ~(k.broke /\ k.actor \notin k.targets /\ Reverts(k, k.actor))
  <2>1. b = r
    BY <1>5 DEF Refocused, r, b, Undone
  <2> QED
    BY <2>1, <1>3
<1> QED
  BY <1>4, <1>5

(* So an undo leaves rows.                                                  *)
LEMMA UndoneRows ==
    ASSUME TypeInv, NEW c \in Chain, chain[c].state = "applied", chain[c].actor \in there
    PROVE  Undone(chain[c], c) \in [Who -> Row]
<1> DEFINE k == chain[c]
           b == Undone(k, c)
<1>0. k.actor \in there
  OBVIOUS
<1>1. KeptOK(k) /\ board \in [Who -> Row] /\ there \subseteq Who
  BY DEF TypeInv, TypeOK
<1>2. b = [v \in Who |-> b[v]]
  <2> DEFINE back(w) == [hp |-> k.was[w].hp, linked |-> k.was[w].linked,
                         on |-> IF Reverts(k, w) THEN k.was[w].on ELSE board[w].on,
                         saves |-> (board[w].saves \ {c})
                                     \cup (IF k.broke THEN k.was[w].saves ELSE {})]
             bystander(w) == [board[w] EXCEPT !.linked = k.was[w].linked, !.saves = @ \ {c}]
             row(w) == CASE w \in k.targets \cap there -> back(w)
                         [] w \in k.cascades \cap there -> bystander(w)
                         [] OTHER -> board[w]
             r == Restored(k, c)
  <2>0. r = [w \in Who |-> row(w)]
    BY DEF Restored
  <2> HIDE DEF r, row, back, bystander
  <2>1. r = [v \in Who |-> r[v]]
    BY <2>0
  <2>2. b = r \/ b = [r EXCEPT ![k.actor].on = k.was[k.actor].on,
                             ![k.actor].saves = k.was[k.actor].saves]
    BY DEF Refocused, Undone, r
  <2> QED
    BY <2>1, <2>2
<1> HIDE DEF k, b
<1>3. ASSUME NEW v \in there PROVE b[v] \in Row
  BY <1>1, <1>0, UndoneRow DEF KeptOK, b
<1>4. ASSUME NEW v \in Who \ there PROVE b[v] \in Row
  <2>1. b[v] = board[v]
    BY <1>0, <1>1, UndoneElsewhere DEF b
  <2> QED
    BY <2>1, <1>1
<1>5. \A v \in Who : b[v] \in Row
  BY <1>3, <1>4
<1> QED
  BY <1>2, <1>5 DEF b, k

(* What the tracker and the turn workspace write are rows, and the only     *)
(* save they queue is their own.                                            *)
LEMMA WritesAreRows ==
    ASSUME there \subseteq Who, board \in [Who -> Row], NEW w \in there,
           \/ UpdateCombatant(w) \/ EndConcentration(w) \/ PassSave(w) \/ Concentrate(w)
           \/ Remove(w) \/ \E t \in Who : Link(w, t)
    PROVE  /\ board' \in [Who -> Row]
           /\ \A v \in there : board'[v].saves \subseteq board[v].saves \cup {Damage}
<1>1. CASE UpdateCombatant(w)
  <2>1. PICK effect \in {"harm", "heal"} :
          LET struck == [board EXCEPT ![w].hp = Hurt(@, effect)]
          IN  board' = IF effect = "heal" \/ ~Sustains(board, w) THEN struck
                       ELSE IF Down(struck, w) /\ ~Down(board, w) THEN Broken(struck, {w})
                       ELSE Queued(struck, {w}, Damage)
    BY <1>1 DEF UpdateCombatant
  <2> DEFINE hp == Hurt(board[w].hp, effect)
             struck == [board EXCEPT ![w].hp = hp]
  <2>2. hp \in 0..MaxHp
    BY HurtInRange DEF Row
  <2>3. \/ board' = struck \/ board' = Broken(struck, {w})
        \/ board' = Queued(struck, {w}, Damage)
    BY <2>1
  <2> HIDE DEF hp
  <2>4. struck \in [Who -> Row] /\ \A v \in Who : struck[v].saves = board[v].saves
    BY <2>2 DEF Row
  <2> HIDE DEF struck
  <2>5. CASE board' = struck
    BY <2>4, <2>5
  <2>6. CASE board' = Broken(struck, {w})
    BY <2>4, <2>6, BrokenRow
  <2>7. CASE board' = Queued(struck, {w}, Damage)
    BY <2>4, <2>7, QueuedRow, QueuedAdds
  <2> QED
    BY <2>3, <2>5, <2>6, <2>7
<1>2. CASE EndConcentration(w) \/ Remove(w)
  <2>1. board' = Broken(board, {w})
    BY <1>2 DEF EndConcentration, Remove
  <2> QED
    BY <2>1, BrokenRow
<1>3. CASE PassSave(w)
  <2>1. PICK id \in board[w].saves : board' = [board EXCEPT ![w].saves = @ \ {id}]
    BY <1>3 DEF PassSave
  <2> DEFINE saves == board[w].saves \ {id}
             row == [board[w] EXCEPT !.saves = saves]
  <2>2. board[w] \in Row /\ saves \in SUBSET (Chain \cup {Damage})
        /\ saves \subseteq board[w].saves
    BY DEF Row
  <2>3. board' = [board EXCEPT ![w] = row]
    BY <2>1
  <2> HIDE DEF saves
  <2>4. row \in Row /\ row.saves = saves
    BY <2>2 DEF Row
  <2> HIDE DEF row
  <2> QED
    BY <2>2, <2>3, <2>4
<1>4. CASE Concentrate(w)
  <2> DEFINE held == [board[w] EXCEPT !.on = "spell"]
             row == [held EXCEPT !.saves = {}]
  <2>1. board' = [board EXCEPT ![w] = row]
    BY <1>4 DEF Concentrate
  <2>2. board[w] \in Row /\ "spell" \in Label
    BY DEF Label
  <2>3. held \in Row
    BY ONLY <2>2 DEF Row
  <2> HIDE DEF held
  <2>4. row \in Row /\ row.saves = {}
    BY ONLY <2>3 DEF Row
  <2> HIDE DEF row
  <2> QED
    BY <2>1, <2>4
<1>5. ASSUME NEW t \in Who, Link(w, t)
      PROVE  /\ board' \in [Who -> Row]
             /\ \A v \in there : board'[v].saves \subseteq board[v].saves \cup {Damage}
  BY <1>5 DEF Link, Row
<1> QED
  BY <1>1, <1>2, <1>3, <1>4, <1>5

(* At the start there are no chains.                                        *)
LEMMA TypesAtStart == Init => TypeInv /\ SavesAreOld
<1> SUFFICES ASSUME Init PROVE TypeInv /\ SavesAreOld
  OBVIOUS
<1>1. [hp |-> MaxHp, on |-> None, saves |-> {}, linked |-> {}] \in Row
  BY BoundsAreNat DEF Row, Label
<1>2. board \in [Who -> Row] /\ \A v \in Who : board[v].saves = {}
  BY <1>1 DEF Init
<1>3. /\ 0 \in 0..MaxHp /\ 0 \in 0..MaxActions /\ 0 \in 0..MaxSlots /\ 0 \in 0..MaxTurns
      /\ 0 \in 0..MaxHits
  BY BoundsAreNat
<1>4. chain = [c \in Chain |-> chain[c]] /\ \A c \in Chain : chain[c].state = "none"
  BY DEF Init, NoChain
<1>5. turn \in [of : Who, version : 0..MaxTurns]
  BY <1>3 DEF Init
<1>6. there = Who /\ fresh = {} /\ passed = {} /\ hits \in 0..MaxHits
      /\ used \in [Who -> 0..MaxActions] /\ slots \in [Who -> 0..MaxSlots]
  BY <1>3 DEF Init
<1>7. TypeOK
  BY <1>2, <1>4, <1>5, <1>6 DEF TypeOK
<1> QED
  BY <1>2, <1>4, <1>6, <1>7 DEF TypeInv, SavesAreOld, Done

(* Chains that did not change keep what they have.                          *)
LEMMA TypesPreview ==
    ASSUME TypeInv, SavesAreOld, NEW c \in Chain, Preview(c)
    PROVE  TypeInv' /\ SavesAreOld'
<1>1. PICK a \in there, ts \in SUBSET there, action \in Actions :
        chain' = [chain EXCEPT ![c] =
          [state |-> "pending", actor |-> a, targets |-> ts,
           effect |-> action.effect, casts |-> action.casts, version |-> turn.version]]
  BY DEF Preview
<1>2. UNCHANGED <<there, board, used, slots, turn, hits, passed, fresh>>
      /\ chain[c].state = "none"
  BY DEF Preview
<1>3. action.casts \in BOOLEAN /\ a \in Who /\ ts \subseteq Who
  <2>1. \/ action = [effect |-> "harm", casts |-> FALSE]
        \/ action = [effect |-> "harm", casts |-> TRUE]
        \/ action = [effect |-> "none", casts |-> TRUE]
        \/ action = [effect |-> "heal", casts |-> FALSE]
    BY DEF Actions
  <2>2. action.casts \in BOOLEAN
    <3>1. [effect |-> "harm", casts |-> FALSE].casts = FALSE
          /\ [effect |-> "heal", casts |-> FALSE].casts = FALSE
      OBVIOUS
    <3>2. [effect |-> "harm", casts |-> TRUE].casts = TRUE
          /\ [effect |-> "none", casts |-> TRUE].casts = TRUE
      OBVIOUS
    <3> QED
      BY ONLY <2>1, <3>1, <3>2
  <2> QED
    BY <2>2 DEF TypeInv, TypeOK
<1>4. /\ chain'[c].state = "pending" /\ chain'[c].actor = a /\ chain'[c].targets = ts
      /\ chain'[c].casts = action.casts
      /\ \A d \in Chain \ {c} : chain'[d] = chain[d]
      /\ chain' = [d \in Chain |-> chain'[d]]
  BY <1>1 DEF TypeInv
<1>5. TypeOK'
  BY <1>2, <1>4 DEF TypeOK, TypeInv
<1>6. TypeInv'
  BY <1>2, <1>3, <1>4, <1>5 DEF TypeInv, TypeOK, PreviewOK, KeptOK
<1>7. Done' = Done
  BY <1>2, <1>4 DEF Done
<1> QED
  BY <1>2, <1>4, <1>6, <1>7 DEF SavesAreOld

(* Applying a chain queues saves under its own id only.                     *)
LEMMA AppliedSaves ==
    ASSUME NEW k, NEW c \in Chain, k.actor \in there, k.targets \subseteq there,
           there \subseteq Who, board \in [Who -> Row], k.casts \in BOOLEAN, NEW v \in there
    PROVE  Applied(k, c)[v].saves \subseteq board[v].saves \cup {c}
<1>1. /\ v \in Dropped(k) => Applied(k, c)[v].saves = {}
      /\ v \notin Dropped(k) => Applied(k, c)[v].saves = PaidSaves(k, v)
          \cup (IF v \in Shaken(k) /\ ~(k.casts /\ v = k.actor) THEN {c} ELSE {})
  BY AppliedRow
<1>2. PaidSaves(k, v) \subseteq board[v].saves
  BY DEF PaidSaves
<1> QED
  BY <1>1, <1>2

(* Undoing it leaves saves that are queued, or that it kept.                *)
LEMMA UndoneSaves ==
    ASSUME NEW k, NEW c, board \in [Who -> Row], there \subseteq Who, NEW v \in there,
           k.was \in [Who -> Row], k.actor \in there, k.broke \in BOOLEAN,
           k.targets \cap k.cascades = {}
    PROVE  Undone(k, c)[v].saves \subseteq board[v].saves \cup k.was[v].saves
<1> DEFINE b == Undone(k, c)
           back == v \in Focus(k) /\ v \in Reverting(k)
<1>1. v \in k.targets =>
        b[v].saves = (board[v].saves \ {c}) \cup (IF k.broke THEN k.was[v].saves ELSE {})
  BY UndoneRow
<1>2. v \notin k.targets /\ back => b[v].saves = k.was[v].saves
  <2>1. v \in Focus(k) /\ v \in Reverting(k) => Undone(k, c)[v].saves = k.was[v].saves
    BY UndoneRow
  <2> QED
    BY <2>1
<1>3. v \notin k.targets /\ ~back =>
        /\ v \in k.cascades => b[v].saves = board[v].saves \ {c}
        /\ v \notin k.cascades => b[v].saves = board[v].saves
  BY UndoneRow
<1> HIDE DEF back, b
<1> SUFFICES b[v].saves \subseteq board[v].saves \cup k.was[v].saves
  BY DEF b
<1>4. CASE v \in k.targets
  BY <1>1, <1>4
<1>5. CASE v \notin k.targets /\ back
  BY <1>2, <1>5
<1>6. CASE v \notin k.targets /\ ~back
  BY <1>3, <1>6
<1> QED
  BY <1>4, <1>5, <1>6

(* A chain that is applied keeps the rows before and after.                 *)
LEMMA TypesApply ==
    ASSUME TypeInv, SavesAreOld, NEW c \in Chain, NEW role, Apply(c, role)
    PROVE  TypeInv' /\ SavesAreOld'
<1> DEFINE k == chain[c]
           after == Applied(k, c)
<1>1. /\ k.state = "pending" /\ k.actor \in there /\ k.targets \subseteq there
      /\ used[k.actor] < MaxActions /\ (k.casts => slots[k.actor] < MaxSlots)
      /\ board' = after /\ UNCHANGED <<there, turn, hits>>
      /\ used' = [used EXCEPT ![k.actor] = @ + 1]
      /\ slots' = IF k.casts THEN [slots EXCEPT ![k.actor] = @ + 1] ELSE slots
      /\ chain' = [chain EXCEPT ![c] =
             [state |-> "applied", actor |-> k.actor, targets |-> k.targets,
              casts |-> k.casts, broke |-> Breaks(k), cascades |-> Cascades(k),
              was |-> board, after |-> after]]
      /\ fresh' = fresh \cup {c} /\ passed' = passed \ {c}
  BY DEF Apply, Pays
<1>2. /\ there \subseteq Who /\ board \in [Who -> Row] /\ k.casts \in BOOLEAN
      /\ PreviewOK(k) /\ k.actor \in Who /\ k.targets \subseteq Who
  BY <1>1 DEF TypeInv, TypeOK
<1>3. after \in [Who -> Row]
  BY <1>2, AppliedTakes
<1>4. ASSUME NEW v \in there PROVE after[v].saves \subseteq board[v].saves \cup {c}
  <2> HIDE DEF k
  <2> QED
    BY <1>1, <1>2, AppliedSaves
<1>5. Breaks(k) \in BOOLEAN
  BY <1>2 DEF Breaks, Down, Sustains
<1>6. k.targets \cap Cascades(k) = {}
  BY DEF Cascades
<1> HIDE DEF k, after
<1>7. /\ chain'[c].state = "applied" /\ chain'[c].actor = k.actor
      /\ chain'[c].targets = k.targets /\ chain'[c].casts = k.casts
      /\ chain'[c].broke = Breaks(k) /\ chain'[c].cascades = Cascades(k)
      /\ chain'[c].was = board /\ chain'[c].after = after
      /\ \A d \in Chain \ {c} : chain'[d] = chain[d]
      /\ chain' = [d \in Chain |-> chain'[d]]
  BY <1>1 DEF TypeInv
<1>8. KeptOK(chain'[c])
  BY <1>2, <1>3, <1>5, <1>6, <1>7 DEF KeptOK
<1>9. used' \in [Who -> 0..MaxActions] /\ slots' \in [Who -> 0..MaxSlots]
  <2>1. used \in [Who -> 0..MaxActions] /\ slots \in [Who -> 0..MaxSlots]
        /\ MaxActions \in Nat /\ MaxSlots \in Nat
    BY BoundsAreNat DEF TypeInv, TypeOK
  <2>2. used[k.actor] + 1 \in 0..MaxActions /\ (k.casts => slots[k.actor] + 1 \in 0..MaxSlots)
    BY <2>1, <1>1, <1>2
  <2> QED
    BY <2>1, <2>2, <1>1, <1>2
<1>10. TypeOK'
  BY <1>1, <1>3, <1>7, <1>9 DEF TypeInv, TypeOK
<1>11. \A d \in fresh' : chain'[d].state = "applied"
  BY <1>1, <1>7 DEF TypeInv, TypeOK
<1>12. \A d \in Chain \ {c} : chain'[d] = chain[d]
  BY <1>7
<1>13. /\ \A d \in Chain : chain'[d].state = "pending" => PreviewOK(chain'[d])
                                                         /\ chain'[d].casts \in BOOLEAN
       /\ \A d \in Chain : chain'[d].state = "applied" => KeptOK(chain'[d])
  BY <1>7, <1>8 DEF TypeInv
<1>14. TypeInv'
  BY <1>7, <1>10, <1>11, <1>13 DEF TypeInv, PreviewOK, KeptOK
<1>15. Done' = Done \cup {c}
  BY <1>7 DEF Done
<1>16. SavesAreOld'
  BY <1>1, <1>4, <1>7, <1>15 DEF SavesAreOld
<1> QED
  BY <1>14, <1>16

LEMMA TypesUndo ==
    ASSUME TypeInv, SavesAreOld, NEW c \in Chain, Undo(c)
    PROVE  TypeInv' /\ SavesAreOld'
<1> DEFINE k == chain[c]
<1>1. /\ k.state = "applied" /\ k.actor \in there
      /\ board' = Undone(k, c)
      /\ used' = [used EXCEPT ![k.actor] = Less(@)]
      /\ slots' = IF k.casts THEN [slots EXCEPT ![k.actor] = Less(@)] ELSE slots
      /\ chain' = [chain EXCEPT ![c] = [state |-> "undone"]]
      /\ fresh' = fresh \ {c} /\ UNCHANGED <<there, turn, hits, passed>>
  BY DEF Undo, Undone
<1>2. /\ there \subseteq Who /\ board \in [Who -> Row] /\ KeptOK(k) /\ k.actor \in Who
  BY <1>1 DEF TypeInv, TypeOK
<1>3. board' \in [Who -> Row]
  BY <1>1, UndoneRows
<1>4. \A v \in there : board'[v].saves \subseteq board[v].saves \cup k.was[v].saves
  <2> SUFFICES ASSUME NEW v \in there
               PROVE  board'[v].saves \subseteq board[v].saves \cup k.was[v].saves
    OBVIOUS
  <2> HIDE DEF k
  <2> QED
    BY <1>1, <1>2, UndoneSaves DEF KeptOK
<1> HIDE DEF k
<1>5. /\ chain'[c].state = "undone" /\ \A d \in Chain \ {c} : chain'[d] = chain[d]
      /\ chain' = [d \in Chain |-> chain'[d]]
  BY <1>1 DEF TypeInv
<1>6. used' \in [Who -> 0..MaxActions] /\ slots' \in [Who -> 0..MaxSlots]
  <2>1. used \in [Who -> 0..MaxActions] /\ slots \in [Who -> 0..MaxSlots]
        /\ MaxActions \in Nat /\ MaxSlots \in Nat
    BY BoundsAreNat DEF TypeInv, TypeOK
  <2>2. Less(used[k.actor]) \in 0..MaxActions /\ Less(slots[k.actor]) \in 0..MaxSlots
    BY <2>1, <1>2 DEF Less
  <2> QED
    BY <2>1, <2>2, <1>1, <1>2
<1>7. TypeOK'
  BY <1>1, <1>3, <1>5, <1>6 DEF TypeInv, TypeOK
<1>8. \A d \in fresh' : chain'[d].state = "applied"
  BY <1>1, <1>5 DEF TypeInv, TypeOK
<1>9. TypeInv'
  BY <1>5, <1>7, <1>8 DEF TypeInv, PreviewOK, KeptOK
<1>10. Done' = Done /\ k = chain[c]
  BY <1>1, <1>5 DEF Done, k
<1>11. SavesAreOld'
  BY <1>1, <1>4, <1>5, <1>10 DEF SavesAreOld
<1> QED
  BY <1>9, <1>11

(* Every step of the fight keeps the types.                                 *)
LEMMA TypesStep == TypeInv /\ SavesAreOld /\ [Next]_vars => TypeInv' /\ SavesAreOld'
<1> SUFFICES ASSUME TypeInv, SavesAreOld, [Next]_vars PROVE TypeInv' /\ SavesAreOld'
  OBVIOUS
<1>1. ASSUME NEW c \in Chain, Preview(c) PROVE TypeInv' /\ SavesAreOld'
  BY <1>1, TypesPreview
<1>2. ASSUME NEW c \in Chain, NEW role, Apply(c, role) PROVE TypeInv' /\ SavesAreOld'
  BY <1>2, TypesApply
<1>3. ASSUME NEW c \in Chain, Undo(c) PROVE TypeInv' /\ SavesAreOld'
  BY <1>3, TypesUndo
<1>4. ASSUME NEW w \in Who, BeginTurn(w) PROVE TypeInv' /\ SavesAreOld'
  <2>1. /\ turn.version < MaxTurns /\ turn' = [of |-> w, version |-> turn.version + 1]
        /\ used' = [used EXCEPT ![w] = 0]
        /\ passed' = passed \cup {c \in Chain : chain[c].state = "pending"}
        /\ fresh' = {c \in fresh : chain[c].actor # w}
        /\ UNCHANGED <<there, board, slots, chain, hits>>
    BY <1>4 DEF BeginTurn
  <2>2. turn' \in [of : Who, version : 0..MaxTurns]
    <3>1. turn.version \in 0..MaxTurns
      BY DEF TypeInv, TypeOK
    <3>2. turn.version + 1 \in 0..MaxTurns
      BY <2>1, <3>1, BoundsAreNat
    <3> QED
      BY <2>1, <3>2
  <2>3. used' \in [Who -> 0..MaxActions]
    BY <2>1, BoundsAreNat DEF TypeInv, TypeOK
  <2>4. TypeOK'
    BY <2>1, <2>2, <2>3 DEF TypeInv, TypeOK
  <2>5. TypeInv'
    BY <2>1, <2>4 DEF TypeInv, PreviewOK, KeptOK
  <2>6. SavesAreOld'
    BY <2>1 DEF SavesAreOld, Done
  <2> QED
    BY <2>5, <2>6
<1>5. ASSUME NEW w \in Who,
             \/ UpdateCombatant(w) \/ EndConcentration(w) \/ PassSave(w) \/ Concentrate(w)
             \/ Remove(w) \/ \E t \in Who : Link(w, t)
      PROVE  TypeInv' /\ SavesAreOld'
  <2>1. /\ w \in there /\ hits < MaxHits /\ hits' = hits + 1
        /\ UNCHANGED <<used, slots, turn, chain, passed, fresh>> /\ there' \subseteq there
    BY <1>5 DEF UpdateCombatant, EndConcentration, PassSave, Concentrate, Link, Remove,
                Workspace, Tracked
  <2>2. /\ board' \in [Who -> Row]
        /\ \A v \in there : board'[v].saves \subseteq board[v].saves \cup {Damage}
    BY <1>5, <2>1, WritesAreRows DEF TypeInv, TypeOK
  <2>3. hits' \in 0..MaxHits
    BY <2>1, BoundsAreNat DEF TypeInv, TypeOK
  <2>4. TypeOK'
    BY <2>1, <2>2, <2>3 DEF TypeInv, TypeOK
  <2>5. TypeInv'
    BY <2>1, <2>4 DEF TypeInv, PreviewOK, KeptOK
  <2>6. SavesAreOld'
    BY <2>1, <2>2, NoneIsNothing DEF SavesAreOld, Done
  <2> QED
    BY <2>5, <2>6
<1>6. CASE UNCHANGED vars
  BY <1>6 DEF vars, TypeInv, TypeOK, SavesAreOld, Done, PreviewOK, KeptOK
<1>7. CASE Next
  BY <1>1, <1>2, <1>3, <1>4, <1>5, <1>7 DEF Next
<1> QED
  BY <1>6, <1>7

LEMMA TypesHold == Spec => [](TypeInv /\ SavesAreOld)
BY TypesAtStart, TypesStep, PTL DEF Spec

(* Rows, counters and chains stay well formed, whatever Env allows.         *)
THEOREM TypeCorrect == Spec => []TypeOK
<1>1. TypeInv /\ SavesAreOld => TypeOK
  BY DEF TypeInv
<1> QED
  BY <1>1, TypesHold, PTL
-----------------------------------------------------------------------------
(* What is spent.                                                           *)

Standing == {c \in Chain : chain[c].state = "applied"}
Casting == {c \in Chain : chain[c].state = "applied" /\ chain[c].casts}

(* The chains of w among cs.                                                *)
Of(w, cs) == {c \in cs : chain[c].actor = w}

(* The chains that stand are finitely many, and those that w can still      *)
(* undo, or that cost it a slot, are no more than it has paid for.          *)
SpendInv ==
    /\ IsFiniteSet(Standing)
    /\ \A w \in Who : /\ Cardinality(Of(w, fresh)) <= used[w]
                      /\ Cardinality(Of(w, Casting)) <= slots[w]

(* The chains that are counted stand, and are finitely many.                *)
LEMMA OfIsFinite ==
    ASSUME TypeInv, IsFiniteSet(Standing), NEW w \in Who
    PROVE  /\ IsFiniteSet(Of(w, fresh)) /\ Cardinality(Of(w, fresh)) \in Nat
           /\ IsFiniteSet(Of(w, Casting)) /\ Cardinality(Of(w, Casting)) \in Nat
<1>1. Of(w, fresh) \subseteq Standing /\ Of(w, Casting) \subseteq Standing
  BY DEF Of, Standing, Casting, TypeInv, TypeOK
<1>2. IsFiniteSet(Of(w, fresh)) /\ IsFiniteSet(Of(w, Casting))
  BY <1>1, FS_Subset
<1> QED
  BY <1>2, FS_CardinalityType

(* As long as the chains that stand do not change, nor what was paid.       *)
LEMMA SpentAsBefore ==
    ASSUME SpendInv, Standing' = Standing, fresh' = fresh, UNCHANGED <<used, slots>>,
           Casting' = Casting, \A c \in fresh \cup Casting : chain'[c] = chain[c]
    PROVE  SpendInv'
<1>1. \A w \in Who : Of(w, fresh)' = Of(w, fresh) /\ Of(w, Casting)' = Of(w, Casting)
  BY DEF Of
<1> QED
  BY <1>1 DEF SpendInv

LEMMA SpendsAtStart == Init => SpendInv
<1> SUFFICES ASSUME Init PROVE SpendInv
  OBVIOUS
<1>1. Standing = {} /\ Casting = {} /\ fresh = {}
  BY DEF Init, NoChain, Standing, Casting
<1>2. \A w \in Who : Of(w, fresh) = {} /\ Of(w, Casting) = {}
  BY <1>1 DEF Of
<1>3. \A w \in Who : used[w] = 0 /\ slots[w] = 0
  BY DEF Init
<1>4. IsFiniteSet({}) /\ Cardinality({}) = 0
  BY FS_EmptySet
<1> QED
  BY <1>1, <1>2, <1>3, <1>4 DEF SpendInv

(* A chain that is applied is paid for.                                     *)
LEMMA ApplyIsPaid ==
    ASSUME TypeInv, SpendInv, NEW c \in Chain, NEW role, Apply(c, role)
    PROVE  SpendInv'
<1> DEFINE k == chain[c]
<1>1. /\ k.state = "pending" /\ k.actor \in there
      /\ used' = [used EXCEPT ![k.actor] = @ + 1]
      /\ slots' = IF k.casts THEN [slots EXCEPT ![k.actor] = @ + 1] ELSE slots
      /\ chain' = [chain EXCEPT ![c] =
             [state |-> "applied", actor |-> k.actor, targets |-> k.targets,
              casts |-> k.casts, broke |-> Breaks(k), cascades |-> Cascades(k),
              was |-> board, after |-> Applied(k, c)]]
      /\ fresh' = fresh \cup {c}
  BY DEF Apply
<1>2. /\ k.actor \in Who /\ k.casts \in BOOLEAN /\ c \notin fresh
      /\ used \in [Who -> 0..MaxActions] /\ slots \in [Who -> 0..MaxSlots]
  BY <1>1 DEF TypeInv, TypeOK
<1>3. c \notin Standing /\ c \notin Casting
  BY <1>1 DEF Standing, Casting
<1> HIDE DEF k
<1>4. /\ chain'[c].state = "applied" /\ chain'[c].actor = k.actor
      /\ chain'[c].casts = k.casts /\ \A d \in Chain \ {c} : chain'[d] = chain[d]
  BY <1>1 DEF TypeInv
<1>5. Standing' = Standing \cup {c}
  BY <1>3, <1>4 DEF Standing
<1>6. Casting' = Casting \cup (IF k.casts THEN {c} ELSE {})
  BY <1>2, <1>3, <1>4 DEF Casting
<1>7. IsFiniteSet(Standing')
  BY <1>5, FS_AddElement DEF SpendInv
<1>8. fresh \subseteq Chain /\ Casting \subseteq Chain
  BY DEF TypeInv, TypeOK, Casting
<1>9. ASSUME NEW w \in Who
      PROVE  /\ Cardinality(Of(w, fresh)') <= used'[w]
             /\ Cardinality(Of(w, Casting)') <= slots'[w]
  <2>1. /\ Of(w, fresh)' = Of(w, fresh) \cup (IF w = k.actor THEN {c} ELSE {})
        /\ c \notin Of(w, fresh)
    BY <1>1, <1>2, <1>4, <1>8 DEF Of
  <2>2. /\ Of(w, Casting)' = Of(w, Casting) \cup (IF w = k.actor /\ k.casts THEN {c} ELSE {})
        /\ c \notin Of(w, Casting)
    BY <1>3, <1>4, <1>6, <1>8 DEF Of
  <2>3. /\ IsFiniteSet(Of(w, fresh)) /\ Cardinality(Of(w, fresh)) \in Nat
        /\ IsFiniteSet(Of(w, Casting)) /\ Cardinality(Of(w, Casting)) \in Nat
        /\ Cardinality(Of(w, fresh)) <= used[w] /\ Cardinality(Of(w, Casting)) <= slots[w]
    BY OfIsFinite DEF SpendInv
  <2>4. /\ Cardinality(Of(w, fresh) \cup {c}) = Cardinality(Of(w, fresh)) + 1
        /\ Cardinality(Of(w, Casting) \cup {c}) = Cardinality(Of(w, Casting)) + 1
    BY <2>1, <2>2, <2>3, FS_AddElement
  <2>5. used[w] \in Nat /\ slots[w] \in Nat
    BY <1>2, BoundsAreNat
  <2>6. /\ used'[w] = IF w = k.actor THEN used[w] + 1 ELSE used[w]
        /\ slots'[w] = IF w = k.actor /\ k.casts THEN slots[w] + 1 ELSE slots[w]
    BY <1>1, <1>2
  <2>7. CASE w # k.actor
    <3>1. Of(w, fresh)' = Of(w, fresh) /\ Of(w, Casting)' = Of(w, Casting)
      BY <2>1, <2>2, <2>7
    <3> QED
      BY <3>1, <2>3, <2>6, <2>7
  <2>8. CASE w = k.actor /\ ~k.casts
    <3>1. Of(w, fresh)' = Of(w, fresh) \cup {c} /\ Of(w, Casting)' = Of(w, Casting)
      BY <2>1, <2>2, <2>8
    <3> QED
      BY <3>1, <2>3, <2>4, <2>5, <2>6, <2>8
  <2>9. CASE w = k.actor /\ k.casts
    <3>1. Of(w, fresh)' = Of(w, fresh) \cup {c} /\ Of(w, Casting)' = Of(w, Casting) \cup {c}
      BY <2>1, <2>2, <2>9
    <3> QED
      BY <3>1, <2>3, <2>4, <2>5, <2>6, <2>9
  <2> QED
    BY <1>2, <2>7, <2>8, <2>9
<1> QED
  BY <1>7, <1>9 DEF SpendInv

(* What an undo gives back was spent on the chain it undoes.                *)
LEMMA UndoIsPaid ==
    ASSUME "late_undo" \notin Env, TypeInv, SpendInv, NEW c \in Chain, Undo(c)
    PROVE  SpendInv'
<1> DEFINE k == chain[c]
<1>1. /\ k.state = "applied" /\ k.actor \in there /\ c \in fresh
      /\ used' = [used EXCEPT ![k.actor] = Less(@)]
      /\ slots' = IF k.casts THEN [slots EXCEPT ![k.actor] = Less(@)] ELSE slots
      /\ chain' = [chain EXCEPT ![c] = [state |-> "undone"]] /\ fresh' = fresh \ {c}
  BY DEF Undo
<1>2. /\ k.actor \in Who /\ k.casts \in BOOLEAN
      /\ used \in [Who -> 0..MaxActions] /\ slots \in [Who -> 0..MaxSlots]
  BY <1>1 DEF TypeInv, TypeOK, KeptOK
<1>3. /\ c \in Of(k.actor, fresh) /\ c \in Standing /\ (c \in Casting <=> k.casts)
      /\ \A w \in Who \ {k.actor} : c \notin Of(w, fresh) /\ c \notin Of(w, Casting)
      /\ k.casts => c \in Of(k.actor, Casting)
  BY <1>1, <1>2 DEF Of, Standing, Casting
<1> HIDE DEF k
<1>4. chain'[c].state = "undone" /\ \A d \in Chain \ {c} : chain'[d] = chain[d]
  BY <1>1 DEF TypeInv
<1>5. Standing' = Standing \ {c} /\ Casting' = Casting \ {c}
  BY <1>4 DEF Standing, Casting
<1>6. IsFiniteSet(Standing')
  BY <1>5, FS_RemoveElement DEF SpendInv
<1>7. fresh \subseteq Chain /\ Casting \subseteq Chain
  BY DEF TypeInv, TypeOK, Casting
<1>8. ASSUME NEW w \in Who
      PROVE  /\ Cardinality(Of(w, fresh)') <= used'[w]
             /\ Cardinality(Of(w, Casting)') <= slots'[w]
  <2>1. Of(w, fresh)' = Of(w, fresh) \ {c} /\ Of(w, Casting)' = Of(w, Casting) \ {c}
    BY <1>1, <1>4, <1>5, <1>7 DEF Of
  <2>2. /\ IsFiniteSet(Of(w, fresh)) /\ Cardinality(Of(w, fresh)) \in Nat
        /\ IsFiniteSet(Of(w, Casting)) /\ Cardinality(Of(w, Casting)) \in Nat
        /\ Cardinality(Of(w, fresh)) <= used[w] /\ Cardinality(Of(w, Casting)) <= slots[w]
    BY OfIsFinite DEF SpendInv
  <2>3. /\ Cardinality(Of(w, fresh) \ {c}) =
             IF c \in Of(w, fresh) THEN Cardinality(Of(w, fresh)) - 1
             ELSE Cardinality(Of(w, fresh))
        /\ Cardinality(Of(w, Casting) \ {c}) =
             IF c \in Of(w, Casting) THEN Cardinality(Of(w, Casting)) - 1
             ELSE Cardinality(Of(w, Casting))
    BY <2>2, FS_RemoveElement
  <2>4. /\ used[w] \in Nat /\ slots[w] \in Nat
        /\ used'[w] = IF w = k.actor THEN Less(used[w]) ELSE used[w]
        /\ slots'[w] = IF w = k.actor /\ k.casts THEN Less(slots[w]) ELSE slots[w]
    BY <1>1, <1>2, BoundsAreNat
  <2>5. c \in Of(w, Casting) => k.casts
    BY <1>3 DEF Of
  <2>6. /\ Cardinality(Of(w, fresh) \ {c}) \in Nat /\ Cardinality(Of(w, Casting) \ {c}) \in Nat
    BY <2>2, FS_RemoveElement, FS_CardinalityType
  <2>7. CASE w # k.actor
    BY <1>3, <2>1, <2>2, <2>3, <2>4, <2>7
  <2>8. CASE w = k.actor /\ ~k.casts
    BY <1>3, <2>1, <2>2, <2>3, <2>4, <2>5, <2>6, <2>8 DEF Less
  <2>9. CASE w = k.actor /\ k.casts
    BY <1>3, <2>1, <2>2, <2>3, <2>4, <2>6, <2>9 DEF Less
  <2> QED
    BY <1>2, <2>7, <2>8, <2>9
<1> QED
  BY <1>6, <1>8 DEF SpendInv

(* Every step keeps the accounts.                                           *)
LEMMA SpendStep ==
    ASSUME "late_undo" \notin Env
    PROVE  TypeInv /\ SpendInv /\ [Next]_vars => SpendInv'
<1> SUFFICES ASSUME TypeInv, SpendInv, [Next]_vars PROVE SpendInv'
  OBVIOUS
<1>1. ASSUME NEW c \in Chain, Preview(c) PROVE SpendInv'
  <2>1. PICK a \in there, ts \in SUBSET there, action \in Actions :
          chain' = [chain EXCEPT ![c] =
            [state |-> "pending", actor |-> a, targets |-> ts,
             effect |-> action.effect, casts |-> action.casts, version |-> turn.version]]
    BY <1>1 DEF Preview
  <2>2. chain'[c].state = "pending" /\ \A d \in Chain \ {c} : chain'[d] = chain[d]
    BY <2>1 DEF TypeInv
  <2>3. chain[c].state = "none" /\ UNCHANGED <<used, slots, fresh>>
    BY <1>1 DEF Preview
  <2>4. Standing' = Standing /\ Casting' = Casting
    BY <2>2, <2>3 DEF Standing, Casting
  <2>5. \A d \in fresh \cup Casting : d \in Chain \ {c}
    BY <2>3 DEF TypeInv, TypeOK, Casting
  <2> QED
    BY <2>2, <2>3, <2>4, <2>5, SpentAsBefore
<1>2. ASSUME NEW c \in Chain, NEW role, Apply(c, role) PROVE SpendInv'
  BY <1>2, ApplyIsPaid
<1>3. ASSUME NEW c \in Chain, Undo(c) PROVE SpendInv'
  BY <1>3, UndoIsPaid
<1>4. ASSUME NEW w \in Who, BeginTurn(w) PROVE SpendInv'
  <2>1. /\ used' = [used EXCEPT ![w] = 0] /\ UNCHANGED <<slots, chain>>
        /\ fresh' = {c \in fresh : chain[c].actor # w}
    BY <1>4 DEF BeginTurn
  <2>2. used \in [Who -> 0..MaxActions]
    BY DEF TypeInv, TypeOK
  <2>3. Standing' = Standing /\ Casting' = Casting
    BY <2>1 DEF Standing, Casting
  <2>4. ASSUME NEW v \in Who
        PROVE  /\ Cardinality(Of(v, fresh)') <= used'[v]
               /\ Cardinality(Of(v, Casting)') <= slots'[v]
    <3>1. Of(v, Casting)' = Of(v, Casting)
      BY <2>1, <2>3 DEF Of
    <3>2. CASE v = w
      <4>1. Of(v, fresh)' = {} /\ used'[v] = 0
        BY <2>1, <2>2, <3>2 DEF Of
      <4>2. Cardinality({}) = 0
        BY FS_EmptySet
      <4>3. Cardinality(Of(v, fresh)') <= used'[v]
        BY <4>1, <4>2
      <4>4. Cardinality(Of(v, Casting)) <= slots[v] /\ slots' = slots
        BY <2>1 DEF SpendInv
      <4> QED
        BY <3>1, <4>3, <4>4
    <3>3. CASE v # w
      <4>1. Of(v, fresh)' = Of(v, fresh) /\ used'[v] = used[v]
        BY <2>1, <2>2, <3>3 DEF Of
      <4> QED
        BY <2>1, <3>1, <4>1 DEF SpendInv
    <3> QED
      BY <3>2, <3>3
  <2> QED
    BY <2>3, <2>4 DEF SpendInv
<1>5. ASSUME UNCHANGED <<used, slots, chain, fresh>> PROVE SpendInv'
  BY <1>5, SpentAsBefore DEF Standing, Casting
<1>6. ASSUME NEW w \in Who,
             \/ UpdateCombatant(w) \/ EndConcentration(w) \/ PassSave(w) \/ Concentrate(w)
             \/ Remove(w) \/ \E t \in Who : Link(w, t)
      PROVE  SpendInv'
  BY <1>5, <1>6 DEF UpdateCombatant, EndConcentration, PassSave, Concentrate, Link, Remove,
                    Workspace
<1>7. CASE UNCHANGED vars
  BY <1>5, <1>7 DEF vars
<1>8. CASE Next
  BY <1>1, <1>2, <1>3, <1>4, <1>6, <1>8 DEF Next
<1> QED
  BY <1>7, <1>8

(* Nobody acts more often than it can pay for: the chains that stand are    *)
(* counted against the actor's actions of the turn and against its slots,   *)
(* provided that no chain is undone once the actor's turn is over.          *)
THEOREM ActionsArePaidFor ==
    ASSUME "late_undo" \notin Env
    PROVE  Spec => []SpendsAreCovered
<1>1. TypeInv /\ SpendInv => SpendsAreCovered
  <2> SUFFICES ASSUME TypeInv, SpendInv, NEW w \in Who
               PROVE  /\ Count(w, fresh) <= used[w] /\ used[w] <= MaxActions
                      /\ Count(w, Casting) <= slots[w] /\ slots[w] <= MaxSlots
    BY DEF SpendsAreCovered, Casting
  <2>1. used[w] \in 0..MaxActions /\ slots[w] \in 0..MaxSlots
    BY DEF TypeInv, TypeOK
  <2>2. Count(w, fresh) <= used[w] /\ Count(w, Casting) <= slots[w]
    BY DEF SpendInv, Count, Of
  <2> QED
    BY <2>1, <2>2, BoundsAreNat
<1> QED
  BY <1>1, TypesHold, SpendsAtStart, SpendStep, PTL DEF Spec
-----------------------------------------------------------------------------
(* What an undo gives back.                                                 *)

(* Those whose concentration goes back if the chain k is undone when the    *)
(* fight is as k left it.                                                   *)
Reverted(k) ==
    {v \in Who : \/ k.casts /\ k.after[v].on = "cast"
                 \/ k.after[v].on = None /\ k.was[v].on # None}

(* The undo of the chain k with id c gives v back what k took: what it does *)
(* not put back of v, k left alone.                                         *)
GivesBack(k, c, v) ==
    /\ v \notin k.targets => k.after[v].hp = k.was[v].hp
    /\ v \notin Reverted(k) \cap (k.targets \cup Focus(k)) => k.after[v].on = k.was[v].on
    /\ v \in k.targets =>
         k.was[v].saves = (k.after[v].saves \ {c})
                            \cup (IF k.broke THEN k.was[v].saves ELSE {})
    /\ v \notin k.targets /\ ~(v \in Focus(k) /\ v \in Reverted(k)) =>
         /\ v \in k.cascades => k.was[v].saves = k.after[v].saves \ {c}
         /\ v \notin k.cascades => k.was[v].saves = k.after[v].saves
    /\ v \notin k.targets \cup k.cascades => k.after[v].linked = k.was[v].linked

ExactInv ==
    \A c \in Chain : chain[c].state = "applied" => \A v \in there : GivesBack(chain[c], c, v)

(* A chain, when it is applied: nobody it drops has saves queued, and no    *)
(* actor drops saves of a concentration it no longer has.                   *)
LEMMA AppliedGivesBack ==
    ASSUME "queued_saves" \notin Env, "orphan_saves" \notin Env, TypeInv, SavesAreOld,
           NEW c \in Chain, NEW role, Apply(c, role), NEW v \in there
    PROVE  GivesBack(chain'[c], c, v)
<1> DEFINE k == chain[c]
           n == chain'[c]
           x == board[v]
           y == Applied(k, c)[v]
<1>1. /\ k.state = "pending" /\ k.actor \in there /\ k.targets \subseteq there
      /\ \A t \in Dropped(k) : board[t].saves = {}
      /\ ~DropsOrphans(k)
      /\ chain' = [chain EXCEPT ![c] =
             [state |-> "applied", actor |-> k.actor, targets |-> k.targets,
              casts |-> k.casts, broke |-> Breaks(k), cascades |-> Cascades(k),
              was |-> board, after |-> Applied(k, c)]]
  BY DEF Apply
<1>2. /\ there \subseteq Who /\ board \in [Who -> Row] /\ k.casts \in BOOLEAN /\ v \in Who
  BY <1>1 DEF TypeInv, TypeOK
<1>3. c \notin x.saves
  BY <1>1 DEF SavesAreOld, Done
<1> HIDE DEF k
<1>4. /\ n.targets = k.targets /\ n.casts = k.casts /\ n.broke = Breaks(k)
      /\ n.cascades = Cascades(k) /\ n.actor = k.actor /\ n.was[v] = x /\ n.after[v] = y
  BY <1>1 DEF TypeInv
<1>5. /\ y.hp = IF v \in k.targets THEN Hurt(x.hp, k.effect) ELSE x.hp
      /\ y.on = IF v \in Dropped(k) THEN None ELSE PaidOn(k, v)
      /\ v \in Dropped(k) => y.saves = {}
      /\ v \notin Dropped(k) =>
           y.saves = PaidSaves(k, v)
             \cup (IF v \in Shaken(k) /\ ~(k.casts /\ v = k.actor) THEN {c} ELSE {})
      /\ y.linked = x.linked \ (Dropped(k) \cup Loosened(k))
  BY <1>1, <1>2, AppliedRow
<1>6. Dropped(k) \subseteq k.targets /\ Shaken(k) \subseteq k.targets
  BY DEF Dropped, Shaken
<1>7. /\ v \in Focus(n) <=> Breaks(k) /\ v = k.actor /\ v \notin k.targets
      /\ v \in Reverted(n) <=> (k.casts /\ y.on = "cast") \/ (y.on = None /\ x.on # None)
  BY <1>2, <1>4 DEF Focus, Reverted
<1> HIDE DEF n, x, y
<1>8. v \notin k.targets => y.hp = x.hp
  BY <1>5
<1>9. v \notin Reverted(n) \cap (k.targets \cup Focus(n)) => y.on = x.on
  BY <1>5, <1>6, <1>7 DEF PaidOn, x
<1>10. v \in k.targets => x.saves = (y.saves \ {c}) \cup (IF n.broke THEN x.saves ELSE {})
  <2>1. CASE v \in Dropped(k)
    BY <1>1, <1>5, <2>1 DEF x
  <2>2. CASE v \notin Dropped(k) /\ v = k.actor /\ Breaks(k)
    BY <1>4, <1>5, <2>2 DEF PaidSaves
  <2>3. CASE v \notin Dropped(k) /\ ~(v = k.actor /\ Breaks(k))
    BY <1>3, <1>5, <2>3 DEF PaidSaves, x
  <2> QED
    BY <2>1, <2>2, <2>3
<1>11. v \notin k.targets /\ ~(v \in Focus(n) /\ v \in Reverted(n)) => x.saves = y.saves
  <2> SUFFICES ASSUME v \notin k.targets, ~(v \in Focus(n) /\ v \in Reverted(n))
               PROVE  x.saves = y.saves
    OBVIOUS
  <2>1. y.saves = PaidSaves(k, v) /\ y.on = PaidOn(k, v)
    BY <1>5, <1>6
  <2>2. CASE v = k.actor /\ Breaks(k)
    <3>1. v \notin Reverted(n)
      BY <2>2, <1>7
    <3>2. Down(board, v)
      <4>1. CASE k.casts
        BY <4>1, <3>1, <2>1, <2>2, <1>7 DEF PaidOn
      <4>2. CASE ~k.casts
        BY <4>2, <2>2 DEF Breaks
      <4> QED
        BY <4>1, <4>2
    <3>3. x.on = None
      BY <3>1, <3>2, <2>1, <2>2, <1>7 DEF PaidOn
    <3>4. x.saves = {}
      BY <3>2, <3>3, <2>2, <1>1 DEF DropsOrphans, x
    <3> QED
      BY <3>4, <2>1, <2>2 DEF PaidSaves
  <2>3. CASE ~(v = k.actor /\ Breaks(k))
    BY <2>1, <2>3 DEF PaidSaves, x
  <2> QED
    BY <2>2, <2>3
<1>12. c \notin y.saves \/ v \in k.targets
  BY <1>3, <1>5, <1>6 DEF PaidSaves, x
<1>13. v \notin k.targets \cup Cascades(k) => y.linked = x.linked
  BY <1>5 DEF Cascades, Loosened, x
<1>14. v \notin k.targets /\ ~(v \in Focus(n) /\ v \in Reverted(n)) =>
         /\ v \in n.cascades => x.saves = y.saves \ {c}
         /\ v \notin n.cascades => x.saves = y.saves
  BY <1>11, <1>12
<1>15. GivesBack(n, c, v)
  BY <1>4, <1>8, <1>9, <1>10, <1>13, <1>14 DEF GivesBack
<1> QED
  BY <1>15 DEF n

(* Chains keep what they give back.                                         *)
LEMMA ExactStep ==
    ASSUME "queued_saves" \notin Env, "orphan_saves" \notin Env
    PROVE  TypeInv /\ SavesAreOld /\ ExactInv /\ [Next]_vars => ExactInv'
<1> SUFFICES ASSUME TypeInv, SavesAreOld, ExactInv, [Next]_vars PROVE ExactInv'
  OBVIOUS
<1>1. ASSUME there' \subseteq there, NEW c \in Chain,
             \A d \in Chain \ {c} : chain'[d] = chain[d],
             chain'[c].state = "applied" => \A v \in there : GivesBack(chain'[c], c, v)
      PROVE  ExactInv'
  <2> SUFFICES ASSUME NEW d \in Chain, chain'[d].state = "applied", NEW v \in there'
               PROVE  GivesBack(chain'[d], d, v)
    BY DEF ExactInv, GivesBack, Reverted, Focus
  <2>1. CASE d = c
    BY <1>1, <2>1
  <2>2. CASE d # c
    BY <1>1, <2>2 DEF ExactInv
  <2> QED
    BY <2>1, <2>2
<1>2. ASSUME there' \subseteq there, chain' = chain PROVE ExactInv'
  <2>1. \A c \in Chain, v \in there' : chain[c].state = "applied" => GivesBack(chain[c], c, v)
    BY <1>2 DEF ExactInv
  <2> QED
    BY <1>2, <2>1 DEF ExactInv, GivesBack, Reverted, Focus
<1>3. ASSUME NEW c \in Chain, Preview(c) PROVE ExactInv'
  <2>1. PICK a \in there, ts \in SUBSET there, action \in Actions :
          chain' = [chain EXCEPT ![c] =
            [state |-> "pending", actor |-> a, targets |-> ts,
             effect |-> action.effect, casts |-> action.casts, version |-> turn.version]]
    BY <1>3 DEF Preview
  <2>2. chain'[c].state = "pending" /\ \A d \in Chain \ {c} : chain'[d] = chain[d]
    BY <2>1 DEF TypeInv
  <2> QED
    BY <1>1, <1>3, <2>2 DEF Preview
<1>4. ASSUME NEW c \in Chain, NEW role, Apply(c, role) PROVE ExactInv'
  <2>1. \A v \in there : GivesBack(chain'[c], c, v)
    BY <1>4, AppliedGivesBack
  <2>2. there' = there /\ \A d \in Chain \ {c} : chain'[d] = chain[d]
    BY <1>4 DEF Apply, TypeInv
  <2> QED
    BY <1>1, <2>1, <2>2
<1>5. ASSUME NEW c \in Chain, Undo(c) PROVE ExactInv'
  <2>1. there' = there /\ chain' = [chain EXCEPT ![c] = [state |-> "undone"]]
    BY <1>5 DEF Undo
  <2>2. chain'[c].state = "undone" /\ \A d \in Chain \ {c} : chain'[d] = chain[d]
    BY <2>1 DEF TypeInv
  <2> QED
    BY <1>1, <2>1, <2>2
<1>6. ASSUME NEW w \in Who,
             \/ BeginTurn(w) \/ UpdateCombatant(w) \/ EndConcentration(w) \/ PassSave(w)
             \/ Concentrate(w) \/ Remove(w) \/ \E t \in Who : Link(w, t)
      PROVE  ExactInv'
  BY <1>2, <1>6 DEF BeginTurn, UpdateCombatant, EndConcentration, PassSave, Concentrate,
                    Link, Remove, Workspace
<1>7. CASE UNCHANGED vars
  BY <1>2, <1>7 DEF vars
<1>8. CASE Next
  BY <1>3, <1>4, <1>5, <1>6, <1>8 DEF Next
<1> QED
  BY <1>7, <1>8

(* An undo that finds the fight as its chain left it.                       *)
LEMMA UndoGivesBack ==
    ASSUME TypeInv, ExactInv, NEW c \in Chain, Undo(c), AsLeft(chain[c]), NEW v \in there
    PROVE  board'[v] = chain[c].was[v]
<1> DEFINE k == chain[c]
           x == k.was[v]
           y == board[v]
           z == board'[v]
<1>1. /\ k.state = "applied" /\ k.actor \in there /\ board' = Undone(k, c)
      /\ board[v] = k.after[v]
  BY DEF Undo, Undone, AsLeft
<1>2. /\ there \subseteq Who /\ board \in [Who -> Row] /\ v \in Who /\ KeptOK(k)
  BY <1>1 DEF TypeInv, TypeOK
<1>3. GivesBack(k, c, v)
  BY <1>1 DEF ExactInv
<1> HIDE DEF k
<1>4. v \in Reverting(k) <=> v \in Reverted(k)
  BY <1>1, <1>2 DEF Reverting, Reverted, Reverts
<1>5. /\ z \in Row
      /\ z.hp = IF v \in k.targets THEN x.hp ELSE y.hp
      /\ v \in Reverting(k) /\ v \in k.targets \cup Focus(k) => z.on = x.on
      /\ v \notin Reverting(k) => z.on = y.on
      /\ v \notin k.targets \cup Focus(k) => z.on = y.on
      /\ v \in k.targets =>
           z.saves = (y.saves \ {c}) \cup (IF k.broke THEN x.saves ELSE {})
      /\ v \in Focus(k) /\ v \in Reverting(k) => z.saves = x.saves
      /\ v \notin k.targets /\ ~(v \in Focus(k) /\ v \in Reverting(k)) =>
           /\ v \in k.cascades => z.saves = y.saves \ {c}
           /\ v \notin k.cascades => z.saves = y.saves
      /\ z.linked = IF v \in k.targets \cup k.cascades THEN x.linked ELSE y.linked
  BY <1>1, <1>2, UndoneRow DEF KeptOK
<1>6. /\ v \notin k.targets => y.hp = x.hp
      /\ v \notin Reverted(k) \cap (k.targets \cup Focus(k)) => y.on = x.on
      /\ v \in k.targets =>
           x.saves = (y.saves \ {c}) \cup (IF k.broke THEN x.saves ELSE {})
      /\ v \notin k.targets /\ ~(v \in Focus(k) /\ v \in Reverted(k)) =>
           /\ v \in k.cascades => x.saves = y.saves \ {c}
           /\ v \notin k.cascades => x.saves = y.saves
      /\ v \notin k.targets \cup k.cascades => y.linked = x.linked
  BY <1>1, <1>3 DEF GivesBack
<1>7. x \in Row
  BY <1>2 DEF KeptOK
<1> HIDE DEF x, y, z
<1>8. z.hp = x.hp /\ z.linked = x.linked
  BY <1>5, <1>6
<1>9. z.on = x.on
  BY <1>4, <1>5, <1>6
<1>10. z.saves = x.saves
  <2>1. CASE v \in k.targets
    BY <1>5, <1>6, <2>1
  <2>2. CASE v \in Focus(k) /\ v \in Reverting(k)
    BY <1>5, <2>2
  <2>3. CASE v \notin k.targets /\ ~(v \in Focus(k) /\ v \in Reverting(k))
    BY <1>4, <1>5, <1>6, <2>3
  <2> QED
    BY <2>1, <2>2, <2>3
<1>11. z = x
  BY <1>5, <1>7, <1>8, <1>9, <1>10, SameFields
<1> QED
  BY <1>11 DEF x, z, k

(* Undoing a chain when the fight is again as the chain left it puts back   *)
(* everything the chain took, provided that it dropped nobody with saves    *)
(* queued and its actor no saves of a lost concentration.  Undos may come   *)
(* late, or find other chains' traces, in between.                          *)
THEOREM UndosAreExact ==
    ASSUME "queued_saves" \notin Env, "orphan_saves" \notin Env
    PROVE  Spec => UndoIsExact
<1>1. Init => ExactInv
  BY DEF Init, ExactInv, NoChain
<1>2. TypeInv /\ ExactInv /\ [Next]_vars =>
        [\A c \in Chain :
           Undo(c) /\ AsLeft(chain[c]) => \A v \in there : board'[v] = chain[c].was[v]]_vars
  BY UndoGivesBack
<1>3. [](TypeInv /\ ExactInv) /\ [][Next]_vars => UndoIsExact
  BY <1>2, PTL DEF UndoIsExact
<1> QED
  BY <1>1, <1>3, TypesHold, ExactStep, PTL DEF Spec
=============================================================================
