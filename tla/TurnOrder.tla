------------------------------ MODULE TurnOrder ------------------------------
(***************************************************************************)
(* The turn engine of one running encounter (encounters.service.ts,        *)
(* encounters.logic.ts, encounter-idempotency.ts): advancing and undoing   *)
(* turns, the lair slot at initiative 20, combatants that go down, join,   *)
(* are removed and restored, and clients that resend a keyed request whose *)
(* answer they never saw.                                                  *)
(*                                                                         *)
(* Every action is one database transaction, but for an initiative write,  *)
(* whose turn index is recomputed after the commit.  Everything is in      *)
(* the database: a process death loses answers only.  Combatants are their *)
(* ids, which break ties as insertion order does.  Each has at most one    *)
(* effect that ticks when its turn ends and one condition that ticks when  *)
(* its turn starts.  Safety holds, fog, names, escalation dice, legendary  *)
(* and recharge counters and the combat log's prose are left out.          *)
(***************************************************************************)
EXTENDS Naturals, SequencesExt

CONSTANTS
    Combatant,      \* ids, positive
    Late,           \* those who are not there from the start
    Lairs,          \* those whose statblock has lair actions
    Rolls,          \* initiatives, 0 for not rolled
    LairCount,      \* LAIR_INITIATIVE_COUNT
    Intent,         \* clicks on Next turn or End turn, each with its own key
    MaxTries,       \* bound: how often an intent is sent
    MaxTimer,       \* bound: rounds an effect lasts
    MaxHits,        \* bound: HP writes that down or revive
    MaxMoves,       \* bound: combatants joining or removed, initiatives written
    MaxUndos,       \* bound: undone turns
    Env             \* what may happen: "removal", "initiative", "races" of clicks,
                    \* "stale_resume" after the turn has moved

NoOne == 0

ASSUME CombatantsAreIds == Combatant \subseteq Nat \ {0} /\ IsFiniteSet(Combatant)
ASSUME GroupsAreCombatants ==       \* a fight starts with somebody in it
    Late \subseteq Combatant /\ Lairs \subseteq Combatant /\ Late # Combatant
ASSUME BoundsAreNat ==
    /\ Rolls \subseteq Nat \ {0} /\ LairCount \in Nat
    /\ {MaxTries, MaxTimer, MaxHits, MaxMoves, MaxUndos} \subseteq Nat

VARIABLES
    roster,         \* ids of the combatants rows
    init,           \* Combatant -> initiative
    down,           \* those whose turn is skipped
    timers,         \* Combatant -> rounds left of its two timed effects
    enc,            \* the encounters row: the turn pointer and its versions
    ticks,          \* turn events that still carry a turnTickSnapshot
    claims,         \* encounter_op_idempotency: the intents honoured
    intent,         \* Intent -> the client's side of it
    receipt,        \* the last combatant_removal_undos row
    reindex,        \* an initiative write whose turn index is still to come
    spent,          \* how many hits, moves and undos there were
    moved,          \* ghost: Intent -> how often it moved the pointer
    prior,          \* ghost: what there was before the last move of the pointer
    ready,          \* ghost: there, able and unmoved since the round began
    acted           \* ghost: had the turn since the round began

vars == <<roster, init, down, timers, enc, ticks, claims, intent, receipt,
          reindex, spent, moved, prior, ready, acted>>

-----------------------------------------------------------------------------
(* encounters.logic.ts                                                      *)

(* sortCombatants on a running encounter: higher initiative first, then who *)
(* was there first.                                                         *)
Precedes(b, c, rolled) ==
    \/ rolled[b] > rolled[c]
    \/ rolled[b] = rolled[c] /\ b < c

Before(c, ids, rolled) == {b \in ids : Precedes(b, c, rolled)}

Sorted(ids, rolled) ==
    [k \in 1..Cardinality(ids) |->
       CHOOSE c \in ids : Cardinality(Before(c, ids, rolled)) = k - 1]

Able(c, out) == c \notin out
High(c) == init[c] >= LairCount
Least(S) == CHOOSE x \in S : \A y \in S : x <= y
Place(seq, c) == CHOOSE k \in 1..Len(seq) : seq[k] = c

(* turnIndexFor, from 0; 0 for a pointer to nobody.                         *)
IndexFor(seq, c) == IF c \in ToSet(seq) THEN Place(seq, c) - 1 ELSE 0

(* The last with initiative 20 or more.                                     *)
EntersLairAfter(c, seq) ==
    /\ c \in ToSet(seq) /\ High(c)
    /\ Place(seq, c) = Len(seq) \/ ~High(seq[Place(seq, c) + 1])

Turn(c, phase, resume, round) ==
    [current |-> c, phase |-> phase, resume |-> resume, round |-> round]

(* Mutant: the first look forward goes two places on.                       *)
AdvanceTurnTooFar(seq, out, c, round) ==
    LET n == Len(seq)
        k == IF c \in ToSet(seq) THEN Place(seq, c) ELSE 0
        ahead == {d \in 2..(n + 1) : Able(seq[((k + d - 1) % n) + 1], out)}
        d == Least(ahead)
    IN  IF ahead = {}
        THEN Turn(NoOne, "combatant", NoOne, round + 1)
        ELSE Turn(seq[((k + d - 1) % n) + 1], "combatant", NoOne,
                  IF k + d > n THEN round + 1 ELSE round)

(* advanceTurn: the next one able, one place or more ahead; the round goes  *)
(* up where the search passes the end, at most once.                        *)
AdvanceTurn(seq, out, c, round) ==
    LET n == Len(seq)
        k == IF c \in ToSet(seq) THEN Place(seq, c) ELSE 0
        ahead == {d \in 1..n : Able(seq[((k + d - 1) % n) + 1], out)}
        d == Least(ahead)
    IN  IF ahead = {}
        THEN Turn(NoOne, "combatant", NoOne, round + 1)
        ELSE Turn(seq[((k + d - 1) % n) + 1], "combatant", NoOne,
                  IF k + d > n THEN round + 1 ELSE round)

LowestRound(n) == IF n < 1 THEN 1 ELSE n

(* retreatTurn, its mirror image.                                           *)
RetreatTurn(seq, out, c, round) ==
    LET n == Len(seq)
        k == Place(seq, c)
        back == {d \in 1..n : Able(seq[((k - d - 1 + n) % n) + 1], out)}
        d == Least(back)
    IN  IF c \notin ToSet(seq) THEN Turn(seq[1], "combatant", NoOne, round)
        ELSE IF back = {} THEN Turn(NoOne, "combatant", NoOne, round)
        ELSE Turn(seq[((k - d - 1 + n) % n) + 1], "combatant", NoOne,
                  IF k - d < 1 THEN LowestRound(round - 1) ELSE round)

HasLair(seq) == ToSet(seq) \cap Lairs # {}

(* After the lair slot the one it was waiting for, or else the first low    *)
(* initiative; entering it keeps the round the basic step arrived in.       *)
AdvanceEncounterTurn(seq, out, e) ==
    LET lows == {k \in 1..Len(seq) : ~High(seq[k])}
        basic == AdvanceTurn(seq, out, e.current, e.round)
    IN  CASE e.phase = "lair" ->
               Turn(IF e.resume # NoOne THEN e.resume
                    ELSE IF lows # {} THEN seq[Least(lows)] ELSE seq[1],
                    "combatant", NoOne, e.round)
          [] OTHER ->
               IF /\ HasLair(seq) /\ EntersLairAfter(e.current, seq)
                  /\ basic.current # NoOne
               THEN Turn(NoOne, "lair", basic.current, basic.round)
               ELSE basic

(* Out of the lair slot to whoever stands before the one it waits for.      *)
RetreatEncounterTurn(seq, out, e) ==
    LET n == Len(seq)
        resume == IF e.resume # NoOne THEN e.resume ELSE seq[1]
        k == IF resume \in ToSet(seq) THEN Place(seq, resume) ELSE 1
        basic == RetreatTurn(seq, out, e.current, e.round)
    IN  CASE e.phase = "lair" ->
               IF k > 1 THEN Turn(seq[k - 1], "combatant", NoOne, e.round)
               ELSE Turn(seq[n], "combatant", NoOne, LowestRound(e.round - 1))
          [] OTHER ->
               IF HasLair(seq) /\ EntersLairAfter(basic.current, seq)
               THEN Turn(NoOne, "lair", e.current, basic.round)
               ELSE basic

-----------------------------------------------------------------------------
(* The pointer of an encounters row.                                        *)
Pointer(e) == Turn(e.current, e.phase, e.resume, e.round)

(* Mutant: the positional index is left where it was.                       *)
SteeredByIdentity(e, t, index) ==
    [e EXCEPT !.current = t.current, !.phase = t.phase, !.resume = t.resume,
              !.round = t.round]

Steered(e, t, index) ==
    [e EXCEPT !.current = t.current, !.phase = t.phase, !.resume = t.resume,
              !.round = t.round, !.index = index]

NoTimer == [atEnd |-> 0, atStart |-> 0]
Sooner(n) == IF n = 0 THEN 0 ELSE n - 1
EndTick(tm, c) == IF c = NoOne THEN tm ELSE [tm EXCEPT ![c].atEnd = Sooner(@)]
StartTick(tm, c) == IF c = NoOne THEN tm ELSE [tm EXCEPT ![c].atStart = Sooner(@)]

(* One side of a turnTickSnapshot: what one timer had before its tick.      *)
Delta(c, n) == [who |-> c, was |-> n]

(* applyEffectTickDelta and applyConditionTickDelta: put back what the tick *)
(* took where the timer still stands as the tick left it.                   *)
PutBack(tm, tick) ==
    LET e == tick.ending.who  s == tick.starting.who
        ended == IF e \in roster /\ tick.ending.was > 0 /\ tm[e].atEnd = tick.ending.was - 1
                 THEN [tm EXCEPT ![e].atEnd = tick.ending.was] ELSE tm
    IN  IF s \in roster /\ tick.starting.was > 0 /\ ended[s].atStart = tick.starting.was - 1
        THEN [ended EXCEPT ![s].atStart = tick.starting.was] ELSE ended

Idle == [pc |-> "idle", expects |-> NoOne, tries |-> 0, answer |-> "none"]
Nothing == [kind |-> "nothing", pointer |-> Turn(NoOne, "combatant", NoOne, 1),
            timers |-> [c \in Combatant |-> NoTimer], roster |-> {}]
NoReceipt == [who |-> NoOne, before |-> Nothing.pointer, after |-> <<>>,
              started |-> Delta(NoOne, 0), timers |-> NoTimer]

Remember(kind) ==
    [kind |-> kind, pointer |-> Pointer(enc), timers |-> timers, roster |-> roster]

Someone == Combatant \cup {NoOne}
Pointers == [current : Someone, phase : {"combatant", "lair"}, resume : Someone,
             round : Nat \ {0}]
Encounters == [current : Someone, phase : {"combatant", "lair"}, resume : Someone,
               round : Nat \ {0}, index : Nat, version : Nat, stateVersion : Nat]
Timer == [atEnd : 0..MaxTimer, atStart : 0..MaxTimer]
Timers == [Combatant -> Timer]
Deltas == [who : Someone, was : 0..MaxTimer]
Snapshots == [to : Pointers, ending : Deltas, starting : Deltas]
Requests == [pc : {"idle", "sent", "answered"}, expects : Someone, tries : Nat,
             answer : {"none", "ok", "refused"}]

TypeOK ==
    /\ roster \subseteq Combatant /\ down \subseteq Combatant
    /\ init \in [Combatant -> Rolls \cup {0}] /\ timers \in Timers
    /\ enc \in Encounters /\ claims \subseteq Intent
    /\ ticks \in Seq(Snapshots) /\ intent \in [Intent -> Requests]
    /\ receipt \in [who : Someone \ roster, before : Pointers, after : Encounters \cup {<<>>},
                     started : Deltas, timers : Timer]
    /\ receipt.who # NoOne => receipt.after \in Encounters
    /\ reindex \in [due : BOOLEAN, current : Someone]
    /\ spent \in [hits : Nat, moves : Nat, undos : Nat] /\ moved \in [Intent -> Nat]
    /\ prior \in [kind : {"nothing", "advance", "removal"}, pointer : Pointers,
                   timers : Timers, roster : SUBSET Combatant]
    /\ ready \subseteq Combatant /\ acted \subseteq Combatant

(* start: the lair leads a round nobody rolled 20 or more in.               *)
Init ==
    /\ roster = Combatant \ Late /\ down = {}
    /\ init \in [Combatant -> Rolls \cup {0}]
    /\ \A c \in Combatant : init[c] = 0 <=> c \in Late
    /\ timers = [c \in Combatant |-> [atEnd |-> MaxTimer, atStart |-> MaxTimer]]
    /\ LET seq == Sorted(roster, init)
           leads == HasLair(seq) /\ \A c \in roster : ~High(c)
       IN  /\ enc = [current |-> IF leads THEN NoOne ELSE seq[1], index |-> 0,
                     phase |-> IF leads THEN "lair" ELSE "combatant",
                     resume |-> IF leads THEN seq[1] ELSE NoOne,
                     round |-> 1, version |-> 1, stateVersion |-> 0]
           /\ acted = IF leads THEN {} ELSE {seq[1]}
    /\ ticks = <<>> /\ claims = {} /\ intent = [i \in Intent |-> Idle]
    /\ receipt = NoReceipt /\ reindex = [due |-> FALSE, current |-> NoOne]
    /\ spent = [hits |-> 0, moves |-> 0, undos |-> 0]
    /\ moved = [i \in Intent |-> 0] /\ prior = Nothing /\ ready = roster

Spend(what) == spent' = [spent EXCEPT ![what] = @ + 1]
KeepClients == UNCHANGED <<claims, intent, moved>>
KeepRoster == UNCHANGED <<roster, init, down, receipt>>
Forget == prior' = Nothing

(* Ghosts of a step that turns the pointer forward.                         *)
Witness(t, rows) ==
    LET on == {t.current} \ {NoOne}
    IN  IF t.round > enc.round
        THEN ready' = rows \ down /\ acted' = on
        ELSE ready' = ready \cap rows /\ acted' = acted \cup on

-----------------------------------------------------------------------------
(* A client and its keyed requests.                                         *)

(* A click names the combatant the client sees, or nobody.                  *)
Click(i) ==
    /\ intent[i].pc = "idle"
    /\ "races" \in Env \/ \A j \in Intent : intent[j].pc # "sent"
    /\ \E c \in {NoOne, enc.current} :
         intent' = [intent EXCEPT ![i] = [Idle EXCEPT !.pc = "sent", !.expects = c, !.tries = 1]]
    /\ KeepRoster /\ UNCHANGED <<timers, enc, ticks, claims, reindex, spent, moved,
                                prior, ready, acted>>

(* The answer never arrives.                                                *)
Resend(i) ==
    /\ intent[i].pc = "answered" /\ intent[i].tries < MaxTries
    /\ intent' = [intent EXCEPT ![i].pc = "sent", ![i].tries = @ + 1]
    /\ KeepRoster /\ UNCHANGED <<timers, enc, ticks, claims, reindex, spent, moved,
                                prior, ready, acted>>

(* The answer comes; what was expected matters only to another try.         *)
Answer(i, answer) ==
    intent' = [intent EXCEPT ![i].pc = "answered", ![i].answer = answer,
                 ![i].expects = IF intent[i].tries < MaxTries THEN @ ELSE NoOne]

(* Mutant: the answer is cached but the claim is not recorded.              *)
RecordNothing(i) == claims

(* recordEncounterOp, in the transaction that moves the pointer.            *)
RecordEncounterOp(i) == claims \cup {i}

Matches(i) ==
    intent[i].expects # NoOne =>
        enc.phase = "combatant" /\ enc.current = intent[i].expects

(* advanceCurrentTurn: a replay, a refusal, or the advance.                 *)
Replay(i) ==
    /\ intent[i].pc = "sent" /\ i \in claims
    /\ Answer(i, "ok")
    /\ KeepRoster /\ UNCHANGED <<timers, enc, ticks, claims, reindex, spent, moved,
                                prior, ready, acted>>

Refuse(i) ==
    /\ intent[i].pc = "sent" /\ i \notin claims
    /\ ~Matches(i) \/ roster = {}
    /\ Answer(i, "refused")
    /\ KeepRoster /\ UNCHANGED <<timers, enc, ticks, claims, reindex, spent, moved,
                                prior, ready, acted>>

AdvanceCurrentTurn(i) ==
    LET seq == Sorted(roster, init)
        t == AdvanceEncounterTurn(seq, down, enc)
        ending == IF enc.phase = "combatant" /\ enc.current \in roster
                  THEN enc.current ELSE NoOne
        starting == IF t.current \in roster THEN t.current ELSE NoOne
        ticked == EndTick(timers, ending)
        tick == [to |-> t,
                 ending |-> Delta(ending, IF ending = NoOne THEN 0 ELSE timers[ending].atEnd),
                 starting |-> Delta(starting, IF starting = NoOne THEN 0
                                              ELSE ticked[starting].atStart)]
    IN  /\ intent[i].pc = "sent" /\ i \notin claims /\ Matches(i) /\ roster # {}
        /\ timers' = StartTick(ticked, starting)
        /\ enc' = [Steered(enc, t, IndexFor(seq, IF t.phase = "lair" THEN ending ELSE t.current))
                     EXCEPT !.version = @ + 1]
        /\ ticks' = IF {ending, starting} = {NoOne} THEN ticks ELSE Append(ticks, tick)
        /\ claims' = RecordEncounterOp(i) /\ Answer(i, "ok")
        /\ moved' = [moved EXCEPT ![i] = @ + 1]
        /\ prior' = Remember("advance") /\ Witness(t, roster)
        /\ KeepRoster /\ UNCHANGED <<reindex, spent>>

-----------------------------------------------------------------------------
(* Undoing a turn.                                                          *)

(* The newest snapshot is used if it leads to where undo goes, or came from *)
(* there.                                                                   *)
Fits(tick, t) ==
    tick.to = t \/ (tick.ending.who # NoOne /\ tick.ending.who = t.current)

(* Mutant: the first snapshot of the fight instead of the newest.           *)
OldestTick == Head(ticks)

NewestTick == Last(ticks)

UndoTurn ==
    LET seq == Sorted(roster, init)
        t == RetreatEncounterTurn(seq, down, enc)
        fits == ticks # <<>> /\ Fits(NewestTick, t)
        at == IF t.phase = "lair"
              THEN RetreatTurn(seq, down, enc.current, enc.round).current ELSE t.current
    IN  /\ spent.undos < MaxUndos /\ roster # {}
        /\ ~(enc.round <= 1 /\ enc.phase = "combatant" /\ enc.current = seq[1])
        /\ timers' = IF fits THEN PutBack(timers, NewestTick) ELSE timers
        /\ ticks' = IF fits THEN Front(ticks) ELSE ticks
        /\ enc' = [Steered(enc, t, IndexFor(seq, at)) EXCEPT !.version = @ + 1]
        /\ Spend("undos") /\ Forget /\ ready' = {} /\ acted' = {}
        /\ KeepRoster /\ KeepClients /\ UNCHANGED reindex

-----------------------------------------------------------------------------
(* The roster.                                                              *)

(* updateCombatant: damage that downs, or healing that revives.             *)
HpWrite(c) ==
    /\ spent.hits < MaxHits /\ c \in roster
    /\ down' = IF c \in down THEN down \ {c} ELSE down \cup {c}
    /\ enc' = [enc EXCEPT !.stateVersion = @ + 1]
    /\ Spend("hits") /\ Forget /\ ready' = ready \ {c}
    /\ KeepClients /\ UNCHANGED <<roster, init, timers, ticks, receipt, reindex, acted>>

(* addCombatant: unrolled, so last.                                         *)
AddCombatant(c) ==
    /\ spent.moves < MaxMoves /\ c \in Late \ roster /\ c # receipt.who
    /\ roster' = roster \cup {c} /\ init' = [init EXCEPT ![c] = 0]
    /\ enc' = [enc EXCEPT !.stateVersion = @ + 1,
                          !.index = IndexFor(Sorted(roster', init'), enc.current)]
    /\ Spend("moves") /\ Forget
    /\ KeepClients /\ UNCHANGED <<down, timers, ticks, receipt, reindex, ready, acted>>

(* updateCombatant with an initiative, up to its commit.  The pointer goes  *)
(* with its combatant, past whoever it jumps.                               *)
SetInitiative(c, n) ==
    /\ "initiative" \in Env /\ spent.moves < MaxMoves /\ c \in roster
    /\ ~reindex.due /\ n # init[c]
    /\ init' = [init EXCEPT ![c] = n]
    /\ enc' = [enc EXCEPT !.stateVersion = @ + 1]
    /\ reindex' = [due |-> TRUE, current |-> enc.current]
    /\ ready' = IF c \in {enc.current, enc.resume} THEN {} ELSE ready \ {c}
    /\ Spend("moves") /\ Forget
    /\ KeepClients /\ UNCHANGED <<roster, down, timers, ticks, receipt, acted>>

(* Its turn index, computed with the pointer it read before the commit.     *)
Reindex ==
    /\ reindex.due
    /\ enc' = [enc EXCEPT !.index = IndexFor(Sorted(roster, init), reindex.current)]
    /\ reindex' = [due |-> FALSE, current |-> NoOne]
    /\ prior' = IF enc' = enc THEN prior ELSE Nothing
    /\ KeepRoster /\ KeepClients /\ UNCHANGED <<timers, ticks, spent, ready, acted>>

(* Mutant: a lair slot keeps waiting for whoever left.                      *)
AfterRemovalStillWaiting(c, seq) ==
    IF enc.current = c THEN AdvanceEncounterTurn(seq, down \cup {c}, enc) ELSE Pointer(enc)

(* removeCombatant: where the pointer goes.  The current one's turn passes  *)
(* on as if it had been downed; a lair slot that waits for it waits for     *)
(* the next one able, if there is one.                                      *)
AfterRemoval(c, seq) ==
    LET out == down \cup {c}
        next == AdvanceTurn(seq, out, c, enc.round).current
        e == IF enc.resume = c THEN [enc EXCEPT !.resume = NoOne] ELSE enc
    IN  IF enc.current = c THEN AdvanceEncounterTurn(seq, out, e)
        ELSE IF enc.phase = "lair" /\ enc.resume = c
        THEN Turn(enc.current, IF next = NoOne THEN "combatant" ELSE "lair", next, enc.round)
        ELSE Pointer(e)

RemoveCombatant(c) ==
    LET seq == Sorted(roster, init)
        rest == roster \ {c}
        t == AfterRemoval(c, seq)
        isCurrent == enc.current = c
        started == IF isCurrent /\ t.current \in rest THEN t.current ELSE NoOne
    IN  /\ "removal" \in Env /\ spent.moves < MaxMoves /\ c \in roster
        /\ roster' = rest
        /\ timers' = StartTick([timers EXCEPT ![c] = NoTimer], started)
        /\ enc' = [Steered(enc, t, IndexFor(Sorted(rest, init), t.current))
                     EXCEPT !.version = IF isCurrent THEN @ + 1 ELSE @, !.stateVersion = @ + 1]
        /\ receipt' = [who |-> c, before |-> Pointer(enc), after |-> enc',
                       started |-> Delta(started, IF started = NoOne THEN 0
                                                  ELSE timers[started].atStart),
                       timers |-> timers[c]]
        /\ Spend("moves") /\ prior' = Remember("removal") /\ Witness(t, rest)
        /\ KeepClients /\ UNCHANGED <<init, down, ticks, reindex>>

(* Mutant: only the pointer is compared, not the versions.                  *)
UntouchedPointer(r) == Pointer(enc) = Turn(r.after.current, r.after.phase, r.after.resume, r.after.round)

(* The encounter is as the removal left it.                                 *)
Untouched(r) == enc = r.after

(* undoRemoveCombatant, within its 30 seconds and not yet consumed.  If     *)
(* anything has happened since, the turn stays where it is.                 *)
UndoRemoveCombatant ==
    LET r == receipt
        rows == roster \cup {r.who}
        seq == Sorted(rows, init)
        back == [timers EXCEPT ![r.who] = r.timers]
        resume == IF r.before.resume = r.who /\ enc.resume = r.after.resume
                  THEN r.who ELSE enc.resume
    IN  /\ r.who # NoOne /\ roster' = rows /\ receipt' = NoReceipt
        /\ "stale_resume" \in Env \/ resume = enc.resume \/ enc.version = r.after.version
        /\ IF Untouched(r)
           THEN /\ enc' = [Steered(enc, r.before, IndexFor(seq, r.before.current)) EXCEPT
                             !.stateVersion = @ + 1,
                             !.version = IF r.before.current = enc.current THEN @ ELSE @ + 1]
                /\ timers' = IF r.started.who = NoOne THEN back
                             ELSE [back EXCEPT ![r.started.who].atStart = r.started.was]
                /\ ready' = {} /\ acted' = {}
           ELSE /\ enc' = [enc EXCEPT !.index = IndexFor(seq, enc.current),
                             !.resume = resume, !.stateVersion = @ + 1]
                /\ timers' = back /\ UNCHANGED <<ready, acted>>
        /\ Forget /\ KeepClients /\ UNCHANGED <<init, down, ticks, reindex, spent>>

(* The undo's 30 seconds pass.                                              *)
ReceiptExpires ==
    /\ receipt # NoReceipt /\ receipt' = NoReceipt
    /\ KeepClients /\ UNCHANGED <<roster, init, down, timers, enc, ticks, reindex, spent,
                                  prior, ready, acted>>

Next ==
    \/ \E i \in Intent :
         Click(i) \/ Resend(i) \/ Replay(i) \/ Refuse(i) \/ AdvanceCurrentTurn(i)
    \/ \E c \in Combatant : HpWrite(c) \/ AddCombatant(c) \/ RemoveCombatant(c)
    \/ \E c \in Combatant, n \in Rolls \cup {0} : SetInitiative(c, n)
    \/ UndoTurn \/ Reindex \/ UndoRemoveCombatant \/ ReceiptExpires

Spec == Init /\ [][Next]_vars

-----------------------------------------------------------------------------
(* The pointer and the lair slot's resume name combatants of the roster,    *)
(* whoever leaves, joins or goes down; the lair slot belongs to nobody and  *)
(* waits for somebody.  A pointer to a deleted row would hand the turn to   *)
(* nobody for ever.                                                         *)
PointerIsThere ==
    /\ {enc.current, enc.resume} \subseteq roster \cup {NoOne}
    /\ enc.phase = "lair" => enc.current = NoOne

LairSlotWaits == enc.phase = "lair" => enc.resume # NoOne

PointerNamesTheRoster == PointerIsThere /\ LairSlotWaits

(* The stored turn index is the place of the combatant it points to in the  *)
(* running order (turnIndexFor: "kept in lockstep with the identity         *)
(* pointer"), without writes of initiative.                                 *)
IndexFollowsPointer ==
    enc.current # NoOne => enc.index = IndexFor(Sorted(roster, init), enc.current)

(* One click moves the turn once, however often it is sent, and the client  *)
(* is told the truth: "ok" for a click that moved it, a refusal for one     *)
(* that never did.                                                          *)
IntentsCountOnce ==
    \A i \in Intent :
        /\ moved[i] <= 1
        /\ intent[i].answer = "ok" => moved[i] = 1
        /\ intent[i].answer = "refused" => moved[i] = 0

(* Undoing a turn straight after it went from one combatant to another      *)
(* gives the turn back to the first, in its round, with every timer the     *)
(* turn had ticked or ended (undoTurn, issue 1445), if the first is up.     *)
UndoTurnReverts ==
    [][/\ UndoTurn /\ prior.kind = "advance"
       /\ prior.pointer.current \in roster \ down /\ enc.current # NoOne
       => Pointer(enc') = prior.pointer /\ timers' = prior.timers]_vars

(* When a round ends, everyone who was there, able and left in place since  *)
(* it began has had a turn, whoever was removed, downed, revived or added   *)
(* meanwhile.                                                               *)
NobodyIsPassedOver ==
    [][enc'.round > enc.round => ready \cap roster' \subseteq acted]_vars

(* Undoing a removal is exact while nothing has happened since, and         *)
(* otherwise puts the combatant back without moving the turn: a late undo   *)
(* never rewinds a turn somebody took in the meantime.                      *)
RemovalUndoIsExact ==
    [][UndoRemoveCombatant =>
         IF prior.kind = "removal"
         THEN /\ Pointer(enc') = prior.pointer /\ roster' = prior.roster
              /\ timers' = prior.timers
         ELSE /\ enc'.current = enc.current /\ enc'.round = enc.round
              /\ enc'.phase = enc.phase]_vars
=============================================================================
