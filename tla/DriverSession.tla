---------------------------- MODULE DriverSession ----------------------------
(***************************************************************************)
(* The control record of one campaign's AI driver seat, and what each      *)
(* lever does to it (ai-driver.service.ts).  Pure operators: the modules   *)
(* DriverControl and DriverTurns are the state machines that use them.     *)
(*                                                                         *)
(* Abstractions.  A resolved vote is no vote: nothing reads a resolved     *)
(* ballot again.  The two maps of outstanding authority, secretReadAppro-  *)
(* vals and pendingToolConfirmations, are one set, `grants'.  `replay' is  *)
(* what the lastInputs entry was for: nothing, a player action, or one of  *)
(* the two lifecycle prompts.  Scene, narration and counters are left out. *)
(***************************************************************************)
CONSTANTS
    Member,         \* people who can hold the seat as acting DM
    NoOne,          \* actingDm = null
    VoteKind,       \* the table votes that may be opened
    Approval,       \* secret-read approvals a DM may grant
    Confirmation    \* confirm-policy tool calls the AI may queue

ASSUME NoOneIsNoMember == NoOne \notin Member
ASSUME VoteKindIsAction == VoteKind \subseteq {"override", "pause"}
ASSUME GrantsDiffer == Approval \cap Confirmation = {}

Grant == Approval \cup Confirmation

AiDmSessionStatus == {"idle", "running", "paused"}
AiDmSessionPhase == {"greeting", "active", "wrap_up", "ended"}
TransientPhase == {"greeting", "wrap_up"}
AiDmLadderState ==
    {"running", "awaiting_players", "paused", "human_control", "collaborative"}
MidTurnFrozenState == {"paused", "human_control"}
StuckReason == {"none", "provider_error", "other"}
Lifecycle == {"none", "greeting", "wrap_up"}

AiDmSessionState ==
    [status : AiDmSessionStatus, state : AiDmLadderState,
     phase : AiDmSessionPhase, collaborative : BOOLEAN, stuck : StuckReason,
     actingDm : Member \cup {NoOne}, vote : VoteKind \cup {"none"},
     grants : SUBSET Grant, replay : Lifecycle \cup {"player"}]

FreshSession ==
    [status |-> "idle", state |-> "running", phase |-> "active",
     collaborative |-> FALSE, stuck |-> "none", actingDm |-> NoOne,
     vote |-> "none", grants |-> {}, replay |-> "none"]

IsFrozen(s) == s.state \in MidTurnFrozenState

SettledPhaseFor(phase) ==
    [greeting |-> "active", wrap_up |-> "ended",
     active |-> "active", ended |-> "ended"][phase]

(* The mode wears a ladder state's clothes: only running <-> collaborative. *)
DeriveLadderState(state, collaborative) ==
    IF state \in {"running", "collaborative"}
    THEN IF collaborative THEN "collaborative" ELSE "running"
    ELSE state

-----------------------------------------------------------------------------
(* Levers.                                                                  *)

Paused(s) == [s EXCEPT !.status = "paused", !.state = "paused"]

(* Mutant: back to "running", whatever mode the table was in.               *)
ResumedBare(s) ==
    [s EXCEPT !.status = "idle",
              !.state = IF @ # "paused" THEN @
                        ELSE IF s.stuck # "none" THEN "awaiting_players"
                        ELSE "running"]

Resumed(s) ==
    [s EXCEPT !.status = "idle",
              !.state = IF @ # "paused" THEN @
                        ELSE IF s.stuck # "none" THEN "awaiting_players"
                        ELSE DeriveLadderState("running", s.collaborative)]

SafetyHeld(s) ==
    [s EXCEPT !.status = "paused",
              !.state = IF @ = "human_control" THEN @ ELSE "paused"]

CollaborativeSet(s, enabled) ==
    [s EXCEPT !.collaborative = enabled,
              !.state = DeriveLadderState(@, enabled)]

TakeoverGranted(s, member) ==
    [s EXCEPT !.actingDm = member, !.status = "paused",
              !.state = "human_control", !.stuck = "none"]

HandedBack(s) ==
    [s EXCEPT !.actingDm = NoOne, !.stuck = "none", !.status = "idle",
              !.state = DeriveLadderState("running", s.collaborative)]

VotePassed(s) ==
    LET closed == [s EXCEPT !.vote = "none"]
    IN  CASE s.state = "human_control" -> closed
          [] s.state # "human_control" /\ s.vote = "pause" -> Paused(closed)
          [] OTHER ->
               [closed EXCEPT
                  !.stuck = "none",
                  !.state = IF s.status = "paused" THEN "paused"
                            ELSE DeriveLadderState("running", s.collaborative)]

SlotReleased(s) == [s EXCEPT !.status = IF @ = "running" THEN "idle" ELSE @]

(* Mutant: no bail-out when the seat froze under the turn.                  *)
TurnClassifiedOverFreeze(s, reason) ==
    IF reason # "none"
    THEN [s EXCEPT !.state = "awaiting_players", !.stuck = reason]
    ELSE [s EXCEPT !.stuck = "none",
                   !.state = DeriveLadderState("running", s.collaborative)]

(* detectAndTransition: `reason' is the turn's stuck classification.        *)
TurnClassified(s, reason) ==
    CASE IsFrozen(s) -> s
      [] ~IsFrozen(s) /\ reason # "none" ->
           [s EXCEPT !.state = "awaiting_players", !.stuck = reason]
      [] OTHER ->
           [s EXCEPT !.stuck = "none",
                     !.state = DeriveLadderState("running", s.collaborative)]

-----------------------------------------------------------------------------
(* The durable row, and reading it back.                                    *)

(* Mutant: a running turn is not worth recording.                           *)
PersistedStatusSettled(s) == IF IsFrozen(s) THEN "paused" ELSE "idle"

PersistedStatusFor(s) ==
    IF IsFrozen(s) THEN "paused" ELSE s.status

Persisted(s) == [s EXCEPT !.status = PersistedStatusFor(s)]

SettledShape ==
    {"none", "safety_hold", "human_control", "paused", "stuck", "open_vote"}

HydratedState(control, held) ==
    LET sound == IF \/ control.state = "awaiting_players" /\ control.stuck = "none"
                    \/ control.state = "human_control" /\ control.actingDm = NoOne
                 THEN "running" ELSE control.state
        healthy == sound \in {"running", "collaborative"}
    IN  IF \/ control.status = "running"
           \/ control.status = "paused" /\ healthy
           \/ held /\ sound # "human_control"
        THEN "paused"
        ELSE DeriveLadderState(sound, control.collaborative)

(* Grants are read back to be revoked; a lapsed vote comes back failed.     *)
Hydrated(control, held, voteLapsed) ==
    LET state == HydratedState(control, held)
    IN  [control EXCEPT
           !.state = state,
           !.status = IF state \in MidTurnFrozenState THEN "paused" ELSE "idle",
           !.phase = IF @ \in TransientPhase THEN "active" ELSE @,
           !.vote = IF voteLapsed THEN "none" ELSE @,
           !.grants = {}]

(* What the table is told a boot recovered into, if anything.               *)
RecoveryOf(control, settled) ==
    IF control.status = "running" THEN "interrupted_turn" ELSE settled

(* Mutant: what was announced last time is not consulted.                   *)
AnnouncesAgain(control, settled, lastAnnounced) ==
    RecoveryOf(control, settled) \notin {"none", "safety_hold"}

Announces(control, settled, lastAnnounced) ==
    /\ RecoveryOf(control, settled) \notin {"none", "safety_hold"}
    /\ settled # lastAnnounced

(* What the row remembers as announced: never the one-off recovery, or the  *)
(* next boot would announce the shape it settled into all over again.       *)
RecordedShape(control, settled) == settled

(* The steady shape a boot finds the seat in, recorded as announced.        *)
ShapeOf(s, held) ==
    CASE held /\ s.state # "human_control" -> "safety_hold"
      [] s.state = "human_control" -> "human_control"
      [] ~held /\ s.state = "paused" -> "paused"
      [] ~held /\ ~IsFrozen(s) /\ s.stuck # "none" -> "stuck"
      [] ~held /\ ~IsFrozen(s) /\ s.stuck = "none" /\ s.vote # "none" -> "open_vote"
      [] OTHER -> "none"

-----------------------------------------------------------------------------
(* Conditions on a session record that every lever keeps.                   *)

(* The fields that say "frozen" agree, and human control names its human.   *)
Coherent(s) ==
    /\ s.status = "paused" => IsFrozen(s)
    /\ s.state = "paused" => s.status = "paused"
    /\ s.state = "human_control" => s.actingDm # NoOne

(* A healthy seat shows the mode it is in.                                  *)
ModeShown(s) ==
    s.state \in {"running", "collaborative"} =>
        s.state = DeriveLadderState("running", s.collaborative)
==============================================================================
