------------------------ MODULE DriverControlProofs ------------------------
(* Proofs about DriverControl, for any number of members, turns, grants    *)
(* and process deaths.                                                     *)
EXTENDS DriverControl, TLAPS

-----------------------------------------------------------------------------
(* The levers keep a session record well typed, coherent and showing its   *)
(* mode.                                                                   *)

Sound(s) == s \in AiDmSessionState /\ Coherent(s) /\ ModeShown(s)

USE DEF AiDmSessionStatus, AiDmLadderState, AiDmSessionPhase, StuckReason,
        Lifecycle, TransientPhase, MidTurnFrozenState

LEMMA FreshSound == Sound(FreshSession)
BY NoOneIsNoMember DEF Sound, FreshSession, AiDmSessionState, Coherent, ModeShown,
   IsFrozen, DeriveLadderState, Grant

LEMMA PausedSound ==
    ASSUME NEW s, Sound(s) PROVE Sound(Paused(s))
BY DEF Sound, Paused, AiDmSessionState, Coherent, ModeShown, IsFrozen

LEMMA ResumedSound ==
    ASSUME NEW s, Sound(s) PROVE Sound(Resumed(s))
BY DEF Sound, Resumed, AiDmSessionState, Coherent, ModeShown, IsFrozen, DeriveLadderState

LEMMA HeldSound ==
    ASSUME NEW s, Sound(s) PROVE Sound(SafetyHeld(s))
BY DEF Sound, SafetyHeld, AiDmSessionState, Coherent, ModeShown, IsFrozen

LEMMA CollaborativeSound ==
    ASSUME NEW s, Sound(s), NEW b \in BOOLEAN PROVE Sound(CollaborativeSet(s, b))
BY DEF Sound, CollaborativeSet, AiDmSessionState, Coherent, ModeShown, IsFrozen,
   DeriveLadderState

LEMMA TakeoverSound ==
    ASSUME NEW s, Sound(s), NEW m \in Member PROVE Sound(TakeoverGranted(s, m))
BY NoOneIsNoMember
   DEF Sound, TakeoverGranted, AiDmSessionState, Coherent, ModeShown, IsFrozen

LEMMA HandedBackSound ==
    ASSUME NEW s, Sound(s) PROVE Sound(HandedBack(s))
BY DEF Sound, HandedBack, AiDmSessionState, Coherent, ModeShown, IsFrozen,
   DeriveLadderState

LEMMA VotePassedSound ==
    ASSUME NEW s, Sound(s) PROVE Sound(VotePassed(s))
<1> DEFINE closed == [s EXCEPT !.vote = "none"]
<1>1. Sound(closed)
  BY DEF Sound, AiDmSessionState, Coherent, ModeShown, IsFrozen, DeriveLadderState
<1>2. CASE s.state = "human_control"
  BY <1>1, <1>2 DEF VotePassed
<1>3. CASE s.state # "human_control" /\ s.vote = "pause"
  BY <1>1, <1>3, PausedSound DEF VotePassed
<1>4. CASE s.state # "human_control" /\ s.vote # "pause"
  BY <1>4 DEF VotePassed, Sound, AiDmSessionState, Coherent, ModeShown, IsFrozen,
     DeriveLadderState
<1> QED BY <1>2, <1>3, <1>4

LEMMA SlotReleasedSound ==
    ASSUME NEW s, Sound(s) PROVE Sound(SlotReleased(s))
BY DEF Sound, SlotReleased, AiDmSessionState, Coherent, ModeShown, IsFrozen

LEMMA ClassifiedSound ==
    ASSUME NEW s, Sound(s), NEW reason \in StuckReason
    PROVE  Sound(TurnClassified(s, reason))
BY DEF Sound, TurnClassified, AiDmSessionState, Coherent, ModeShown, IsFrozen,
   DeriveLadderState

LEMMA PhaseSettledSound ==
    ASSUME NEW s, Sound(s), NEW l PROVE Sound(PhaseSettled(s, l))
BY DEF Sound, PhaseSettled, SettledPhaseFor, AiDmSessionState, Coherent, ModeShown,
   IsFrozen, DeriveLadderState

(* Only these fields matter to Coherent and ModeShown.                     *)
LEMMA HydratedSound ==
    ASSUME NEW c \in AiDmSessionState, NEW h \in BOOLEAN, NEW lapsed \in BOOLEAN
    PROVE  Sound(Hydrated(c, h, lapsed))
<1> DEFINE st == HydratedState(c, h)
<1>1. /\ st \in AiDmLadderState
      /\ st = "human_control" => c.actingDm # NoOne
      /\ st \in {"running", "collaborative"} =>
           st = DeriveLadderState("running", c.collaborative)
  BY DEF HydratedState, DeriveLadderState, AiDmSessionState
<1>2. Hydrated(c, h, lapsed) =
        [c EXCEPT !.state = st,
                  !.status = IF st \in MidTurnFrozenState THEN "paused" ELSE "idle",
                  !.phase = IF @ \in TransientPhase THEN "active" ELSE @,
                  !.vote = IF lapsed THEN "none" ELSE @,
                  !.grants = {}]
  BY DEF Hydrated
<1> HIDE DEF st
<1>3. Hydrated(c, h, lapsed) \in AiDmSessionState
  <2> DEFINE stat == IF st \in MidTurnFrozenState THEN "paused" ELSE "idle"
             ph == IF c.phase \in TransientPhase THEN "active" ELSE c.phase
             vt == IF lapsed THEN "none" ELSE c.vote
  <2>1. /\ stat \in AiDmSessionStatus
        /\ ph \in AiDmSessionPhase
        /\ vt \in VoteKind \cup {"none"}
        /\ {} \in SUBSET Grant
    BY DEF AiDmSessionState
  <2>2. Hydrated(c, h, lapsed) =
        [status |-> stat, state |-> st, phase |-> ph,
         collaborative |-> c.collaborative, stuck |-> c.stuck,
         actingDm |-> c.actingDm, vote |-> vt, grants |-> {}, replay |-> c.replay]
    BY <1>2 DEF AiDmSessionState
  <2>3. /\ c.collaborative \in BOOLEAN /\ c.stuck \in StuckReason
        /\ c.actingDm \in Member \cup {NoOne}
        /\ c.replay \in Lifecycle \cup {"player"}
    BY DEF AiDmSessionState
  <2> HIDE DEF stat, ph, vt
  <2> QED BY <1>1, <2>1, <2>2, <2>3 DEF AiDmSessionState
<1>4. Coherent(Hydrated(c, h, lapsed)) /\ ModeShown(Hydrated(c, h, lapsed))
  BY <1>1, <1>2 DEF AiDmSessionState, Coherent, ModeShown, IsFrozen
<1> QED BY <1>3, <1>4 DEF Sound

LEMMA PersistedTyped ==
    ASSUME NEW s \in AiDmSessionState PROVE Persisted(s) \in AiDmSessionState
BY DEF Persisted, PersistedStatusFor, IsFrozen, AiDmSessionState

(* Reading back is already a write-back fixed point.                       *)
LEMMA HydratedPersisted ==
    ASSUME NEW c \in AiDmSessionState, NEW h, NEW lapsed
    PROVE  Persisted(Hydrated(c, h, lapsed)) = Hydrated(c, h, lapsed)
BY DEF Persisted, PersistedStatusFor, Hydrated, IsFrozen, AiDmSessionState

LEMMA ShapeTyped ==
    ASSUME NEW s, NEW h \in BOOLEAN PROVE ShapeOf(s, h) \in SettledShape
BY DEF ShapeOf, SettledShape

-----------------------------------------------------------------------------
(* The inductive invariant: the seat's half (what Save writes) and the     *)
(* server's half, which no two handlers disturb together.                  *)

SeatInv ==
    /\ Sound(session)
    /\ row \in [control : AiDmSessionState, announced : SettledShape]
    /\ quiet \in BOOLEAN
    /\ MemoryIsDurable

TurnRecord ==
    [pc : {"none", "setup", "generating", "returned"}, lifecycle : Lifecycle,
     previous : AiDmSessionPhase, live : BOOLEAN, released : BOOLEAN]

Pending ==
    [shape : SettledShape \cup {"interrupted_turn"}, grants : SUBSET Grant,
     phase : BOOLEAN]

Fate == {"unused", "live", "spent", "executed", "discarded", "announced"}

ServerInv ==
    /\ loaded \in BOOLEAN /\ held \in BOOLEAN
    /\ hook \in {"none", "raise", "release"}
    /\ pending \in Pending
    /\ turns \in [Turn -> TurnRecord]
    /\ approving \subseteq Confirmation
    /\ crashes \in 0..MaxCrashes
    /\ fate \in [Grant -> Fate]

IInv == SeatInv /\ ServerInv

LEMMA IInvIsTheInvariants ==
    IInv <=> TypeOK /\ SeatShape /\ ModeRestored /\ MemoryIsDurable
BY DEF IInv, SeatInv, ServerInv, Sound, TypeOK, SeatShape, ModeRestored, Pending,
   TurnRecord, Fate

LEMMA NothingTyped == NothingPending \in Pending
BY DEF NothingPending, Pending, SettledShape

LEMMA NoTurnTyped == NoTurn \in TurnRecord
BY DEF NoTurn, TurnRecord

LEMMA InitInv == Init => IInv
<1> SUFFICES ASSUME Init PROVE IInv
  OBVIOUS
<1>1. FreshSession \in AiDmSessionState /\ Sound(session)
  BY FreshSound DEF Init, Sound
<1>2. SeatInv
  BY <1>1 DEF Init, SeatInv, NoRow, SettledShape, MemoryIsDurable
<1>3. ServerInv
  <2>1. pending \in Pending
    BY NothingTyped DEF Init
  <2>2. turns \in [Turn -> TurnRecord]
    BY NoTurnTyped DEF Init
  <2>3. crashes \in 0..MaxCrashes
    BY MaxCrashesNat DEF Init
  <2>4. fate \in [Grant -> Fate]
    BY DEF Init, Fate
  <2> QED BY <2>1, <2>2, <2>3, <2>4 DEF Init, ServerInv
<1> QED BY <1>2, <1>3 DEF IInv

(* Every write to the seat goes through Save, on a sound session.          *)
LEMMA SaveKeepsSeat ==
    ASSUME IInv, NEW s, Sound(s), Save(s) PROVE SeatInv'
<1>1. Persisted(s) \in AiDmSessionState
  BY PersistedTyped DEF Sound
<1> QED BY <1>1 DEF SeatInv, Save, SettledShape, MemoryIsDurable, Sound, Coherent,
           ModeShown, IsFrozen

LEMMA KeepSessionKeepsSeat ==
    ASSUME IInv, KeepSession, loaded' => loaded PROVE SeatInv'
BY DEF IInv, SeatInv, KeepSession, MemoryIsDurable, Sound, Coherent, ModeShown, IsFrozen

LEMMA LeverKeepsInv ==
    ASSUME IInv, NEW s, Sound(s), Lever(s) PROVE IInv'
<1>1. SeatInv'
  BY SaveKeepsSeat DEF Lever
<1>2. ServerInv'
  BY DEF IInv, ServerInv, Lever, KeepServer
<1> QED BY <1>1, <1>2 DEF IInv

(* A lever that only opens or closes a vote, or edits the grants.          *)
LEMMA VoteSound ==
    ASSUME NEW s, Sound(s), NEW v \in VoteKind \cup {"none"}
    PROVE  Sound([s EXCEPT !.vote = v])
BY DEF Sound, AiDmSessionState, Coherent, ModeShown, IsFrozen

LEMMA GrantsSound ==
    ASSUME NEW s, Sound(s), NEW G \in SUBSET Grant
    PROVE  Sound([s EXCEPT !.grants = G])
BY DEF Sound, AiDmSessionState, Coherent, ModeShown, IsFrozen

LEMMA PhaseSound ==
    ASSUME NEW s, Sound(s), NEW ph \in AiDmSessionPhase
    PROVE  Sound([s EXCEPT !.phase = ph])
BY DEF Sound, AiDmSessionState, Coherent, ModeShown, IsFrozen

-----------------------------------------------------------------------------
(* One lemma per group of actions.                                         *)

LEMMA LeversKeepInv ==
    ASSUME IInv,
           \/ Pause \/ Resume \/ Handback \/ PassVote \/ FailVote
           \/ CastBallot \/ RequestTakeover
           \/ \E b \in BOOLEAN : SetCollaborative(b)
           \/ \E m \in Member : GrantTakeover(m)
           \/ \E k \in VoteKind : OpenVote(k)
           \/ \E t \in Turn : EmergencyPause(t)
    PROVE  IInv'
<1>0. Sound(session)
  BY DEF IInv, SeatInv
<1>1. CASE Pause
  BY <1>0, <1>1, PausedSound, LeverKeepsInv DEF Pause
<1>2. CASE Resume
  BY <1>0, <1>2, ResumedSound, LeverKeepsInv DEF Resume
<1>3. CASE Handback
  BY <1>0, <1>3, HandedBackSound, LeverKeepsInv DEF Handback
<1>4. CASE PassVote
  BY <1>0, <1>4, VotePassedSound, LeverKeepsInv DEF PassVote
<1>5. CASE FailVote
  BY <1>0, <1>5, VoteSound, LeverKeepsInv DEF FailVote
<1>6. ASSUME NEW b \in BOOLEAN, SetCollaborative(b) PROVE IInv'
  BY <1>0, <1>6, CollaborativeSound, LeverKeepsInv DEF SetCollaborative
<1>7. ASSUME NEW m \in Member, GrantTakeover(m) PROVE IInv'
  BY <1>0, <1>7, TakeoverSound, LeverKeepsInv DEF GrantTakeover
<1>8. ASSUME NEW k \in VoteKind, OpenVote(k) PROVE IInv'
  BY <1>0, <1>8, VoteSound, LeverKeepsInv DEF OpenVote
<1>9. ASSUME NEW t \in Turn, EmergencyPause(t) PROVE IInv'
  BY <1>0, <1>9, PausedSound, LeverKeepsInv DEF EmergencyPause
<1>10. CASE CastBallot \/ RequestTakeover
  BY <1>0, <1>10, LeverKeepsInv DEF CastBallot, RequestTakeover
<1> QED BY <1>1, <1>2, <1>3, <1>4, <1>5, <1>6, <1>7, <1>8, <1>9, <1>10

LEMMA TeardownKeepsInv == ASSUME IInv, Teardown PROVE IInv'
<1>1. FreshSession \in AiDmSessionState /\ Sound(session')
  BY FreshSound DEF Teardown, Sound
<1>2. SeatInv'
  BY <1>1 DEF Teardown, SeatInv, NoRow, SettledShape, MemoryIsDurable, Persisted,
     PersistedStatusFor, IsFrozen, FreshSession
<1>3. turns' \in [Turn -> TurnRecord]
  BY DEF IInv, ServerInv, Teardown, TurnRecord
<1>4. fate' \in [Grant -> Fate]
  BY DEF IInv, ServerInv, Teardown, Fate
<1>5. ServerInv'
  BY <1>3, <1>4 DEF IInv, ServerInv, Teardown
<1> QED BY <1>2, <1>5 DEF IInv

LEMMA GrantsKeepInv ==
    ASSUME IInv, NEW g \in Grant, AddGrant(g) \/ DropGrant(g) PROVE IInv'
<1>0. Sound(session) /\ session.grants \in SUBSET Grant
  BY DEF IInv, SeatInv, Sound, AiDmSessionState
<1>1. SeatInv'
  BY <1>0, GrantsSound, SaveKeepsSeat DEF AddGrant, DropGrant
<1>2. fate' \in [Grant -> Fate]
  BY DEF IInv, ServerInv, AddGrant, DropGrant, Fate
<1>3. ServerInv'
  BY <1>2 DEF IInv, ServerInv, AddGrant, DropGrant, KeepServer
<1> QED BY <1>1, <1>3 DEF IInv

LEMMA ConfirmationKeepsInv ==
    ASSUME IInv, NEW c \in Confirmation,
           ApproveConfirmation(c) \/ ExecuteConfirmed(c)
    PROVE  IInv'
<1>0. Sound(session) /\ session.grants \in SUBSET Grant /\ c \in Grant
  BY DEF IInv, SeatInv, Sound, AiDmSessionState, Grant
<1>1. SeatInv'
  BY <1>0, GrantsSound, SaveKeepsSeat, KeepSessionKeepsSeat
     DEF ApproveConfirmation, ExecuteConfirmed, KeepServer
<1>2. /\ fate' \in [Grant -> Fate]
      /\ approving' \subseteq Confirmation
  BY <1>0 DEF IInv, ServerInv, ApproveConfirmation, ExecuteConfirmed, Fate
<1>3. ServerInv'
  BY <1>2 DEF IInv, ServerInv, ApproveConfirmation, ExecuteConfirmed, KeepServer
<1> QED BY <1>1, <1>3 DEF IInv

LEMMA HoldsKeepInv ==
    ASSUME IInv,
           RaiseHold \/ ApplySafetyHold \/ ReleaseHold
    PROVE  IInv'
<1>1. CASE RaiseHold \/ ReleaseHold
  <2>0. UNCHANGED <<session, loaded, row>> /\ quiet' = FALSE
    BY <1>1 DEF RaiseHold, ReleaseHold
  <2>1. SeatInv'
    BY <2>0 DEF IInv, SeatInv, MemoryIsDurable, Sound, Coherent, ModeShown, IsFrozen
  <2>2. /\ hook' \in {"none", "raise", "release"}
        /\ held' \in BOOLEAN
        /\ UNCHANGED <<loaded, pending, turns, approving, crashes, fate>>
    BY <1>1 DEF IInv, ServerInv, RaiseHold, ReleaseHold
  <2> QED BY <2>1, <2>2 DEF IInv, ServerInv
<1>2. CASE ApplySafetyHold
  <2>1. Sound(session)
    BY DEF IInv, SeatInv
  <2>2. SeatInv'
    BY <1>2, <2>1, HeldSound, SaveKeepsSeat DEF ApplySafetyHold
  <2>3. ServerInv'
    BY <1>2 DEF IInv, ServerInv, ApplySafetyHold
  <2> QED BY <2>2, <2>3 DEF IInv
<1> QED BY <1>1, <1>2

LEMMA StartTurnKeepsInv ==
    ASSUME IInv, NEW t \in Turn, NEW l \in Lifecycle, StartTurn(t, l)
    PROVE  IInv'
<1> DEFINE s == [session EXCEPT
                   !.status = "running",
                   !.phase = IF l = "none" THEN @ ELSE l,
                   !.replay = IF l = "none" THEN "player" ELSE l]
<1>0. Sound(session)
  BY DEF IInv, SeatInv
<1>1. Sound(s)
  BY <1>0 DEF Sound, StartTurn, Admissible, AiDmSessionState, Coherent, ModeShown,
     IsFrozen, DeriveLadderState
<1>2. SeatInv'
  BY <1>1, SaveKeepsSeat DEF StartTurn
<1>3. turns' \in [Turn -> TurnRecord]
  BY <1>0 DEF IInv, ServerInv, StartTurn, TurnRecord, Sound, AiDmSessionState
<1>4. ServerInv'
  BY <1>3 DEF IInv, ServerInv, StartTurn, KeepServer
<1> QED BY <1>2, <1>4 DEF IInv

LEMMA RefuseReplayKeepsInv == ASSUME IInv, RefuseReplay PROVE IInv'
<1>0. Sound(session)
  BY DEF IInv, SeatInv
<1>1. SeatInv'
  BY <1>0, PhaseSettledSound, SaveKeepsSeat, KeepSessionKeepsSeat
     DEF RefuseReplay, KeepServer
<1>2. ServerInv'
  BY DEF IInv, ServerInv, RefuseReplay, KeepServer
<1> QED BY <1>1, <1>2 DEF IInv

LEMMA TurnStepKeepsInv ==
    ASSUME IInv, NEW t \in Turn, NEW s, Sound(s), NEW after \in TurnRecord,
           TurnStep(t, s, after)
    PROVE  IInv'
<1>1. SeatInv'
  BY SaveKeepsSeat, KeepSessionKeepsSeat DEF TurnStep, KeepServer
<1>2. turns' \in [Turn -> TurnRecord]
  BY DEF IInv, ServerInv, TurnStep
<1>3. ServerInv'
  BY <1>2 DEF IInv, ServerInv, TurnStep, KeepServer
<1> QED BY <1>1, <1>3 DEF IInv

LEMMA TurnProgressKeepsInv ==
    ASSUME IInv, NEW t \in Turn, TurnProgress(t) PROVE IInv'
<1>0. Sound(session) /\ turns[t] \in TurnRecord
  BY DEF IInv, SeatInv, ServerInv
<1>1. CASE BeginGeneration(t)
  <2>1. SeatInv'
    BY <1>1, KeepSessionKeepsSeat DEF BeginGeneration, KeepServer
  <2>2. turns' \in [Turn -> TurnRecord]
    BY <1>0, <1>1 DEF IInv, ServerInv, BeginGeneration, TurnRecord
  <2>3. ServerInv'
    BY <1>1, <2>2 DEF IInv, ServerInv, BeginGeneration, KeepServer
  <2> QED BY <2>1, <2>3 DEF IInv
<1>2. CASE FailSetup(t)
  <2> DEFINE l == turns[t].lifecycle
             s == SlotReleased(session)
             back == [s EXCEPT !.phase = IF @ = l THEN turns[t].previous ELSE @]
  <2>1. Sound(s)
    BY <1>0, SlotReleasedSound
  <2>2. s.phase \in AiDmSessionPhase /\ turns[t].previous \in AiDmSessionPhase
    BY <1>0, <2>1 DEF Sound, AiDmSessionState, TurnRecord
  <2>3. Sound(back)
    BY <2>1, <2>2, PhaseSound
  <2>4. Sound(PhaseSettled(back, l))
    BY <2>3, PhaseSettledSound
  <2> QED BY <1>2, <2>4, NoTurnTyped, TurnStepKeepsInv DEF FailSetup
<1>3. CASE FinishGeneration(t)
  <2>1. [turns[t] EXCEPT !.pc = "returned", !.released = session.status = "running"]
          \in TurnRecord
    BY <1>0 DEF TurnRecord
  <2> QED BY <1>0, <1>3, <2>1, SlotReleasedSound, TurnStepKeepsInv DEF FinishGeneration
<1>4. ASSUME NEW reason \in StuckReason, SettleTurn(t, reason) PROVE IInv'
  <2> DEFINE s == TurnClassified(session, reason)
             r == IF turns[t].released THEN s ELSE SlotReleased(s)
  <2>1. Sound(s)
    BY <1>0, ClassifiedSound
  <2>2. Sound(r)
    BY <2>1, SlotReleasedSound
  <2>3. Sound(PhaseSettled(r, turns[t].lifecycle))
    BY <2>2, PhaseSettledSound
  <2> QED BY <1>4, <2>3, NoTurnTyped, TurnStepKeepsInv DEF SettleTurn
<1> QED BY <1>1, <1>2, <1>3, <1>4 DEF TurnProgress

LEMMA CrashKeepsInv == ASSUME IInv, Crash PROVE IInv'
<1>1. SeatInv'
  BY FreshSound DEF IInv, SeatInv, Crash, MemoryIsDurable, Sound, Coherent, ModeShown,
     IsFrozen
<1>2. turns' \in [Turn -> TurnRecord] /\ pending' \in Pending
  BY NoTurnTyped, NothingTyped DEF Crash
<1>3. fate' \in [Grant -> Fate]
  BY DEF IInv, ServerInv, Crash, Fate
<1>4. crashes' \in 0..MaxCrashes
  BY MaxCrashesNat DEF IInv, ServerInv, Crash
<1>5. ServerInv'
  BY <1>2, <1>3, <1>4 DEF IInv, ServerInv, Crash
<1> QED BY <1>1, <1>5 DEF IInv

LEMMA HydrateKeepsInv ==
    ASSUME IInv, NEW lapsed \in BOOLEAN, Hydrate(lapsed) PROVE IInv'
<1> DEFINE stored == row.control
           s == Hydrated(stored, held, lapsed)
           settled == ShapeOf(s, held)
           announce == Announces(stored, settled, row.announced)
           recorded == RecordedShape(stored, settled)
           dirty == s # stored \/ recorded # row.announced
<1>0. /\ stored \in AiDmSessionState
      /\ held \in BOOLEAN
      /\ stored.grants \in SUBSET Grant
  BY DEF IInv, SeatInv, ServerInv, AiDmSessionState
<1>1. Sound(s) /\ settled \in SettledShape
  BY <1>0, HydratedSound, ShapeTyped
<1>2. Persisted(s) = s
  BY <1>0, HydratedPersisted
<1>3. /\ session' = s
      /\ row' = IF dirty THEN [control |-> Persisted(s), announced |-> recorded] ELSE row
      /\ pending' = [shape |-> IF announce THEN RecoveryOf(stored, settled) ELSE "none",
                     grants |-> stored.grants,
                     phase |-> stored.phase \in TransientPhase]
      /\ fate' = [g \in Grant |-> IF g \in stored.grants THEN "discarded" ELSE fate[g]]
      /\ quiet' = (quiet \/ announce)
      /\ loaded' = TRUE /\ UNCHANGED <<held, hook, turns, approving, crashes>>
  BY DEF Hydrate
<1> HIDE DEF s, settled, announce
<1>4. Sound(session')
  BY <1>1, <1>3
<1>5. row'.control = Persisted(session') /\ row'.control = s
  BY <1>2, <1>3
<1>6. row' \in [control : AiDmSessionState, announced : SettledShape]
  BY <1>1, <1>2, <1>3 DEF RecordedShape, IInv, SeatInv, Sound
<1>7. SeatInv'
  <2>1. quiet' \in BOOLEAN
    BY <1>3 DEF announce
  <2>2. Sound(session)'
    BY <1>4 DEF Sound, Coherent, ModeShown, IsFrozen
  <2>3. MemoryIsDurable'
    BY <1>5 DEF MemoryIsDurable
  <2> QED BY <1>6, <2>1, <2>2, <2>3 DEF SeatInv
<1>8. pending' \in Pending
  <2>1. RecoveryOf(stored, settled) \in SettledShape \cup {"interrupted_turn"}
    BY <1>1 DEF RecoveryOf
  <2> QED BY <1>0, <1>3, <2>1 DEF Pending, SettledShape
<1>9. fate' \in [Grant -> Fate]
  BY <1>3 DEF IInv, ServerInv, Fate
<1>10. ServerInv'
  BY <1>3, <1>8, <1>9 DEF IInv, ServerInv
<1> QED BY <1>7, <1>10 DEF IInv

LEMMA AnnounceKeepsInv == ASSUME IInv, AnnounceRestart PROVE IInv'
<1>1. SeatInv'
  BY KeepSessionKeepsSeat DEF AnnounceRestart
<1>2. fate' \in [Grant -> Fate]
  BY DEF IInv, ServerInv, AnnounceRestart, Fate
<1>3. ServerInv'
  BY <1>2, NothingTyped DEF IInv, ServerInv, AnnounceRestart
<1> QED BY <1>1, <1>3 DEF IInv

LEMMA StutterKeepsInv == ASSUME IInv, UNCHANGED vars PROVE IInv'
BY DEF IInv, SeatInv, ServerInv, vars, MemoryIsDurable, Sound, Coherent, ModeShown,
   IsFrozen

LEMMA NextKeepsInv == ASSUME IInv, [Next]_vars PROVE IInv'
<1>1. CASE \/ Pause \/ Resume \/ Handback \/ PassVote \/ FailVote
           \/ CastBallot \/ RequestTakeover
           \/ \E b \in BOOLEAN : SetCollaborative(b)
           \/ \E m \in Member : GrantTakeover(m)
           \/ \E k \in VoteKind : OpenVote(k)
           \/ \E t \in Turn : EmergencyPause(t)
  BY <1>1, LeversKeepInv
<1>2. CASE Teardown
  BY <1>2, TeardownKeepsInv
<1>3. CASE \/ \E g \in Grant : AddGrant(g) \/ DropGrant(g)
           \/ \E c \in Confirmation : ApproveConfirmation(c) \/ ExecuteConfirmed(c)
  BY <1>3, GrantsKeepInv, ConfirmationKeepsInv
<1>4. CASE RaiseHold \/ ApplySafetyHold \/ ReleaseHold
  BY <1>4, HoldsKeepInv
<1>5. ASSUME NEW t \in Turn,
             \/ Message(t) \/ StartSession(t) \/ WrapUpSession(t) \/ ReplayLifecycle(t)
      PROVE  IInv'
  BY <1>5, StartTurnKeepsInv DEF Message, StartSession, WrapUpSession, ReplayLifecycle
<1>6. CASE RefuseReplay
  BY <1>6, RefuseReplayKeepsInv
<1>7. CASE \E t \in Turn : TurnProgress(t)
  BY <1>7, TurnProgressKeepsInv
<1>8. CASE AnnounceRestart \/ \E b \in BOOLEAN : Hydrate(b)
  BY <1>8, AnnounceKeepsInv, HydrateKeepsInv
<1>9. CASE Crash
  BY <1>9, CrashKeepsInv
<1>10. CASE UNCHANGED vars
  BY <1>10, StutterKeepsInv
<1> QED BY <1>1, <1>2, <1>3, <1>4, <1>5, <1>6, <1>7, <1>8, <1>9, <1>10
        DEF Next, Synchronous

-----------------------------------------------------------------------------
(* The invariants hold in every reachable state: field types, a coherent   *)
(* seat, the mode shown, and a row that always holds what a restart needs. *)
THEOREM InductiveInvariant ==
    Spec => [](TypeOK /\ SeatShape /\ ModeRestored /\ MemoryIsDurable)
<1>1. Init => IInv
  BY InitInv
<1>2. IInv /\ [Next]_vars => IInv'
  BY NextKeepsInv
<1>3. IInv => TypeOK /\ SeatShape /\ ModeRestored /\ MemoryIsDurable
  BY IInvIsTheInvariants
<1> QED BY <1>1, <1>2, <1>3, PTL DEF Spec

(* Every reachable session, row and counter has its type.                  *)
THEOREM TypeCorrect == Spec => []TypeOK
BY InductiveInvariant, PTL

(* A paused status always shows as a frozen ladder state, and human        *)
(* control always names its human.                                         *)
THEOREM SeatShapeHolds == Spec => []SeatShape
BY InductiveInvariant, PTL

(* A healthy seat always shows the collaborative mode it was left in.      *)
THEOREM ModeRestoredHolds == Spec => []ModeRestored
BY InductiveInvariant, PTL

(* After every handler the row equals the session it must recover.         *)
THEOREM DurableHolds == Spec => []MemoryIsDurable
BY InductiveInvariant, PTL

-----------------------------------------------------------------------------
(* Crash recovery.                                                         *)

(* What a boot makes of the row of a coherent session.                     *)
LEMMA FrozenComesBack ==
    ASSUME NEW s \in AiDmSessionState, Coherent(s), NEW h \in BOOLEAN, NEW lapsed \in BOOLEAN
    PROVE  LET back == Hydrated(Persisted(s), h, lapsed)
           IN  /\ IsFrozen(s) \/ s.status = "running" => IsFrozen(back)
               /\ s.state = "human_control" =>
                    back.state = "human_control" /\ back.actingDm = s.actingDm
<1> DEFINE p == Persisted(s)
           st == HydratedState(p, h)
<1>1. /\ p.state = s.state /\ p.actingDm = s.actingDm
      /\ p.status = IF IsFrozen(s) THEN "paused" ELSE s.status
      /\ p \in AiDmSessionState
  BY PersistedTyped DEF Persisted, PersistedStatusFor, AiDmSessionState
<1>2. /\ Hydrated(p, h, lapsed).state = st
      /\ Hydrated(p, h, lapsed).actingDm = p.actingDm
  BY <1>1 DEF Hydrated, AiDmSessionState
<1> HIDE DEF p
<1>3. s.state = "human_control" => st = "human_control"
  BY <1>1 DEF HydratedState, DeriveLadderState, Coherent, IsFrozen
<1>4. IsFrozen(s) \/ s.status = "running" => st \in MidTurnFrozenState
  BY <1>1, <1>3 DEF HydratedState, DeriveLadderState, IsFrozen
<1> QED BY <1>1, <1>2, <1>3, <1>4 DEF IsFrozen, p

(* Dying at any moment never thaws a frozen seat, and never takes it from  *)
(* the human who holds it.                                                 *)
THEOREM FreezeSurvives == Spec => []FreezeSurvivesRestart
<1>1. IInv => FreezeSurvivesRestart
  BY FrozenComesBack DEF IInv, SeatInv, ServerInv, Sound, MemoryIsDurable,
     FreezeSurvivesRestart
<1>2. TypeOK /\ SeatShape /\ ModeRestored /\ MemoryIsDurable => FreezeSurvivesRestart
  BY <1>1, IInvIsTheInvariants
<1> QED BY <1>2, InductiveInvariant, PTL

-----------------------------------------------------------------------------
(* Outstanding authority, announcements, and what thaws a seat.            *)

Outstanding == session.grants \cup row.control.grants

(* Grants in memory or on disk are live; those a boot is about to announce *)
(* or whose tool is running are neither.                                   *)
GrantInv ==
    /\ SpentGrantsStayGone
    /\ pending.grants # {} => Outstanding = {}
    /\ \A c \in approving : c \notin Outstanding /\ fate[c] # "unused"

(* Before the first request nothing is under way.                          *)
ColdInv == ~loaded => approving = {} /\ \A t \in Turn : turns[t].pc = "none"

(* Another boot would announce nothing.                                    *)
Silent ==
    \A lapsed \in BOOLEAN :
      ~Announces(row.control, ShapeOf(Hydrated(row.control, held, lapsed), held),
                 row.announced)

QuietInv == quiet => Silent

MoreInv == GrantInv /\ ColdInv /\ QuietInv

(* A handler that saves the seat without touching any grant.               *)
Thaws == Resume \/ Handback

Handled ==
    /\ loaded /\ loaded' /\ UNCHANGED <<held, pending, fate, approving>>
    /\ \/ KeepSession
       \/ \E s \in AiDmSessionState :
            /\ Save(s) /\ s.grants = session.grants
            /\ IsFrozen(session) => IsFrozen(s) \/ Thaws

(* What each lever and each settlement leaves of the grants: all of them.  *)
LEMMA LeversKeepGrants ==
    ASSUME NEW s \in AiDmSessionState
    PROVE  /\ Paused(s).grants = s.grants /\ Resumed(s).grants = s.grants
           /\ SafetyHeld(s).grants = s.grants /\ HandedBack(s).grants = s.grants
           /\ \A b : CollaborativeSet(s, b).grants = s.grants
           /\ \A m : TakeoverGranted(s, m).grants = s.grants
           /\ SlotReleased(s).grants = s.grants /\ Persisted(s).grants = s.grants
           /\ \A l : PhaseSettled(s, l).grants = s.grants
BY DEF AiDmSessionState, Paused, Resumed, SafetyHeld, HandedBack, CollaborativeSet,
       TakeoverGranted, SlotReleased, Persisted, PhaseSettled

(* ... and votes and classifications too.                                  *)
LEMMA VotesKeepGrants ==
    ASSUME NEW s \in AiDmSessionState
    PROVE  /\ VotePassed(s).grants = s.grants
           /\ \A v : [s EXCEPT !.vote = v].grants = s.grants
           /\ \A r : TurnClassified(s, r).grants = s.grants
<1>1. VotePassed(s).grants = s.grants
  <2>1. CASE s.state = "human_control"
    BY <2>1 DEF AiDmSessionState, VotePassed
  <2>2. CASE s.state # "human_control" /\ s.vote = "pause"
    BY <2>2 DEF AiDmSessionState, VotePassed, Paused
  <2>3. CASE s.state # "human_control" /\ s.vote # "pause"
    BY <2>3 DEF AiDmSessionState, VotePassed
  <2> QED
    BY <2>1, <2>2, <2>3
<1>2. ASSUME NEW r PROVE TurnClassified(s, r).grants = s.grants
  <2>1. CASE IsFrozen(s)
    BY <2>1 DEF TurnClassified
  <2>2. CASE ~IsFrozen(s) /\ r # "none"
    BY <2>2 DEF AiDmSessionState, TurnClassified
  <2>3. CASE ~IsFrozen(s) /\ r = "none"
    BY <2>3 DEF AiDmSessionState, TurnClassified
  <2> QED
    BY <2>1, <2>2, <2>3
<1> QED
  BY <1>1, <1>2 DEF AiDmSessionState

(* Every lever but two leaves a frozen seat frozen.                        *)
LEMMA LeversKeepFrozen ==
    ASSUME NEW s \in AiDmSessionState, IsFrozen(s)
    PROVE  /\ IsFrozen(Paused(s)) /\ IsFrozen(SafetyHeld(s))
           /\ \A b : IsFrozen(CollaborativeSet(s, b))
           /\ \A m : IsFrozen(TakeoverGranted(s, m))
           /\ IsFrozen(SlotReleased(s)) /\ \A l : IsFrozen(PhaseSettled(s, l))
           /\ \A v : IsFrozen([s EXCEPT !.vote = v])
           /\ \A r : TurnClassified(s, r) = s
<1>1. s.state \in {"paused", "human_control"}
  BY DEF IsFrozen
<1> QED
  BY <1>1 DEF AiDmSessionState, Paused, SafetyHeld, CollaborativeSet, DeriveLadderState,
         TakeoverGranted, SlotReleased, PhaseSettled, TurnClassified, IsFrozen

(* A passed override does not thaw a seat; a vote is no way around a pause.*)
LEMMA VoteKeepsFrozen ==
    ASSUME NEW s \in AiDmSessionState, IsFrozen(s), Coherent(s)
    PROVE  IsFrozen(VotePassed(s))
<1>1. s.state \in {"paused", "human_control"} /\ (s.state = "paused" => s.status = "paused")
  BY DEF IsFrozen, Coherent
<1>2. CASE s.state = "human_control"
  BY <1>2 DEF AiDmSessionState, VotePassed, IsFrozen
<1>3. CASE s.state = "paused" /\ s.vote = "pause"
  BY <1>3 DEF AiDmSessionState, VotePassed, Paused, IsFrozen
<1>4. CASE s.state = "paused" /\ s.vote # "pause"
  BY <1>1, <1>4 DEF AiDmSessionState, VotePassed, IsFrozen
<1> QED
  BY <1>1, <1>2, <1>3, <1>4

(* Every lever, finished turn and applied hold is such a handler.          *)
LEMMA LeverHandled ==
    ASSUME IInv, NEW s, Sound(s), s.grants = session.grants,
           IsFrozen(session) => IsFrozen(s) \/ Thaws, Lever(s)
    PROVE  Handled
BY DEF Lever, Ready, KeepServer, Handled, Sound

(* Levers.                                                                 *)
LEMMA LeversAreHandled ==
    ASSUME IInv,
           \/ Pause \/ Resume \/ Handback \/ PassVote \/ FailVote
           \/ CastBallot \/ RequestTakeover
           \/ \E b \in BOOLEAN : SetCollaborative(b)
           \/ \E m \in Member : GrantTakeover(m)
           \/ \E k \in VoteKind : OpenVote(k)
           \/ \E t \in Turn : EmergencyPause(t)
    PROVE  Handled
<1>0. Sound(session) /\ session \in AiDmSessionState /\ Coherent(session)
  BY DEF IInv, SeatInv, Sound
<1>1. CASE Pause
  BY <1>0, <1>1, PausedSound, LeversKeepGrants, LeversKeepFrozen, LeverHandled DEF Pause
<1>2. CASE Resume
  BY <1>0, <1>2, ResumedSound, LeversKeepGrants, LeverHandled DEF Resume, Thaws
<1>3. CASE Handback
  BY <1>0, <1>3, HandedBackSound, LeversKeepGrants, LeverHandled DEF Handback, Thaws
<1>4. CASE PassVote
  BY <1>0, <1>4, VotePassedSound, VotesKeepGrants, VoteKeepsFrozen, LeverHandled DEF PassVote
<1>5. CASE FailVote
  BY <1>0, <1>5, VoteSound, VotesKeepGrants, LeversKeepFrozen, LeverHandled DEF FailVote
<1>6. ASSUME NEW b \in BOOLEAN, SetCollaborative(b) PROVE Handled
  BY <1>0, <1>6, CollaborativeSound, LeversKeepGrants, LeversKeepFrozen, LeverHandled
     DEF SetCollaborative
<1>7. ASSUME NEW m \in Member, GrantTakeover(m) PROVE Handled
  BY <1>0, <1>7, TakeoverSound, LeversKeepGrants, LeversKeepFrozen, LeverHandled
     DEF GrantTakeover
<1>8. ASSUME NEW k \in VoteKind, OpenVote(k) PROVE Handled
  BY <1>0, <1>8, VoteSound, VotesKeepGrants, LeversKeepFrozen, LeverHandled DEF OpenVote
<1>9. ASSUME NEW t \in Turn, EmergencyPause(t) PROVE Handled
  BY <1>0, <1>9, PausedSound, LeversKeepGrants, LeversKeepFrozen, LeverHandled
     DEF EmergencyPause
<1>10. CASE CastBallot \/ RequestTakeover
  BY <1>0, <1>10, LeverHandled DEF CastBallot, RequestTakeover
<1> QED BY <1>1, <1>2, <1>3, <1>4, <1>5, <1>6, <1>7, <1>8, <1>9, <1>10

(* Turns that start.                                                       *)
LEMMA StartsAreHandled ==
    ASSUME IInv, NEW t \in Turn, NEW l \in Lifecycle, StartTurn(t, l)
    PROVE  Handled
<1> DEFINE s == [session EXCEPT
                   !.status = "running",
                   !.phase = IF l = "none" THEN @ ELSE l,
                   !.replay = IF l = "none" THEN "player" ELSE l]
<1>0. session \in AiDmSessionState
  BY DEF IInv, SeatInv, Sound
<1>1. /\ s.grants = session.grants /\ s.state = session.state /\ s \in AiDmSessionState
  BY <1>0 DEF AiDmSessionState
<1>2. Save(s) /\ Ready /\ KeepServer /\ UNCHANGED <<approving, fate>>
  BY DEF StartTurn
<1>3. IsFrozen(session) => IsFrozen(s)
  BY <1>1 DEF IsFrozen
<1> HIDE DEF s
<1> QED BY <1>1, <1>2, <1>3 DEF Handled, Ready, KeepServer

(* A turn's step: it is not under way before the session is loaded.        *)
LEMMA TurnStepHandled ==
    ASSUME IInv, ColdInv, NEW t \in Turn, NEW s, Sound(s), s.grants = session.grants,
           IsFrozen(session) => IsFrozen(s), NEW after, turns[t].pc # "none",
           TurnStep(t, s, after)
    PROVE  Handled
BY DEF TurnStep, ColdInv, KeepServer, Handled, Sound, IInv, ServerInv

(* Turns under way.                                                        *)
LEMMA TurnsAreHandled ==
    ASSUME IInv, ColdInv, NEW t \in Turn, TurnProgress(t)
    PROVE  Handled
<1>0. /\ Sound(session) /\ turns[t] \in TurnRecord /\ session \in AiDmSessionState
      /\ loaded \in BOOLEAN
  BY DEF IInv, SeatInv, ServerInv, Sound
<1>1. CASE BeginGeneration(t)
  BY <1>0, <1>1 DEF BeginGeneration, ColdInv, KeepServer, Handled
<1>2. CASE FailSetup(t)
  <2> DEFINE l == turns[t].lifecycle
             s == SlotReleased(session)
             back == [s EXCEPT !.phase = IF @ = l THEN turns[t].previous ELSE @]
  <2>1. Sound(s) /\ s.grants = session.grants /\ (IsFrozen(session) => IsFrozen(s))
    BY <1>0, SlotReleasedSound, LeversKeepGrants, LeversKeepFrozen
  <2>2. s.phase \in AiDmSessionPhase /\ turns[t].previous \in AiDmSessionPhase
    BY <1>0, <2>1 DEF Sound, AiDmSessionState, TurnRecord
  <2> HIDE DEF s
  <2>3. Sound(back) /\ back \in AiDmSessionState
    BY <2>1, <2>2, PhaseSound DEF Sound
  <2>4. back.grants = session.grants /\ (IsFrozen(session) => IsFrozen(back))
    BY <2>1 DEF Sound, AiDmSessionState, IsFrozen
  <2> HIDE DEF back
  <2>5. /\ Sound(PhaseSettled(back, l)) /\ PhaseSettled(back, l).grants = session.grants
        /\ IsFrozen(session) => IsFrozen(PhaseSettled(back, l))
    BY <2>3, <2>4, PhaseSettledSound, LeversKeepGrants, LeversKeepFrozen
  <2>6. turns[t].pc # "none" /\ TurnStep(t, PhaseSettled(back, l), NoTurn)
    BY <1>2 DEF FailSetup, back, s
  <2> HIDE DEF l
  <2> QED BY <2>5, <2>6, TurnStepHandled
<1>3. CASE FinishGeneration(t)
  <2>1. /\ Sound(SlotReleased(session)) /\ SlotReleased(session).grants = session.grants
        /\ IsFrozen(session) => IsFrozen(SlotReleased(session))
    BY <1>0, SlotReleasedSound, LeversKeepGrants, LeversKeepFrozen
  <2> QED BY <1>3, <2>1, TurnStepHandled DEF FinishGeneration
<1>4. ASSUME NEW reason \in StuckReason, SettleTurn(t, reason) PROVE Handled
  <2> DEFINE l == turns[t].lifecycle
             s == TurnClassified(session, reason)
             r == IF turns[t].released THEN s ELSE SlotReleased(s)
  <2>1. /\ Sound(s) /\ s.grants = session.grants /\ (IsFrozen(session) => IsFrozen(s))
        /\ s \in AiDmSessionState
    BY <1>0, ClassifiedSound, VotesKeepGrants, LeversKeepFrozen DEF Sound
  <2> HIDE DEF s
  <2>2. /\ Sound(r) /\ r.grants = session.grants /\ (IsFrozen(session) => IsFrozen(r))
        /\ r \in AiDmSessionState
    BY <2>1, SlotReleasedSound, LeversKeepGrants, LeversKeepFrozen DEF Sound
  <2> HIDE DEF r
  <2>3. /\ Sound(PhaseSettled(r, l)) /\ PhaseSettled(r, l).grants = session.grants
        /\ IsFrozen(session) => IsFrozen(PhaseSettled(r, l))
    BY <2>2, PhaseSettledSound, LeversKeepGrants, LeversKeepFrozen
  <2>4. turns[t].pc # "none" /\ TurnStep(t, PhaseSettled(r, l), NoTurn)
    BY <1>4 DEF SettleTurn, s, r
  <2> HIDE DEF l
  <2> QED BY <2>3, <2>4, TurnStepHandled
<1> QED BY <1>1, <1>2, <1>3, <1>4 DEF TurnProgress

(* A refused replay and the freeze hook.                                   *)
LEMMA OthersAreHandled ==
    ASSUME IInv, RefuseReplay \/ ApplySafetyHold
    PROVE  Handled
<1>0. Sound(session) /\ session \in AiDmSessionState
  BY DEF IInv, SeatInv, Sound
<1>1. CASE RefuseReplay
  <2> DEFINE s == PhaseSettled(session, session.replay)
  <2>1. s \in AiDmSessionState /\ s.grants = session.grants /\ (IsFrozen(session) => IsFrozen(s))
    BY <1>0, PhaseSettledSound, LeversKeepGrants, LeversKeepFrozen DEF Sound
  <2>2. /\ Ready /\ KeepServer /\ UNCHANGED <<approving, fate>>
        /\ Save(s) \/ KeepSession
    BY <1>1 DEF RefuseReplay
  <2> HIDE DEF s
  <2> QED BY <2>1, <2>2 DEF Handled, Ready, KeepServer
<1>2. CASE ApplySafetyHold
  <2> DEFINE s == IF hook = "raise" THEN SafetyHeld(session) ELSE session
  <2>1. s \in AiDmSessionState /\ s.grants = session.grants /\ (IsFrozen(session) => IsFrozen(s))
    BY <1>0, HeldSound, LeversKeepGrants, LeversKeepFrozen DEF Sound
  <2>2. /\ loaded /\ loaded' /\ UNCHANGED <<held, pending, fate, approving>> /\ Save(s)
    BY <1>2 DEF ApplySafetyHold
  <2> HIDE DEF s
  <2> QED BY <2>1, <2>2 DEF Handled
<1> QED BY <1>1, <1>2

(* The steps of the seat, as these properties tell them apart.             *)
LEMMA StepKinds ==
    ASSUME IInv, ColdInv, [Next]_vars
    PROVE  \/ Handled
           \/ \E g \in Grant : AddGrant(g) \/ DropGrant(g)
           \/ \E c \in Confirmation : ApproveConfirmation(c) \/ ExecuteConfirmed(c)
           \/ RaiseHold \/ ReleaseHold \/ Teardown \/ AnnounceRestart \/ Crash
           \/ \E b \in BOOLEAN : Hydrate(b)
           \/ UNCHANGED vars
<1>1. ASSUME NEW t \in Turn,
             \/ Message(t) \/ StartSession(t) \/ WrapUpSession(t) \/ ReplayLifecycle(t)
      PROVE  Handled
  BY <1>1, StartsAreHandled DEF Message, StartSession, WrapUpSession, ReplayLifecycle
<1> QED
  BY <1>1, LeversAreHandled, TurnsAreHandled, OthersAreHandled DEF Next, Synchronous

(* No kind of step brings back authority that is gone.                     *)
LEMMA GrantsStayGone ==
    ASSUME IInv, GrantInv, ColdInv, [Next]_vars
    PROVE  GrantInv'
<1>0. /\ session \in AiDmSessionState /\ row.control \in AiDmSessionState
      /\ session.grants \in SUBSET Grant /\ row.control.grants \in SUBSET Grant
      /\ fate \in [Grant -> Fate] /\ approving \subseteq Confirmation
      /\ loaded => row.control.grants = session.grants
  BY LeversKeepGrants DEF IInv, SeatInv, ServerInv, Sound, AiDmSessionState, MemoryIsDurable
<1>1. ASSUME UNCHANGED <<fate, approving>>, Outstanding' \subseteq Outstanding,
             pending' \in {pending, NothingPending}
      PROVE  GrantInv'
  BY <1>1 DEF GrantInv, SpentGrantsStayGone, NothingPending, Outstanding
<1>2. ASSUME NEW s \in AiDmSessionState, Save(s)
      PROVE  Outstanding' = s.grants
  BY <1>2, LeversKeepGrants DEF Save, Outstanding
<1>3. KeepSession => Outstanding' = Outstanding
  BY DEF KeepSession, Outstanding
<1>4. CASE Handled
  BY <1>0, <1>1, <1>2, <1>3, <1>4 DEF Handled, Outstanding
<1>5. ASSUME NEW g \in Grant, AddGrant(g) PROVE GrantInv'
  <2> DEFINE s == [session EXCEPT !.grants = @ \cup {g}]
  <2>1. s \in AiDmSessionState /\ s.grants = session.grants \cup {g}
    BY <1>0 DEF AiDmSessionState
  <2>2. Save(s) /\ loaded /\ pending = NothingPending /\ pending' = pending
        /\ approving' = approving /\ fate[g] = "unused" /\ fate' = [fate EXCEPT ![g] = "live"]
    BY <1>5 DEF AddGrant, Ready, LoopFree, KeepServer
  <2> HIDE DEF s
  <2>3. Outstanding' = session.grants \cup {g} /\ Outstanding = session.grants
    BY <1>0, <1>2, <2>1, <2>2 DEF Outstanding
  <2>4. g \notin approving
    BY <2>2 DEF GrantInv
  <2>5. SpentGrantsStayGone'
    BY <1>0, <2>2, <2>3 DEF GrantInv, SpentGrantsStayGone, Outstanding
  <2>6. \A c \in approving' : c \notin Outstanding' /\ fate'[c] # "unused"
    BY <1>0, <2>2, <2>3, <2>4 DEF GrantInv, Grant
  <2> QED BY <2>2, <2>5, <2>6 DEF GrantInv, NothingPending
<1>6. ASSUME NEW g \in Grant, DropGrant(g) PROVE GrantInv'
  <2> DEFINE s == [session EXCEPT !.grants = @ \ {g}]
  <2>1. s \in AiDmSessionState /\ s.grants = session.grants \ {g}
    BY <1>0 DEF AiDmSessionState
  <2>2. Save(s) /\ loaded /\ pending = NothingPending /\ pending' = pending
        /\ approving' = approving /\ fate' = [fate EXCEPT ![g] = "spent"]
    BY <1>6 DEF DropGrant, Ready, LoopFree, KeepServer
  <2> HIDE DEF s
  <2>3. Outstanding' = session.grants \ {g} /\ Outstanding = session.grants
    BY <1>0, <1>2, <2>1, <2>2 DEF Outstanding
  <2>4. SpentGrantsStayGone'
    BY <1>0, <2>2, <2>3 DEF GrantInv, SpentGrantsStayGone, Outstanding
  <2>5. \A c \in approving' : c \notin Outstanding' /\ fate'[c] # "unused"
    BY <1>0, <2>2, <2>3 DEF GrantInv, Grant
  <2> QED BY <2>2, <2>4, <2>5 DEF GrantInv, NothingPending
<1>7. ASSUME NEW c \in Confirmation, ApproveConfirmation(c) PROVE GrantInv'
  <2> DEFINE s == [session EXCEPT !.grants = @ \ {c}]
  <2>1. s \in AiDmSessionState /\ s.grants = session.grants \ {c}
    BY <1>0 DEF AiDmSessionState
  <2>2. Save(s) /\ loaded /\ pending = NothingPending /\ pending' = pending
        /\ approving' = approving \cup {c} /\ fate' = fate /\ c \in session.grants
    BY <1>7 DEF ApproveConfirmation, Ready, LoopFree, KeepServer
  <2> HIDE DEF s
  <2>3. Outstanding' = session.grants \ {c} /\ Outstanding = session.grants
    BY <1>0, <1>2, <2>1, <2>2 DEF Outstanding
  <2>4. fate[c] = "live"
    BY <1>0, <2>2 DEF GrantInv, SpentGrantsStayGone
  <2>5. SpentGrantsStayGone'
    BY <1>0, <2>2, <2>3 DEF GrantInv, SpentGrantsStayGone, Outstanding
  <2>6. \A d \in approving' : d \notin Outstanding' /\ fate'[d] # "unused"
    BY <1>0, <2>2, <2>3, <2>4 DEF GrantInv
  <2> QED BY <2>2, <2>5, <2>6 DEF GrantInv, NothingPending
<1>8. ASSUME NEW c \in Confirmation, ExecuteConfirmed(c) PROVE GrantInv'
  <2>1. /\ c \in approving /\ approving' = approving \ {c} /\ pending' = pending
        /\ \E outcome \in {"executed", "spent"} : fate' = [fate EXCEPT ![c] = outcome]
        /\ Save(session) \/ KeepSession
    BY <1>8 DEF ExecuteConfirmed, KeepServer
  <2>2. Outstanding' \subseteq Outstanding
    <3>1. CASE Save(session)
      BY <1>0, <1>2, <3>1 DEF Outstanding
    <3> QED BY <1>3, <2>1, <3>1
  <2>3. c \notin Outstanding
    BY <2>1 DEF GrantInv
  <2>4. \A g \in Grant : /\ g # c => fate'[g] = fate[g]
                         /\ fate'[g] = "unused" => fate[g] = "unused"
    BY <1>0, <2>1
  <2>5. SpentGrantsStayGone'
    BY <1>0, <2>2, <2>3, <2>4 DEF GrantInv, SpentGrantsStayGone, Outstanding
  <2>6. \A d \in approving' : d \notin Outstanding' /\ fate'[d] # "unused"
    BY <1>0, <2>1, <2>2, <2>4 DEF GrantInv, Grant
  <2> QED BY <2>1, <2>2, <2>5, <2>6 DEF GrantInv
<1>9. CASE RaiseHold \/ ReleaseHold
  BY <1>1, <1>9 DEF RaiseHold, ReleaseHold, Outstanding
<1>10. CASE Teardown
  <2>1. Outstanding' = {} /\ pending = NothingPending /\ pending' = pending
        /\ approving' = approving
    BY <1>10 DEF Teardown, Outstanding, NoRow, FreshSession, LoopFree
  <2>2. \A g \in Grant : fate'[g] = "unused" => fate[g] = "unused"
    BY <1>10 DEF Teardown
  <2> QED BY <1>0, <2>1, <2>2 DEF GrantInv, SpentGrantsStayGone, Outstanding, NothingPending, Grant
<1>11. CASE AnnounceRestart
  <2>1. /\ Outstanding' = Outstanding /\ pending' = NothingPending /\ approving' = approving
        /\ fate' = [g \in Grant |-> IF g \in pending.grants THEN "announced" ELSE fate[g]]
    BY <1>3, <1>11 DEF AnnounceRestart
  <2>2. \A g \in Outstanding : g \notin pending.grants
    BY DEF GrantInv
  <2>3. SpentGrantsStayGone'
    BY <1>0, <2>1, <2>2 DEF GrantInv, SpentGrantsStayGone, Outstanding
  <2> QED BY <1>0, <2>1, <2>3 DEF GrantInv, NothingPending, Grant
<1>12. CASE Crash
  <2>1. /\ Outstanding' = row.control.grants /\ pending' = NothingPending /\ approving' = {}
        /\ fate' = [g \in Grant |-> IF g \in approving THEN "spent" ELSE fate[g]]
    BY <1>12 DEF Crash, Outstanding, FreshSession
  <2>2. SpentGrantsStayGone'
    BY <1>0, <2>1 DEF GrantInv, SpentGrantsStayGone, Outstanding
  <2> QED BY <2>1, <2>2 DEF GrantInv, NothingPending
<1>13. ASSUME NEW lapsed \in BOOLEAN, Hydrate(lapsed) PROVE GrantInv'
  <2> DEFINE stored == row.control
             s == Hydrated(stored, held, lapsed)
  <2>1. /\ session' = s /\ approving' = approving
        /\ fate' = [g \in Grant |-> IF g \in stored.grants THEN "discarded" ELSE fate[g]]
        /\ \/ row' = row /\ s = stored
           \/ \E a : row' = [control |-> Persisted(s), announced |-> a]
    BY <1>13 DEF Hydrate
  <2>2. s.grants = {}
    BY <1>0 DEF Hydrated, AiDmSessionState
  <2>3. s \in AiDmSessionState
    BY <1>0, HydratedSound DEF Sound, IInv, ServerInv
  <2>4. row'.control.grants = {}
    BY <2>1, <2>2, <2>3, LeversKeepGrants
  <2>5. Outstanding' = {}
    BY <2>1, <2>2, <2>4 DEF Outstanding
  <2> QED BY <1>0, <2>1, <2>5 DEF GrantInv, SpentGrantsStayGone, Outstanding, Grant
<1>14. CASE UNCHANGED vars
  BY <1>1, <1>14 DEF vars, Outstanding
<1> QED BY <1>4, <1>5, <1>6, <1>7, <1>8, <1>9, <1>10, <1>11, <1>12, <1>13, <1>14, StepKinds

(* A dead process takes its turns and tool calls with it.                  *)
LEMMA ColdStaysCold ==
    ASSUME IInv, ColdInv, [Next]_vars
    PROVE  ColdInv'
<1>1. CASE loaded'
  BY <1>1 DEF ColdInv
<1>2. CASE Crash
  BY <1>2 DEF Crash, ColdInv, NoTurn
<1>3. CASE RaiseHold \/ ReleaseHold \/ AnnounceRestart \/ UNCHANGED vars
  BY <1>3 DEF RaiseHold, ReleaseHold, AnnounceRestart, vars, ColdInv
<1>4. CASE \E c \in Confirmation : ExecuteConfirmed(c)
  BY <1>4 DEF ExecuteConfirmed, KeepServer, ColdInv
<1>5. ASSUME NEW g \in Grant, AddGrant(g) \/ DropGrant(g) PROVE loaded'
  BY <1>5 DEF AddGrant, DropGrant, Ready, KeepServer
<1>6. ASSUME NEW c \in Confirmation, ApproveConfirmation(c) PROVE loaded'
  BY <1>6 DEF ApproveConfirmation, Ready, KeepServer
<1>7. CASE Teardown \/ \E b \in BOOLEAN : Hydrate(b)
  BY <1>1, <1>7 DEF Teardown, Hydrate
<1>8. CASE Handled
  BY <1>1, <1>8 DEF Handled
<1> QED
  BY <1>1, <1>2, <1>3, <1>4, <1>5, <1>6, <1>7, <1>8, StepKinds

(* What a boot finds is what the boot before it left, an expired vote aside. *)
LEMMA HydratedIsSteady ==
    ASSUME NEW c \in AiDmSessionState, NEW h \in BOOLEAN, NEW lapsed \in BOOLEAN,
           NEW again \in BOOLEAN
    PROVE  LET s == Hydrated(c, h, lapsed)
               back == Hydrated(s, h, again)
           IN  /\ s.status # "running"
               /\ ShapeOf(back, h) \in {ShapeOf(s, h), "none"}
<1> DEFINE s == Hydrated(c, h, lapsed)
           back == Hydrated(s, h, again)
<1>1. s \in AiDmSessionState /\ Coherent(s) /\ ModeShown(s)
  BY HydratedSound DEF Sound
<1>2. /\ s.state = HydratedState(c, h)
      /\ s.status = IF s.state \in MidTurnFrozenState THEN "paused" ELSE "idle"
      /\ s.stuck = c.stuck
  BY DEF Hydrated, AiDmSessionState
<1>3. /\ back.state = HydratedState(s, h) /\ back.stuck = s.stuck
      /\ back.vote \in {s.vote, "none"}
  BY <1>1 DEF Hydrated, AiDmSessionState
<1>4. /\ s.state \in AiDmLadderState
      /\ h => s.state \in {"paused", "human_control"}
      /\ s.state = "awaiting_players" => s.stuck # "none"
  BY <1>2 DEF HydratedState, DeriveLadderState, AiDmSessionState
<1> HIDE DEF s, back
<1>5. back.state = s.state
  BY <1>1, <1>2, <1>3, <1>4 DEF HydratedState, DeriveLadderState, Coherent, ModeShown
<1>6. ShapeOf(back, h) \in {ShapeOf(s, h), "none"}
  BY <1>3, <1>5 DEF ShapeOf, IsFrozen
<1> QED BY <1>2, <1>6 DEF s, back

(* Whatever leaves the quiet as it is leaves row and hold as they are, and a*)
(* boot records the shape it settles into.                                 *)
LEMMA QuietStaysSilent ==
    ASSUME IInv, ColdInv, QuietInv, [Next]_vars
    PROVE  QuietInv'
<1>1. ASSUME UNCHANGED <<row, held, quiet>> PROVE QuietInv'
  BY <1>1 DEF QuietInv, Silent
<1>2. ASSUME ~quiet' PROVE QuietInv'
  BY <1>2 DEF QuietInv
<1>3. CASE Handled
  BY <1>1, <1>2, <1>3 DEF Handled, KeepSession, Save
<1>4. ASSUME NEW g \in Grant, AddGrant(g) \/ DropGrant(g) PROVE QuietInv'
  BY <1>2, <1>4 DEF AddGrant, DropGrant, Save
<1>5. ASSUME NEW c \in Confirmation, ApproveConfirmation(c) \/ ExecuteConfirmed(c)
      PROVE  QuietInv'
  BY <1>1, <1>2, <1>5 DEF ApproveConfirmation, ExecuteConfirmed, KeepSession, Save, KeepServer
<1>6. CASE RaiseHold \/ ReleaseHold \/ Teardown
  BY <1>2, <1>6 DEF RaiseHold, ReleaseHold, Teardown
<1>7. CASE AnnounceRestart \/ Crash \/ UNCHANGED vars
  BY <1>1, <1>7 DEF AnnounceRestart, KeepSession, Crash, vars
<1>8. ASSUME NEW lapsed \in BOOLEAN, Hydrate(lapsed) PROVE QuietInv'
  <2> DEFINE s == Hydrated(row.control, held, lapsed)
             settled == ShapeOf(s, held)
  <2>1. /\ held' = held
        /\ row' = IF s # row.control \/ settled # row.announced
                  THEN [control |-> Persisted(s), announced |-> settled] ELSE row
    BY <1>8 DEF Hydrate, RecordedShape
  <2>2. row.control \in AiDmSessionState /\ held \in BOOLEAN
    BY DEF IInv, SeatInv, ServerInv
  <2>3. Persisted(s) = s
    BY <2>2, HydratedPersisted
  <2>4. \A again \in BOOLEAN :
          /\ s.status # "running"
          /\ ShapeOf(Hydrated(s, held, again), held) \in {settled, "none"}
    BY <2>2, HydratedIsSteady
  <2> HIDE DEF s, settled
  <2>5. row'.control = s /\ row'.announced = settled
    BY <2>1, <2>3
  <2>6. Silent'
    BY <2>1, <2>4, <2>5 DEF Silent, Announces, RecoveryOf
  <2> QED BY <2>6 DEF QuietInv
<1> QED BY <1>3, <1>4, <1>5, <1>6, <1>7, <1>8, StepKinds

(* Only a boot announces, and in the quiet it has nothing to.              *)
LEMMA QuietNeverAnnounces ==
    ASSUME IInv, ColdInv, QuietInv, [Next]_vars
    PROVE  quiet => pending'.shape \in {"none", pending.shape}
<1> SUFFICES ASSUME quiet PROVE pending'.shape \in {"none", pending.shape}
  OBVIOUS
<1>1. ASSUME NEW lapsed \in BOOLEAN, Hydrate(lapsed) PROVE pending'.shape = "none"
  <2>1. ~Announces(row.control, ShapeOf(Hydrated(row.control, held, lapsed), held),
                   row.announced)
    BY DEF QuietInv, Silent
  <2> QED BY <1>1, <2>1 DEF Hydrate
<1>2. CASE UNCHANGED pending \/ pending' = NothingPending
  BY <1>2 DEF NothingPending
<1>3. CASE Handled \/ RaiseHold \/ ReleaseHold \/ Teardown \/ AnnounceRestart \/ Crash
           \/ UNCHANGED vars
  BY <1>2, <1>3 DEF Handled, RaiseHold, ReleaseHold, Teardown, AnnounceRestart, Crash, vars
<1>4. ASSUME NEW g \in Grant, AddGrant(g) \/ DropGrant(g) PROVE UNCHANGED pending
  BY <1>4 DEF AddGrant, DropGrant, KeepServer
<1>5. ASSUME NEW c \in Confirmation, ApproveConfirmation(c) \/ ExecuteConfirmed(c)
      PROVE  UNCHANGED pending
  BY <1>5 DEF ApproveConfirmation, ExecuteConfirmed, KeepServer
<1> QED BY <1>1, <1>2, <1>3, <1>4, <1>5, StepKinds

(* A boot under a hold comes back frozen, an expired vote or not.          *)
LEMMA LoadedFrozen ==
    ASSUME NEW c \in AiDmSessionState, NEW h \in BOOLEAN, NEW lapsed \in BOOLEAN
    PROVE  /\ IsFrozen(Hydrated(c, h, lapsed)) <=> IsFrozen(Hydrated(c, h, FALSE))
           /\ IsFrozen(Hydrated(c, TRUE, FALSE))
<1>1. \A g \in BOOLEAN, l \in BOOLEAN : Hydrated(c, g, l).state = HydratedState(c, g)
  BY DEF Hydrated, AiDmSessionState
<1>2. HydratedState(c, TRUE) \in MidTurnFrozenState
  BY DEF HydratedState, DeriveLadderState
<1> QED BY <1>1, <1>2 DEF IsFrozen

(* What a step does to a frozen seat, by its kind.                         *)
LEMMA FreezeStands ==
    ASSUME IInv, ColdInv, [Next]_vars
    PROVE  Frozen /\ ~Frozen' => \/ Resume \/ Handback \/ Teardown
                                 \/ ~loaded /\ ReleaseHold
<1> SUFFICES ASSUME Frozen, ~Teardown, ~Thaws, ~(~loaded /\ ReleaseHold) PROVE Frozen'
  BY DEF Thaws
<1>0. /\ session \in AiDmSessionState /\ row.control \in AiDmSessionState
      /\ held \in BOOLEAN /\ loaded \in BOOLEAN
  BY DEF IInv, SeatInv, ServerInv, Sound
<1>1. ASSUME loaded, loaded', IsFrozen(session')  PROVE Frozen'
  BY <1>1 DEF Frozen, IsFrozen
<1>2. ASSUME loaded, loaded', KeepSession PROVE Frozen'
  BY <1>1, <1>2 DEF Frozen, KeepSession
<1>3. CASE Handled
  BY <1>1, <1>2, <1>3 DEF Handled, Save, Frozen
<1>4. ASSUME NEW G \in SUBSET Grant, Save([session EXCEPT !.grants = G]), loaded, loaded'
      PROVE  Frozen'
  <2>1. session'.state = session.state
    BY <1>0, <1>4 DEF Save, AiDmSessionState
  <2> QED BY <1>1, <1>4, <2>1 DEF Frozen, IsFrozen
<1>5. ASSUME NEW g \in Grant, AddGrant(g) \/ DropGrant(g) PROVE Frozen'
  <2>1. session.grants \cup {g} \in SUBSET Grant /\ session.grants \ {g} \in SUBSET Grant
    BY <1>0 DEF AiDmSessionState
  <2> QED BY <1>4, <1>5, <2>1 DEF AddGrant, DropGrant, Ready, KeepServer
<1>6. ASSUME NEW c \in Confirmation, ApproveConfirmation(c) PROVE Frozen'
  <2>1. session.grants \ {c} \in SUBSET Grant
    BY <1>0 DEF AiDmSessionState
  <2> QED BY <1>4, <1>6, <2>1 DEF ApproveConfirmation, Ready, KeepServer
<1>7. ASSUME NEW c \in Confirmation, ExecuteConfirmed(c) PROVE Frozen'
  <2>1. loaded /\ loaded'
    BY <1>0, <1>7 DEF ExecuteConfirmed, ColdInv, KeepServer
  <2> QED BY <1>1, <1>2, <1>7, <2>1 DEF ExecuteConfirmed, Save, Frozen
<1>8. CASE RaiseHold \/ ReleaseHold
  <2>1. UNCHANGED <<session, loaded, row>>
    BY <1>8 DEF RaiseHold, ReleaseHold
  <2>2. CASE loaded
    BY <2>1, <2>2 DEF Frozen
  <2>3. CASE ~loaded
    <3>1. held'
      BY <1>8, <2>3 DEF RaiseHold
    <3>2. IsFrozen(Hydrated(row.control, TRUE, FALSE))
      BY <1>0, LoadedFrozen
    <3> QED BY <1>8, <2>1, <2>3, <3>2 DEF Frozen, RaiseHold
  <2> QED BY <2>2, <2>3
<1>9. CASE AnnounceRestart \/ UNCHANGED vars
  <2>1. UNCHANGED <<session, loaded, row, held>>
    BY <1>9 DEF AnnounceRestart, KeepSession, vars
  <2>2. CASE loaded
    BY <2>1, <2>2 DEF Frozen
  <2>3. CASE ~loaded
    BY <2>1, <2>3 DEF Frozen
  <2> QED BY <2>2, <2>3
<1>10. CASE Crash
  <2>1. UNCHANGED <<row, held>> /\ ~loaded'
    BY <1>10 DEF Crash
  <2>2. IsFrozen(Hydrated(row.control, held, FALSE))
    BY <1>0, FrozenComesBack DEF IInv, SeatInv, Sound, MemoryIsDurable, Frozen
  <2> QED BY <2>1, <2>2 DEF Frozen
<1>11. ASSUME NEW lapsed \in BOOLEAN, Hydrate(lapsed) PROVE Frozen'
  <2>1. session' = Hydrated(row.control, held, lapsed) /\ ~loaded /\ loaded'
    BY <1>11 DEF Hydrate
  <2>2. IsFrozen(Hydrated(row.control, held, lapsed))
    BY <1>0, <2>1, LoadedFrozen DEF Frozen
  <2> QED BY <2>1, <2>2 DEF Frozen
<1> QED BY <1>3, <1>5, <1>6, <1>7, <1>8, <1>9, <1>10, <1>11, StepKinds

(* The two inductive invariants together.                                  *)
LEMMA MoreHolds == Spec => [](IInv /\ MoreInv)
<1>1. Init => IInv
  BY InitInv
<1>2. Init => MoreInv
  BY DEF Init, MoreInv, GrantInv, ColdInv, QuietInv, SpentGrantsStayGone, Outstanding,
         NoRow, FreshSession, NothingPending, NoTurn
<1>3. IInv /\ MoreInv /\ [Next]_vars => IInv' /\ MoreInv'
  BY NextKeepsInv, GrantsStayGone, ColdStaysCold, QuietStaysSilent DEF MoreInv
<1> QED BY <1>1, <1>2, <1>3, PTL DEF Spec

(* Spent, executed or discarded authority is gone from memory and from     *)
(* disk: no boot, late click or crash between row and tool brings it back. *)
THEOREM GoneStaysGone == Spec => []SpentGrantsStayGone
<1>1. IInv /\ MoreInv => SpentGrantsStayGone
  BY DEF MoreInv, GrantInv
<1> QED BY <1>1, MoreHolds, PTL

(* Boots after an announced recovery stay silent until somebody acts.      *)
THEOREM AnnouncedOnce == Spec => NoRepeatAnnouncement
<1>1. IInv /\ MoreInv /\ [Next]_vars =>
        [quiet => pending'.shape \in {"none", pending.shape}]_vars
  BY QuietNeverAnnounces DEF MoreInv
<1> QED BY <1>1, MoreHolds, PTL DEF Spec, NoRepeatAnnouncement

(* No vote, finishing turn, mode change, released hold, reboot or death    *)
(* thaws a frozen seat: only a resume, a handback or a teardown does, or a *)
(* hold released before anyone loaded the seat again.                      *)
THEOREM ThawedByPeople == Spec => OnlyHumansThaw
<1>1. IInv /\ MoreInv /\ [Next]_vars =>
        [Frozen /\ ~Frozen' => \/ Resume \/ Handback \/ Teardown
                               \/ ~loaded /\ ReleaseHold]_vars
  BY FreezeStands DEF MoreInv
<1> QED BY <1>1, MoreHolds, PTL DEF Spec, OnlyHumansThaw
==============================================================================
