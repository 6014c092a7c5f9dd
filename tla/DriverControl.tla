---------------------------- MODULE DriverControl ----------------------------
(***************************************************************************)
(* The control state of one AI driver seat across turns, levers, safety    *)
(* holds and restarts (ai-driver.service.ts, table-safety.service.ts).     *)
(*                                                                         *)
(* `session' is the in-process record, `row' its ai_driver_control_state   *)
(* row, `held' the table_safety_holds row.  A missing row reads back as a  *)
(* fresh session, so it is written as one.  `loaded' is FALSE from a boot  *)
(* until the first request hydrates the session.                           *)
(*                                                                         *)
(* Every handler is one action: between its awaits no other code runs, and *)
(* the awaits that are left inside a handler here (audit, notification,    *)
(* gate reads) resolve without I/O; DriverTurns splits the turn at them.   *)
(* Two handlers make several durable or visible writes in a row, and the   *)
(* process can die between two of them: raising or releasing a hold (row,  *)
(* then freeze hook: `hook'), and hydration (row, then announcement:       *)
(* `pending').  An approved confirmation awaits its tool (`approving').    *)
(***************************************************************************)
EXTENDS DriverSession, Naturals

CONSTANTS
    Turn,           \* turns that may be alive at once
    MaxCrashes      \* bound: process deaths explored

ASSUME MaxCrashesNat == MaxCrashes \in Nat

VARIABLES
    session, loaded, row, held,
    hook,           \* the hold change whose freeze hook is still to fire
    pending,        \* restart announcements decided but not yet made
    turns,          \* Turn -> its place in runTurn
    approving,      \* approved confirmations whose tool call is outstanding
    crashes,
    fate,           \* ghost: what became of each grant
    quiet           \* ghost: a recovery was announced and nobody acted since

vars == <<session, loaded, row, held, hook, pending, turns, approving,
          crashes, fate, quiet>>

NoRow == [control |-> FreshSession, announced |-> "none"]
NothingPending == [shape |-> "none", grants |-> {}, phase |-> FALSE]
NoTurn == [pc |-> "none", lifecycle |-> "none", previous |-> "active",
           live |-> FALSE, released |-> FALSE]

TypeOK ==
    /\ session \in AiDmSessionState
    /\ loaded \in BOOLEAN
    /\ row \in [control : AiDmSessionState, announced : SettledShape]
    /\ held \in BOOLEAN
    /\ hook \in {"none", "raise", "release"}
    /\ pending \in [shape : SettledShape \cup {"interrupted_turn"},
                    grants : SUBSET Grant, phase : BOOLEAN]
    /\ turns \in [Turn -> [pc : {"none", "setup", "generating", "returned"},
                           lifecycle : Lifecycle, previous : AiDmSessionPhase,
                           live : BOOLEAN, released : BOOLEAN]]
    /\ approving \subseteq Confirmation
    /\ crashes \in 0..MaxCrashes
    /\ fate \in [Grant -> {"unused", "live", "spent", "executed",
                           "discarded", "announced"}]
    /\ quiet \in BOOLEAN

Init ==
    /\ session = FreshSession /\ loaded = FALSE /\ row = NoRow /\ held = FALSE
    /\ hook = "none" /\ pending = NothingPending
    /\ turns = [t \in Turn |-> NoTurn] /\ approving = {} /\ crashes = 0
    /\ fate = [g \in Grant |-> "unused"] /\ quiet = FALSE

-----------------------------------------------------------------------------
(* persistControlState, and the shapes most levers share.                   *)

(* No handler is between two of its synchronous writes.                     *)
LoopFree == hook = "none" /\ pending = NothingPending
Ready == loaded /\ LoopFree

Save(s) ==
    /\ session' = s
    /\ row' = [control |-> Persisted(s), announced |-> "none"]
    /\ quiet' = FALSE

KeepSession == UNCHANGED <<session, row, quiet>>
KeepServer == UNCHANGED <<loaded, held, hook, pending, crashes>>

Generating(t) == turns[t].pc = "generating" /\ turns[t].live

Lever(s) ==
    /\ Ready
    /\ Save(s)
    /\ KeepServer
    /\ UNCHANGED <<turns, approving, fate>>

-----------------------------------------------------------------------------
(* Levers.                                                                  *)

Pause == Lever(Paused(session))

Resume == ~held /\ Lever(Resumed(session))

SetCollaborative(enabled) ==
    /\ session.collaborative # enabled
    /\ Lever(CollaborativeSet(session, enabled))

(* Also what "continue without AI" does when a DM presses it.               *)
GrantTakeover(member) == Lever(TakeoverGranted(session, member))

Handback ==
    /\ session.state = "human_control" /\ session.actingDm # NoOne
    /\ Lever(HandedBack(session))

OpenVote(kind) ==
    /\ session.vote = "none"
    /\ Lever([session EXCEPT !.vote = kind])

PassVote == session.vote # "none" /\ Lever(VotePassed(session))

(* Voted down, or past its TTL when next touched.                           *)
FailVote == session.vote # "none" /\ Lever([session EXCEPT !.vote = "none"])

(* A ballot that decides nothing, or an advisory takeover request.          *)
CastBallot == session.vote # "none" /\ Lever(session)
RequestTakeover == Lever(session)

EmergencyPause(t) ==
    /\ Generating(t)
    /\ session.status # "paused" /\ session.state # "paused"
    /\ Lever(Paused(session))

(* The seat leaves Driver mode: row deleted, running turns orphaned.        *)
Teardown ==
    /\ LoopFree
    /\ session' = FreshSession /\ row' = NoRow /\ quiet' = FALSE
    /\ loaded' = TRUE
    /\ turns' = [t \in Turn |-> [turns[t] EXCEPT !.live = FALSE]]
    /\ fate' = [g \in Grant |->
                  IF g \in row.control.grants THEN "spent" ELSE fate[g]]
    /\ UNCHANGED <<held, hook, pending, approving, crashes>>

-----------------------------------------------------------------------------
(* Outstanding authority.                                                   *)

(* A DM approves one secret read, or the AI queues a confirm-policy call.   *)
AddGrant(g) ==
    /\ Ready /\ fate[g] = "unused"
    /\ g \in Confirmation =>
         \E t \in Turn : Generating(t)
    /\ Save([session EXCEPT !.grants = @ \cup {g}])
    /\ fate' = [fate EXCEPT ![g] = "live"]
    /\ KeepServer /\ UNCHANGED <<turns, approving>>

(* Revoked, consumed by a read, rejected, or evicted at the cap.            *)
DropGrant(g) ==
    /\ Ready /\ g \in session.grants
    /\ Save([session EXCEPT !.grants = @ \ {g}])
    /\ fate' = [fate EXCEPT ![g] = "spent"]
    /\ KeepServer /\ UNCHANGED <<turns, approving>>

(* Mutant: the tool runs before the row forgets the confirmation.           *)
ApproveUnsaved(c) ==
    /\ Ready /\ c \in session.grants
    /\ session' = [session EXCEPT !.grants = @ \ {c}] /\ quiet' = FALSE
    /\ approving' = approving \cup {c}
    /\ KeepServer /\ UNCHANGED <<row, turns, fate>>

(* resolveToolConfirmation: off the row first, then the tool runs.          *)
ApproveConfirmation(c) ==
    /\ Ready /\ c \in session.grants
    /\ Save([session EXCEPT !.grants = @ \ {c}])
    /\ approving' = approving \cup {c}
    /\ KeepServer /\ UNCHANGED <<turns, fate>>

(* The tool runs, or a last check refuses it; some tools save the seat.     *)
ExecuteConfirmed(c) ==
    /\ LoopFree /\ c \in approving
    /\ approving' = approving \ {c}
    /\ \E outcome \in {"executed", "spent"} : fate' = [fate EXCEPT ![c] = outcome]
    /\ KeepSession \/ Save(session)
    /\ KeepServer /\ UNCHANGED turns

-----------------------------------------------------------------------------
(* Safety holds: the durable row, then the driver's freeze hook.            *)

RaiseHold ==
    /\ LoopFree
    /\ held' = TRUE /\ hook' = "raise" /\ quiet' = FALSE
    /\ UNCHANGED <<session, loaded, row, pending, turns, approving, crashes, fate>>

(* Whatever recovery the facilitator chose, the hook only hears "off".      *)
ReleaseHold ==
    /\ LoopFree
    /\ held' = FALSE /\ hook' = "release" /\ quiet' = FALSE
    /\ UNCHANGED <<session, loaded, row, pending, turns, approving, crashes, fate>>

(* Only a raised hold touches the seat: releasing merely persists it.       *)
ApplySafetyHold ==
    /\ hook # "none" /\ loaded /\ pending = NothingPending
    /\ Save(IF hook = "raise" THEN SafetyHeld(session) ELSE session)
    /\ hook' = "none"
    /\ UNCHANGED <<loaded, held, pending, turns, approving, crashes, fate>>

-----------------------------------------------------------------------------
(* Turns.                                                                   *)

Admissible(lifecycle) ==
    /\ ~held
    /\ session.state # "human_control"
    /\ session.status # "paused"
    /\ lifecycle = "none" => session.phase \notin {"ended", "wrap_up"}

(* runTurn up to its first I/O: the slot is reserved, the phase published.  *)
StartTurn(t, lifecycle) ==
    /\ Ready /\ turns[t].pc = "none"
    /\ Admissible(lifecycle) /\ session.status # "running"
    /\ Save([session EXCEPT
                !.status = "running",
                !.phase = IF lifecycle = "none" THEN @ ELSE lifecycle,
                !.replay = IF lifecycle = "none" THEN "player" ELSE lifecycle])
    /\ turns' = [turns EXCEPT ![t] =
                   [pc |-> "setup", lifecycle |-> lifecycle,
                    previous |-> session.phase, live |-> TRUE,
                    released |-> FALSE]]
    /\ KeepServer /\ UNCHANGED <<approving, fate>>

Message(t) == StartTurn(t, "none")

StartSession(t) ==
    session.phase \notin TransientPhase /\ StartTurn(t, "greeting")

WrapUpSession(t) ==
    session.phase \notin TransientPhase \cup {"ended"} /\ StartTurn(t, "wrap_up")

(* A nudge replays the last input; a lifecycle prompt is replayed as one.   *)
ReplayLifecycle(t) ==
    session.replay \in TransientPhase /\ StartTurn(t, session.replay)

(* Mutant: nothing advances the phase when the turn is over.                *)
PhaseLeft(s, lifecycle) == s

PhaseSettled(s, lifecycle) ==
    [s EXCEPT !.phase = IF @ = lifecycle THEN SettledPhaseFor(@) ELSE @]

(* The same replay refused by a gate: runLifecycleTurn's catch and finally  *)
(* run on a session whose phase may be an older turn's.                     *)
RefuseReplay ==
    /\ session.replay \in TransientPhase
    /\ Ready
    /\ IF session.phase = session.replay
       THEN Save(PhaseSettled(session, session.replay))
       ELSE KeepSession
    /\ KeepServer /\ UNCHANGED <<turns, approving, fate>>

BeginGeneration(t) ==
    /\ LoopFree /\ turns[t].pc = "setup"
    /\ turns' = [turns EXCEPT ![t].pc = "generating"]
    /\ KeepServer /\ KeepSession /\ UNCHANGED <<approving, fate>>

(* A step of turn t that writes session s, unless the session it holds was  *)
(* torn down.                                                               *)
TurnStep(t, s, after) ==
    /\ LoopFree
    /\ IF turns[t].live THEN Save(s) ELSE KeepSession
    /\ turns' = [turns EXCEPT ![t] = after]
    /\ KeepServer /\ UNCHANGED <<approving, fate>>

(* No provider, or context assembly throws: the phase is taken back.        *)
FailSetup(t) ==
    /\ turns[t].pc = "setup"
    /\ LET lifecycle == turns[t].lifecycle
           s == SlotReleased(session)
           back == [s EXCEPT !.phase = IF @ = lifecycle THEN turns[t].previous ELSE @]
       IN  TurnStep(t, PhaseSettled(back, lifecycle), NoTurn)

FinishGeneration(t) ==
    /\ turns[t].pc = "generating"
    /\ TurnStep(t, SlotReleased(session),
                [turns[t] EXCEPT !.pc = "returned",
                                 !.released = session.status = "running"])

(* Stuck detection, the outer finally, and the lifecycle settlement.        *)
SettleTurn(t, reason) ==
    /\ turns[t].pc = "returned"
    /\ LET s == TurnClassified(session, reason)
       IN  TurnStep(t,
                    PhaseSettled(IF turns[t].released THEN s ELSE SlotReleased(s),
                                 turns[t].lifecycle),
                    NoTurn)

-----------------------------------------------------------------------------
(* Death and restart.                                                       *)

Crash ==
    /\ crashes < MaxCrashes
    /\ crashes' = crashes + 1
    /\ session' = FreshSession /\ loaded' = FALSE
    /\ hook' = "none" /\ pending' = NothingPending
    /\ turns' = [t \in Turn |-> NoTurn] /\ approving' = {}
    /\ fate' = [g \in Grant |-> IF g \in approving THEN "spent" ELSE fate[g]]
    /\ UNCHANGED <<row, held, quiet>>

(* ensureSession on a cold map: reconcile, write back, decide the notices.  *)
Hydrate(voteLapsed) ==
    /\ ~loaded /\ pending = NothingPending
    /\ voteLapsed => row.control.vote # "none"
    /\ LET stored == row.control
           s == Hydrated(stored, held, voteLapsed)
           settled == ShapeOf(s, held)
           announce == Announces(stored, settled, row.announced)
           recorded == RecordedShape(stored, settled)
           dirty == s # stored \/ recorded # row.announced
       IN  /\ session' = s
           /\ row' = IF dirty THEN [control |-> Persisted(s), announced |-> recorded]
                              ELSE row
           /\ pending' = [shape |-> IF announce THEN RecoveryOf(stored, settled)
                                     ELSE "none",
                          grants |-> stored.grants,
                          phase |-> stored.phase \in TransientPhase]
           /\ fate' = [g \in Grant |->
                         IF g \in stored.grants THEN "discarded" ELSE fate[g]]
           /\ quiet' = (quiet \/ announce)
    /\ loaded' = TRUE
    /\ UNCHANGED <<held, hook, turns, approving, crashes>>

AnnounceRestart ==
    /\ pending # NothingPending
    /\ pending' = NothingPending
    /\ fate' = [g \in Grant |-> IF g \in pending.grants THEN "announced" ELSE fate[g]]
    /\ KeepSession /\ UNCHANGED <<loaded, held, hook, turns, approving, crashes>>

-----------------------------------------------------------------------------
TurnProgress(t) ==
    \/ BeginGeneration(t) \/ FailSetup(t) \/ FinishGeneration(t)
    \/ \E reason \in StuckReason : SettleTurn(t, reason)

Synchronous == ApplySafetyHold \/ AnnounceRestart \/ \E b \in BOOLEAN : Hydrate(b)

Next ==
    \/ Pause \/ Resume \/ Handback \/ PassVote \/ FailVote \/ Teardown
    \/ CastBallot \/ RequestTakeover
    \/ \E b \in BOOLEAN : SetCollaborative(b)
    \/ \E m \in Member : GrantTakeover(m)
    \/ \E k \in VoteKind : OpenVote(k)
    \/ \E g \in Grant : AddGrant(g) \/ DropGrant(g)
    \/ \E c \in Confirmation : ApproveConfirmation(c) \/ ExecuteConfirmed(c)
    \/ RaiseHold \/ ReleaseHold
    \/ RefuseReplay
    \/ \E t \in Turn :
         \/ Message(t) \/ StartSession(t) \/ WrapUpSession(t) \/ ReplayLifecycle(t)
         \/ EmergencyPause(t) \/ TurnProgress(t)
    \/ Synchronous \/ Crash

Spec == Init /\ [][Next]_vars

(* Code between two synchronous writes finishes, and a turn's continuation  *)
(* runs once its I/O answers (provider calls time out): strong fairness,    *)
(* since other handlers keep taking the event loop but the ready queue is   *)
(* first in, first out.  People promise nothing.                            *)
Fairness ==
    /\ WF_vars(ApplySafetyHold \/ AnnounceRestart)
    /\ \A t \in Turn : SF_vars(TurnProgress(t))

FairSpec == Spec /\ Fairness

-----------------------------------------------------------------------------
(* Safety.                                                                  *)

(* The three fields that say "frozen" never contradict each other: a        *)
(* paused status always shows as a frozen ladder state, a paused ladder     *)
(* state is never runnable, and human control always names its human.       *)
SeatShape == Coherent(session)

(* Collaborative mode is never lost to an unrelated lever: whenever the     *)
(* seat is healthy its ladder value is the one the mode calls for, whatever *)
(* pause, takeover, vote, stuck turn or restart came in between.            *)
ModeRestored == ModeShown(session)

(* The row always holds the session a restart must recover.                 *)
MemoryIsDurable == loaded => row.control = Persisted(session)

(* If the process died now, a frozen seat and a seat whose turn owns the    *)
(* slot would both come back frozen, with or without a standing hold and    *)
(* whether or not the open vote lapses meanwhile; a human holding the seat  *)
(* with nothing else going on keeps it.                                     *)
FreezeSurvivesRestart ==
    loaded =>
      \A lapsed \in BOOLEAN :
        LET back == Hydrated(row.control, held, lapsed)
        IN  /\ IsFrozen(session) \/ session.status = "running" => IsFrozen(back)
            /\ session.state = "human_control" =>
                 back.state = "human_control" /\ back.actingDm = session.actingDm

(* Authority that was spent, executed or discarded by a restart is gone     *)
(* from memory and from disk, so no later boot or click can use it again.   *)
SpentGrantsStayGone ==
    \A g \in Grant :
      g \in session.grants \cup row.control.grants => fate[g] = "live"

(* Once a recovered shape was announced, further boots stay silent until a  *)
(* person or a turn acts on the seat.                                       *)
NoRepeatAnnouncement ==
    [][quiet => pending'.shape \in {"none", pending.shape}]_vars

(* A greeting or wrap-up phase on a live session belongs to a turn that is  *)
(* still to settle it.                                                      *)
TransientPhaseIsOwned ==
    session.phase \in TransientPhase =>
      \E t \in Turn : turns[t].live /\ turns[t].lifecycle = session.phase

(* What the seat is, or would come back as.                                 *)
Frozen ==
    IF loaded THEN IsFrozen(session) ELSE IsFrozen(Hydrated(row.control, held, FALSE))

(* Only a resume, a handback or a teardown ever thaws a frozen seat; no     *)
(* vote, finishing turn, mode change, released hold or reboot does.         *)
OnlyHumansThaw ==
    [][Frozen /\ ~Frozen' => \/ Resume \/ Handback \/ Teardown
                             \/ ~loaded /\ ReleaseHold]_vars

-----------------------------------------------------------------------------
(* Liveness.                                                                *)

(* The table never stays stranded in a greeting or a wrap-up.               *)
TransientPhaseSettles ==
    session.phase \in TransientPhase ~> session.phase \notin TransientPhase

-----------------------------------------------------------------------------
(* What comments and documentation say, and the code does not do.           *)

(* "never steals the seat back from a human who holds it": resuming while   *)
(* an acting-DM grant stands leaves the seat frozen.                        *)
ResumeKeepsHuman ==
    [][Resume /\ session.actingDm # NoOne => IsFrozen(session')]_vars

(* "a crash between the two re-announces rather than silently losing the    *)
(* notice": whatever a restart discarded is announced or about to be.       *)
DiscardsAreAnnounced ==
    \A g \in Grant : fate[g] = "discarded" => g \in pending.grants
==============================================================================
