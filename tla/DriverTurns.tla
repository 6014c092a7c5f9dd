----------------------------- MODULE DriverTurns -----------------------------
(***************************************************************************)
(* Concurrent player messages on one AI driver seat (ai-driver.service.ts, *)
(* runTurn): the turn slot, the action queue, the generation handle that   *)
(* stop controls abort, the spend lock, and the levers that interrupt them.*)
(*                                                                         *)
(* A request is a process.  Its `pc' names the await it is suspended in:   *)
(*   gating     assertRunnable          depth      getActionQueueDepth     *)
(*   queued     the queue entry's promise                                  *)
(*   setup      provider resolution and context assembly                   *)
(*   step       between two steps       locking    the campaign spend lock *)
(*   streaming  the provider call       backoff    a retry's sleep         *)
(*   tools      between two tool calls  finishing  the loop's last await   *)
(*   settling   grounding and the rest after the seat was released         *)
(* Code between two awaits is one action.                                  *)
(*                                                                         *)
(* Teardown replaces the session object; turns already running keep the    *)
(* old one (`obj' against `cur').  The queue array is replaced too: a      *)
(* caller in `depth' holds a reference, and `ticket' says what became of   *)
(* that array: still installed, dropped once empty, or flushed.            *)
(*                                                                         *)
(* Lifecycle turns are never queued; DriverControl has their phases, and   *)
(* the stuck classification that parks a seat without closing it to turns. *)
(***************************************************************************)
EXTENDS DriverSession, Naturals, Sequences, SequencesExt

CONSTANTS
    Request,        \* player messages
    MaxDepth,       \* actionQueueDepth of the seat
    MaxSteps,       \* provider steps per turn
    MaxAttempts,    \* provider attempts per step
    MaxTeardowns,   \* bound: session objects replaced
    Env             \* what people, budget and clock are allowed to do

ASSUME BoundsAreNat ==
    /\ MaxDepth \in Nat \ {0} /\ MaxAttempts \in Nat \ {0}
    /\ MaxSteps \in Nat /\ MaxTeardowns \in Nat
ASSUME NoOneIsNoRequest == NoOne \notin Request

VARIABLES
    req,            \* Request -> its place in runTurn
    sessions, cur,  \* session objects, and the one in the map
    queue,          \* entries of the installed action queue
    installed,      \* is an array in actionQueues
    gen,            \* owner of the handle in activeGenerations
    stopped,        \* owners of stopped or aborted handles
    lock,           \* holder of the spend lock
    armed,          \* the seat is in Driver mode
    killed,         \* the experimental AI flag is off
    broke,          \* the token budget is spent
    held,           \* a safety hold stands
    caught          \* ghost: requests a stop control has caught, until they unwind

vars == <<req, sessions, cur, queue, installed, gen, stopped, lock, armed,
          killed, broke, held, caught>>

Turning == {"setup", "step", "locking", "streaming", "backoff", "tools", "finishing"}
Generating == Turning \ {"setup"}

NewRequest ==
    [pc |-> "new", obj |-> 0, ticket |-> "none", step |-> 0, attempt |-> 0,
     released |-> FALSE]

TypeOK ==
    /\ req \in [Request ->
         [pc : {"new", "gating", "depth", "queued", "settling", "answered"} \cup Turning,
          obj : 0..MaxTeardowns, ticket : {"none", "live", "dropped", "flushed"},
          step : 0..MaxSteps, attempt : 0..MaxAttempts, released : BOOLEAN]]
    /\ sessions \in [0..MaxTeardowns -> AiDmSessionState]
    /\ cur \in 0..MaxTeardowns
    /\ queue \in Seq(Request) /\ Len(queue) <= MaxDepth
    /\ installed \in BOOLEAN /\ (~installed => queue = <<>>)
    /\ gen \in Request \cup {NoOne} /\ stopped \subseteq Request
    /\ lock \in Request \cup {NoOne}
    /\ armed \in BOOLEAN /\ killed \in BOOLEAN /\ broke \in BOOLEAN /\ held \in BOOLEAN
    /\ caught \subseteq Request

Init ==
    /\ req = [r \in Request |-> NewRequest]
    /\ sessions = [o \in 0..MaxTeardowns |-> FreshSession] /\ cur = 0
    /\ queue = <<>> /\ installed = FALSE
    /\ gen = NoOne /\ stopped = {} /\ lock = NoOne
    /\ armed = TRUE /\ killed = FALSE /\ broke = FALSE /\ held = FALSE
    /\ caught = {}

-----------------------------------------------------------------------------
session == sessions[cur]
Detached(r) == req[r].obj # cur
Mine(r) == sessions[req[r].obj]

SaveMine(r, s) == sessions' = [sessions EXCEPT ![req[r].obj] = s]

(* checkGenerationAuthority.                                                *)
Authorized(r) ==
    /\ ~Detached(r)
    /\ {r, gen} \cap stopped = {}
    /\ ~IsFrozen(Mine(r))
    /\ ~killed

(* assertTurnAdmissible, for a session s.                                   *)
Admissible(s) == ~held /\ s.state # "human_control" /\ s.status # "paused"

Goto(r, pc) == req' = [req EXCEPT ![r].pc = pc]

(* A caller gets its answer, and nothing of its request is left.            *)
Answered == [NewRequest EXCEPT !.pc = "answered"]
Refused(rs, r) == [rs EXCEPT ![r] = Answered]

(* The array leaves the map: its waiting holders see `fate'.                *)
Uninstalled(rs, fate) ==
    [r \in Request |->
       IF rs[r].pc = "depth" /\ rs[r].ticket = "live"
       THEN [rs[r] EXCEPT !.ticket = fate] ELSE rs[r]]

(* Mutant: entries are rejected, but the array is not marked as flushed.    *)
FlushedUnmarked(rs) ==
    [r \in Request |-> IF r \in ToSet(queue) THEN Answered ELSE rs[r]]

(* flushActionQueue, and teardownSession's own copy of it.                  *)
Flushed(rs) ==
    [r \in Request |->
       IF r \in ToSet(queue) THEN Answered
       ELSE Uninstalled(rs, "flushed")[r]]

KeepQueue == UNCHANGED <<queue, installed>>
KeepHandles == UNCHANGED <<gen, stopped, caught>>
KeepFlags == UNCHANGED <<armed, killed, broke, held>>

(* cancelGeneration.                                                        *)
CancelGeneration ==
    /\ stopped' = stopped \cup ({gen} \ {NoOne})
    /\ UNCHANGED gen

InGeneration == {r \in Request : req[r].pc \in Generating}

(* The callers a flush can reach: queued, or waiting to join the queue.     *)
Waiting ==
    LET joining == {r \in Request : req[r].pc = "depth" /\ req[r].ticket = "live"}
    IN  {r \in Request : req[r].pc = "queued"} \cup joining

-----------------------------------------------------------------------------
(* Accepting a message.                                                     *)

(* The slot is free: take it in the same breath as the last gate.           *)
Reserve(r, rs, o) ==
    /\ req' = [rs EXCEPT ![r] = [@ EXCEPT !.pc = "setup", !.obj = o, !.ticket = "none"]]
    /\ sessions' = [sessions EXCEPT ![o].status = "running"]

Arrive(r) ==
    /\ req[r].pc = "new"
    /\ Goto(r, "gating")
    /\ KeepQueue /\ KeepHandles /\ KeepFlags /\ UNCHANGED <<sessions, cur, lock>>

(* assertRunnable.                                                          *)
Runnable == armed /\ ~killed /\ ~broke

(* Past assertRunnable: refuse, reserve, or get-or-create the queue.        *)
Admit(r) ==
    /\ req[r].pc = "gating"
    /\ \/ /\ ~Runnable \/ ~Admissible(session)
          /\ req' = Refused(req, r)
          /\ KeepQueue /\ UNCHANGED sessions
       \/ /\ Runnable /\ Admissible(session)
          /\ session.status # "running"
          /\ Reserve(r, req, cur) /\ KeepQueue
       \/ /\ Runnable /\ Admissible(session)
          /\ session.status = "running"
          /\ req' = [req EXCEPT ![r] = [@ EXCEPT !.pc = "depth", !.obj = cur,
                                                 !.ticket = "live"]]
          /\ installed' = TRUE /\ UNCHANGED <<queue, sessions>>
    /\ KeepHandles /\ KeepFlags /\ UNCHANGED <<cur, lock>>

(* Mutant: every caller brings, and installs, an array of its own.          *)
PushOwnArray(r) ==
    /\ req' = [req EXCEPT ![r] = [@ EXCEPT !.pc = "queued", !.ticket = "none"]]
    /\ queue' = <<r>>
    /\ UNCHANGED sessions

Push(r) ==
    /\ IF Len(queue) >= MaxDepth
       THEN req' = Refused(req, r) /\ UNCHANGED queue
       ELSE /\ req' = [req EXCEPT ![r] = [@ EXCEPT !.pc = "queued", !.ticket = "none"]]
            /\ queue' = Append(queue, r)
    /\ UNCHANGED sessions

(* Past getActionQueueDepth: everything is checked again.                   *)
Enqueue(r) ==
    LET ticket == req[r].ticket
        entries == IF ticket = "live" THEN queue ELSE <<>>
    IN  /\ req[r].pc = "depth"
        /\ \/ /\ ~Admissible(Mine(r)) \/ ticket = "flushed"
              /\ req' = Refused(req, r)
              /\ KeepQueue /\ UNCHANGED sessions
           \/ /\ Admissible(Mine(r)) /\ ticket # "flushed"
              /\ Mine(r).status = "running"
              /\ Push(r) /\ installed' = TRUE
           \/ /\ Admissible(Mine(r)) /\ ticket # "flushed"
              /\ Mine(r).status # "running" /\ entries # <<>>
              /\ Push(r) /\ UNCHANGED installed
           \/ /\ Admissible(Mine(r)) /\ ticket # "flushed"
              /\ Mine(r).status # "running" /\ entries = <<>>
              /\ Reserve(r, IF ticket = "live" THEN Uninstalled(req, "dropped") ELSE req,
                         req[r].obj)
              /\ installed' = (installed /\ ticket # "live") /\ UNCHANGED queue
        /\ KeepHandles /\ KeepFlags /\ UNCHANGED <<cur, lock>>

-----------------------------------------------------------------------------
(* Leaving a turn.                                                          *)

(* drainQueue, started by a turn that is answered: the entries before the   *)
(* next one have expired.                                                   *)
Drain(rs) ==
    IF queue = <<>> THEN req' = rs /\ KeepQueue
    ELSE \E expired \in 0..(IF "expiry" \in Env THEN Len(queue) ELSE 0) :
           LET late == ToSet(SubSeq(queue, 1, expired))
               left == SubSeq(queue, expired + 2, Len(queue))
               next == IF expired < Len(queue) THEN {queue[expired + 1]} ELSE {}
               moved == [r \in Request |->
                           CASE r \in late -> Answered
                             [] r \in next -> [rs[r] EXCEPT !.pc = "gating"]
                             [] OTHER -> rs[r]]
           IN  /\ queue' = left
               /\ installed' = (left # <<>>)
               /\ req' = IF left = <<>> THEN Uninstalled(moved, "dropped") ELSE moved

(* The outer finally: release what is left of the slot, save, drain unless  *)
(* a newer turn runs.                                                       *)
Leave(r, s, releases) ==
    LET t == IF releases THEN SlotReleased(s) ELSE s
        gone == Refused(req, r)
    IN  /\ SaveMine(r, t)
        /\ IF t.status # "running" /\ ~Detached(r)
           THEN Drain(gone)
           ELSE req' = gone /\ KeepQueue

(* Mutant: a throw before the step loop leaves the slot taken.              *)
FailSetupLeaking(r) ==
    /\ req[r].pc = "setup" /\ "setup_fails" \in Env
    /\ Leave(r, Mine(r), FALSE)
    /\ KeepHandles /\ KeepFlags /\ UNCHANGED <<cur, lock>>

(* Mutant: it frees the slot, and never looks at the queue.                 *)
FailSetupUndrained(r) ==
    /\ req[r].pc = "setup" /\ "setup_fails" \in Env
    /\ SaveMine(r, SlotReleased(Mine(r))) /\ req' = Refused(req, r)
    /\ KeepQueue /\ KeepHandles /\ KeepFlags /\ UNCHANGED <<cur, lock>>

(* Provider resolution, or context assembly, throws.                        *)
FailSetup(r) ==
    /\ req[r].pc = "setup" /\ "setup_fails" \in Env
    /\ Leave(r, Mine(r), TRUE)
    /\ KeepHandles /\ KeepFlags /\ UNCHANGED <<cur, lock>>

(* Mutant: whoever ends erases the handle, its own or a newer turn's.       *)
FinishErasing(r) ==
    /\ req[r].pc = "finishing"
    /\ gen' = NoOne
    /\ SaveMine(r, SlotReleased(Mine(r)))
    /\ req' = [req EXCEPT ![r] = [@ EXCEPT !.pc = "settling",
                                           !.released = Mine(r).status = "running"]]
    /\ stopped' = stopped \ {r} /\ caught' = caught \ {r}
    /\ KeepQueue /\ KeepFlags /\ UNCHANGED <<cur, lock>>

(* The inner finally: endGeneration, then give the slot back.               *)
Finish(r) ==
    /\ req[r].pc = "finishing"
    /\ gen' = IF gen = r THEN NoOne ELSE gen
    /\ SaveMine(r, SlotReleased(Mine(r)))
    /\ req' = [req EXCEPT ![r] = [@ EXCEPT !.pc = "settling",
                                           !.released = Mine(r).status = "running"]]
    /\ stopped' = stopped \ {r} /\ caught' = caught \ {r}
    /\ KeepQueue /\ KeepFlags /\ UNCHANGED <<cur, lock>>

(* Mutant: the outer finally forgets that the slot was given back already.  *)
SettleTwice(r) ==
    /\ req[r].pc = "settling"
    /\ Leave(r, Mine(r), TRUE)
    /\ KeepHandles /\ KeepFlags /\ UNCHANGED <<cur, lock>>

Settle(r) ==
    /\ req[r].pc = "settling"
    /\ Leave(r, Mine(r), ~req[r].released)
    /\ KeepHandles /\ KeepFlags /\ UNCHANGED <<cur, lock>>

-----------------------------------------------------------------------------
(* The step loop.                                                           *)

Looping == KeepQueue /\ KeepFlags /\ UNCHANGED <<sessions, cur>>

BeginGeneration(r) ==
    /\ req[r].pc = "setup"
    /\ Goto(r, "step")
    /\ gen' = r /\ stopped' = stopped \ {r}
    /\ Looping /\ UNCHANGED <<lock, caught>>

BeginStep(r) ==
    /\ req[r].pc = "step"
    /\ IF Authorized(r) /\ ~broke /\ req[r].step < MaxSteps
       THEN req' = [req EXCEPT ![r].pc = "locking", ![r].step = @ + 1,
                               ![r].attempt = 1]
       ELSE Goto(r, "finishing")
    /\ Looping /\ KeepHandles /\ UNCHANGED lock

(* Under the lock the budget and the authority are read again.              *)
OpenStream(r) ==
    /\ req[r].pc = "locking" /\ lock = NoOne
    /\ IF Authorized(r) /\ ~broke
       THEN Goto(r, "streaming") /\ lock' = r
       ELSE Goto(r, "finishing") /\ UNCHANGED lock
    /\ Looping /\ KeepHandles

(* The provider answers or fails; the attempt is metered; the lock goes.    *)
CloseStream(r) ==
    /\ req[r].pc = "streaming"
    /\ lock' = NoOne
    /\ \/ Goto(r, "finishing")
       \/ Authorized(r) /\ Goto(r, "tools")
       \/ Authorized(r) /\ req[r].attempt < MaxAttempts /\ Goto(r, "backoff")
    /\ broke' \in IF "budget" \in Env THEN {broke, TRUE} ELSE {broke}
    /\ KeepQueue /\ KeepHandles /\ UNCHANGED <<sessions, cur, armed, killed, held>>

Retry(r) ==
    /\ req[r].pc = "backoff"
    /\ IF Authorized(r)
       THEN req' = [req EXCEPT ![r].pc = "locking", ![r].attempt = @ + 1]
       ELSE Goto(r, "finishing")
    /\ Looping /\ KeepHandles /\ UNCHANGED lock

(* The step's last tool call, clean or not; its authority is checked as it  *)
(* is dispatched.  The calls before it leave no trace here.                 *)
RunTool(r) ==
    /\ req[r].pc = "tools" /\ Authorized(r)
    /\ Goto(r, "step") \/ Goto(r, "finishing")
    /\ Looping /\ KeepHandles /\ UNCHANGED lock

StopTools(r) ==
    /\ req[r].pc = "tools" /\ ~Authorized(r)
    /\ Goto(r, "finishing")
    /\ Looping /\ KeepHandles /\ UNCHANGED lock

-----------------------------------------------------------------------------
(* Levers.                                                                  *)

(* A turn of the current session holds the seat.                            *)
InFlight ==
    \E r \in Request : req[r].pc \in Turning \cup {"settling"} /\ ~Detached(r)

SaveCurrent(s) == sessions' = [sessions EXCEPT ![cur] = s]

(* A lever that freezes the seat and aborts the generation.                 *)
Freeze(s) ==
    /\ SaveCurrent(s) /\ CancelGeneration /\ caught' = caught \cup InGeneration
    /\ KeepQueue /\ KeepFlags /\ UNCHANGED <<req, cur, lock>>

Pause == "pause" \in Env /\ Freeze(Paused(session))

GrantTakeover(member) == Freeze(TakeoverGranted(session, member))

(* A lever that gives the seat back: "early" ones may catch a turn that is  *)
(* still unwinding.                                                         *)
Thaw(s) ==
    /\ InFlight => "early_resume" \in Env
    /\ SaveCurrent(s)
    /\ KeepQueue /\ KeepHandles /\ KeepFlags /\ UNCHANGED <<req, cur, lock>>

Resume == ~held /\ Thaw(Resumed(session))

Handback ==
    /\ session.state = "human_control" /\ session.actingDm # NoOne
    /\ Thaw(HandedBack(session))

(* The rate limit trips inside a tool loop; nothing is aborted.             *)
EmergencyPause(r) ==
    /\ "emergency" \in Env
    /\ req[r].pc = "tools" /\ Authorized(r)
    /\ Mine(r).status # "paused" /\ Mine(r).state # "paused"
    /\ SaveMine(r, Paused(Mine(r)))
    /\ KeepQueue /\ KeepHandles /\ KeepFlags /\ UNCHANGED <<req, cur, lock>>

RaiseHold ==
    /\ "hold" \in Env /\ held' = TRUE
    /\ SaveCurrent(SafetyHeld(session)) /\ CancelGeneration
    /\ req' = Flushed(req) /\ queue' = <<>> /\ installed' = FALSE
    /\ caught' = {r \in caught \cup InGeneration \cup Waiting : req'[r].pc # "answered"}
    /\ UNCHANGED <<cur, lock, armed, killed, broke>>

ReleaseHold ==
    /\ held /\ held' = FALSE
    /\ KeepQueue /\ KeepHandles
    /\ UNCHANGED <<req, sessions, cur, lock, armed, killed, broke>>

(* The seat leaves Driver mode, and may come back to it.                    *)
Teardown ==
    /\ "teardown" \in Env /\ armed /\ cur < MaxTeardowns
    /\ (\E r \in Request : req[r].pc \in {"depth", "setup"}) => "early_teardown" \in Env
    /\ armed' = FALSE
    /\ cur' = cur + 1
    /\ SaveCurrent(SlotReleased(session)) /\ CancelGeneration
    /\ req' = Flushed(req) /\ queue' = <<>> /\ installed' = FALSE
    /\ caught' = {r \in caught \cup InGeneration \cup Waiting : req'[r].pc # "answered"}
    /\ UNCHANGED <<lock, killed, broke, held>>

Rearm ==
    /\ ~armed /\ armed' = TRUE
    /\ KeepQueue /\ KeepHandles
    /\ UNCHANGED <<req, sessions, cur, lock, killed, broke, held>>

(* The operator's kill switch.                                              *)
SetKillSwitch(off) ==
    /\ "kill" \in Env /\ killed # off /\ killed' = off
    /\ IF off THEN CancelGeneration /\ caught' = caught \cup InGeneration
              ELSE KeepHandles
    /\ KeepQueue /\ UNCHANGED <<req, sessions, cur, lock, armed, broke, held>>

(* The DM raises the budget or resets the usage.                            *)
Refill ==
    /\ broke /\ broke' = FALSE
    /\ KeepQueue /\ KeepHandles
    /\ UNCHANGED <<req, sessions, cur, lock, armed, killed, held>>

-----------------------------------------------------------------------------
(* A request's own continuation, once what it awaits has settled.           *)
Continue(r) ==
    \/ Admit(r) \/ Enqueue(r) \/ FailSetup(r) \/ BeginGeneration(r)
    \/ BeginStep(r) \/ OpenStream(r) \/ CloseStream(r) \/ Retry(r)
    \/ RunTool(r) \/ StopTools(r) \/ Finish(r) \/ Settle(r)

Next ==
    \/ \E r \in Request : Arrive(r) \/ Continue(r) \/ EmergencyPause(r)
    \/ Pause \/ Resume \/ Handback \/ \E m \in Member : GrantTakeover(m)
    \/ RaiseHold \/ ReleaseHold \/ Teardown \/ Rearm \/ Refill
    \/ \E off \in BOOLEAN : SetKillSwitch(off)

Spec == Init /\ [][Next]_vars

(* Every await settles (provider calls and sleeps have timeouts, the spend  *)
(* lock is first come, first served); people promise nothing.               *)
FairSpec == Spec /\ \A r \in Request : SF_vars(Continue(r))

-----------------------------------------------------------------------------
(* Properties.                                                              *)

(* Two turns never run on one session: from the gate that lets it in to the *)
(* end of its step loop, a turn has the seat to itself.                     *)
OneTurnAtATime ==
    \A r, q \in Request :
      /\ req[r].pc \in Turning /\ ~Detached(r)
      /\ req[q].pc \in Turning /\ ~Detached(q)
      => r = q

(* A slot that reads "running" belongs to a turn that will release it.      *)
SlotIsOwned ==
    session.status = "running" =>
      \E r \in Request : ~Detached(r) /\ req[r].pc \in Turning

(* A caller suspended on its queue entry is in the one installed queue,     *)
(* once, and nobody else is.                                                *)
NoCallerOrphaned ==
    /\ ToSet(queue) = {r \in Request : req[r].pc = "queued"}
    /\ IsInjective(queue)

(* A provider stream of a frozen seat, a killed server or a replaced        *)
(* session has been aborted.                                                *)
StreamsAreStopped ==
    \A r \in Request :
      req[r].pc = "streaming" /\ (IsFrozen(Mine(r)) \/ killed \/ Detached(r))
        => r \in stopped

(* A stop is final for whatever it catches: a turn with a generation handle *)
(* (pause, takeover, hold, teardown, kill switch) and a caller in or joining*)
(* the queue (hold, teardown) only ever wind down, even if the seat is      *)
(* resumed or the switch flipped back at once.                              *)
StopIsFinal ==
    [][\A r \in caught :
         req'[r].pc # req[r].pc =>
           req'[r].pc \in {"finishing", "settling", "answered"}]_vars

(* Every caller is answered.                                                *)
CallersAreAnswered ==
    \A r \in Request : req[r].pc = "gating" ~> req[r].pc = "answered"
==============================================================================
