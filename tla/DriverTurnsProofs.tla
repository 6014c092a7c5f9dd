-------------------------- MODULE DriverTurnsProofs --------------------------
(***************************************************************************)
(* What is proved about DriverTurns for any requests, queue depth, steps,  *)
(* attempts and session objects: that a seat runs one turn at a time, that *)
(* nobody waits in vain for its slot or its queue, and that stops stop.    *)
(***************************************************************************)
EXTENDS DriverTurns, SequenceTheorems, TLAPS

(* Nobody is ahead of the session in the map.                               *)
NobodyAhead == \A r \in Request : req[r].obj <= cur

(* A session object beyond it was never made.                               *)
SparesAreFresh == \A o \in 0..MaxTeardowns : o > cur => sessions[o] = FreshSession

(* While a turn has the seat its status is not idle; a turn that could not  *)
(* give the slot back, since the seat was paused, unwinds on a paused seat. *)
SeatIsTaken ==
    \A r \in Request :
      ~Detached(r) =>
        /\ req[r].pc \in Turning => session.status \in {"running", "paused"}
        /\ req[r].pc = "settling" /\ ~req[r].released => session.status = "paused"

(* A caller about to get the slot, or who just got it, holds the session in *)
(* the map.                                                                 *)
Attached == \A r \in Request : req[r].pc \in {"depth", "setup"} => req[r].obj = cur

(* A stop reaches the turn at work: its handle is the one in the map.       *)
HandleIsMine == \A r \in Request : req[r].pc \in Generating /\ ~Detached(r) => gen = r

(* What a stop control has caught has no authority left, or an array that   *)
(* was flushed, or its answer.                                              *)
CaughtIsBarred ==
    \A r \in caught :
      \/ req[r].pc \in Generating /\ (r \in stopped \/ Detached(r))
      \/ req[r].pc = "depth" /\ req[r].ticket = "flushed"
      \/ req[r].pc = "answered"

(* The two layers above QueueInv: who has the slot, and what stops reach.   *)
SlotInv ==
    NobodyAhead /\ SparesAreFresh /\ SeatIsTaken /\ OneTurnAtATime /\ SlotIsOwned

StopInv == Attached /\ HandleIsMine /\ StreamsAreStopped /\ CaughtIsBarred

(* A turn that sleeps before a retry has an attempt left.                   *)
RetriesLeft ==
    \A r \in Request : req[r].pc = "backoff" => req[r].attempt < MaxAttempts

QueueInv == TypeOK /\ RetriesLeft /\ NoCallerOrphaned

-----------------------------------------------------------------------------
(* Session records.                                                         *)

(* A fresh session is well formed, idle and not frozen.                     *)
LEMMA FreshTyped ==
    FreshSession \in AiDmSessionState /\ FreshSession.status = "idle"
  BY DEF FreshSession, AiDmSessionState, AiDmSessionStatus, AiDmLadderState,
         AiDmSessionPhase, StuckReason, Lifecycle

(* Releasing the slot turns "running" into "idle" and nothing else.         *)
LEMMA SlotReleasedEffect ==
    ASSUME NEW s \in AiDmSessionState
    PROVE  /\ SlotReleased(s) \in AiDmSessionState
           /\ SlotReleased(s).state = s.state
           /\ SlotReleased(s).status = IF s.status = "running" THEN "idle" ELSE s.status
  BY DEF SlotReleased, AiDmSessionState, AiDmSessionStatus

(* The levers that freeze leave a seat that is paused and frozen.           *)
LEMMA FreezersFreeze ==
    ASSUME NEW s \in AiDmSessionState,
           NEW t \in {Paused(s), SafetyHeld(s)}
                       \cup {TakeoverGranted(s, m) : m \in Member}
    PROVE  t \in AiDmSessionState /\ t.status = "paused" /\ IsFrozen(t)
<1>1. CASE t = Paused(s)
  BY <1>1 DEF Paused, IsFrozen, MidTurnFrozenState, AiDmSessionState, AiDmSessionStatus,
              AiDmLadderState
<1>2. CASE t = SafetyHeld(s)
  <2>1. CASE s.state = "human_control"
    BY <1>2, <2>1 DEF SafetyHeld, IsFrozen, MidTurnFrozenState, AiDmSessionState,
                      AiDmSessionStatus, AiDmLadderState
  <2>2. CASE s.state # "human_control"
    BY <1>2, <2>2 DEF SafetyHeld, IsFrozen, MidTurnFrozenState, AiDmSessionState,
                      AiDmSessionStatus, AiDmLadderState
  <2>3. QED BY <2>1, <2>2
<1>3. CASE \E m \in Member : t = TakeoverGranted(s, m)
  BY <1>3 DEF TakeoverGranted, IsFrozen, MidTurnFrozenState, AiDmSessionState,
              AiDmSessionStatus, AiDmLadderState, StuckReason
<1>4. QED BY <1>1, <1>2, <1>3

(* The levers that give the seat back leave it idle.                        *)
LEMMA ThawersThaw ==
    ASSUME NEW s \in AiDmSessionState, NEW t \in {Resumed(s), HandedBack(s)}
    PROVE  t \in AiDmSessionState /\ t.status = "idle"
<1>1. CASE t = Resumed(s)
  <2>1. DeriveLadderState("running", s.collaborative) \in AiDmLadderState
    BY DEF DeriveLadderState, AiDmLadderState
  <2>2. s.state \in AiDmLadderState /\ "awaiting_players" \in AiDmLadderState
        /\ "idle" \in AiDmSessionStatus
    BY DEF AiDmSessionState, AiDmLadderState, AiDmSessionStatus
  <2>3. QED BY <1>1, <2>1, <2>2 DEF Resumed, AiDmSessionState
<1>2. CASE t = HandedBack(s)
  <2>1. DeriveLadderState("running", s.collaborative) \in AiDmLadderState
    BY DEF DeriveLadderState, AiDmLadderState
  <2>2. "none" \in StuckReason /\ "idle" \in AiDmSessionStatus
        /\ NoOne \in Member \cup {NoOne}
    BY DEF StuckReason, AiDmSessionStatus
  <2>3. QED BY <1>2, <2>1, <2>2 DEF HandedBack, AiDmSessionState
<1>3. QED BY <1>1, <1>2

-----------------------------------------------------------------------------
(* Requests and the queue.                                                  *)

RequestRecord ==
    [pc : {"new", "gating", "depth", "queued", "settling", "answered"} \cup Turning,
     obj : 0..MaxTeardowns, ticket : {"none", "live", "dropped", "flushed"},
     step : 0..MaxSteps, attempt : 0..MaxAttempts, released : BOOLEAN]

(* Typed and queued are about one table of requests and one array; written  *)
(* as operators, they are used of the old state, the new one, and the       *)
(* tables in between.                                                       *)
Typed(rs) ==
    /\ rs \in [Request -> RequestRecord]
    /\ \A r \in Request : rs[r].pc = "backoff" => rs[r].attempt < MaxAttempts

Holds(array, rs) ==
    /\ array \in Seq(Request) /\ Len(array) <= MaxDepth /\ IsInjective(array)
    /\ ToSet(array) = {r \in Request : rs[r].pc = "queued"}

(* What can become of a caller that did not act: nothing; its entry was     *)
(* taken or rejected; the array it holds has left the map.                  *)
Moved(x, y) ==
    \/ y = x
    \/ x.pc = "queued" /\ y.pc \in {"gating", "answered"} /\ y.obj \in {0, x.obj}
    \/ /\ x.pc = "depth" /\ x.ticket = "live"
       /\ y.pc = "depth" /\ y.obj = x.obj /\ y.ticket \in {"dropped", "flushed"}

Aside(r) == \A q \in Request \ {r} : Moved(req[q], req'[q])

(* What is left of the type invariant.                                      *)
RestTyped ==
    /\ sessions \in [0..MaxTeardowns -> AiDmSessionState]
    /\ cur \in 0..MaxTeardowns
    /\ installed \in BOOLEAN /\ (~installed => queue = <<>>)
    /\ gen \in Request \cup {NoOne} /\ stopped \subseteq Request
    /\ lock \in Request \cup {NoOne}
    /\ armed \in BOOLEAN /\ killed \in BOOLEAN /\ broke \in BOOLEAN /\ held \in BOOLEAN
    /\ caught \subseteq Request

(* The invariant of the queue says just that of the state's own table.      *)
LEMMA TypedTable == QueueInv <=> Typed(req) /\ Holds(queue, req) /\ RestTyped
  BY DEF QueueInv, TypeOK, RetriesLeft, NoCallerOrphaned, Typed, Holds, RequestRecord,
         RestTyped
(* The same, of the next state.                                             *)
LEMMA TypedTablePrimed == QueueInv' <=> Typed(req') /\ Holds(queue', req') /\ RestTyped'
  BY DEF QueueInv, TypeOK, RetriesLeft, NoCallerOrphaned, Typed, Holds, RequestRecord,
         RestTyped

(* Answered is a record of a request, with nothing of the turn left in it.  *)
LEMMA AnsweredTyped ==
    Answered \in RequestRecord /\ Answered.pc = "answered" /\ Answered.obj = 0
<1>1. 0 \in 0..MaxTeardowns /\ 0 \in 0..MaxSteps /\ 0 \in 0..MaxAttempts
  BY BoundsAreNat
<1>2. NewRequest \in RequestRecord /\ NewRequest.obj = 0
  BY <1>1 DEF NewRequest, RequestRecord
<1>3. \A x \in RequestRecord :
        LET y == [x EXCEPT !.pc = "answered"]
        IN  y \in RequestRecord /\ y.pc = "answered" /\ y.obj = x.obj
  BY DEF RequestRecord
<1>4. QED BY <1>2, <1>3 DEF Answered

(* Taking an array out of the map: only the tickets on it change.           *)
LEMMA UninstalledEffect ==
    ASSUME NEW rs, Typed(rs), NEW fate \in {"dropped", "flushed"}
    PROVE  /\ Typed(Uninstalled(rs, fate))
           /\ \A r \in Request :
                /\ Uninstalled(rs, fate)[r].pc = rs[r].pc
                /\ Moved(rs[r], Uninstalled(rs, fate)[r])
                /\ rs[r].pc = "depth" /\ rs[r].ticket = "live"
                     => Uninstalled(rs, fate)[r].ticket = fate
                /\ ~(rs[r].pc = "depth" /\ rs[r].ticket = "live")
                     => Uninstalled(rs, fate)[r] = rs[r]
<1> DEFINE t == Uninstalled(rs, fate)
<1>1. ASSUME NEW r \in Request
      PROVE  /\ t[r] \in RequestRecord /\ t[r].pc = rs[r].pc
             /\ t[r].attempt = rs[r].attempt
             /\ Moved(rs[r], t[r])
             /\ rs[r].pc = "depth" /\ rs[r].ticket = "live" => t[r].ticket = fate
             /\ ~(rs[r].pc = "depth" /\ rs[r].ticket = "live") => t[r] = rs[r]
  <2>1. CASE rs[r].pc = "depth" /\ rs[r].ticket = "live"
    <3>1. t[r] = [rs[r] EXCEPT !.ticket = fate]
      BY <2>1 DEF Uninstalled
    <3>2. rs[r] \in RequestRecord
      BY DEF Typed
    <3>3. QED BY <2>1, <3>1, <3>2 DEF RequestRecord, Moved
  <2>2. CASE ~(rs[r].pc = "depth" /\ rs[r].ticket = "live")
    BY <2>2 DEF Uninstalled, Typed, Moved
  <2>3. QED BY <2>1, <2>2
<1>2. t \in [Request -> RequestRecord]
  BY <1>1 DEF Uninstalled
<1>3. Typed(t)
  BY <1>1, <1>2 DEF Typed
<1>4. QED BY <1>1, <1>3

(* Tables that queue the same callers go with the same arrays.              *)
LEMMA SameCallersSameQueue ==
    ASSUME NEW array, NEW rs, NEW ts, Holds(array, rs),
           \A r \in Request : ts[r].pc = "queued" <=> rs[r].pc = "queued"
    PROVE  Holds(array, ts)
  BY DEF Holds

(* One request that is queued neither before nor after leaves the queue be. *)
LEMMA OneChanged ==
    ASSUME NEW rs, Typed(rs), NEW array, Holds(array, rs), NEW r \in Request,
           rs[r].pc # "queued", NEW x \in RequestRecord, x.pc # "queued",
           x.pc = "backoff" => x.attempt < MaxAttempts
    PROVE  Typed([rs EXCEPT ![r] = x]) /\ Holds(array, [rs EXCEPT ![r] = x])
<1> DEFINE ts == [rs EXCEPT ![r] = x]
<1>1. ts \in [Request -> RequestRecord] /\ ts[r] = x
      /\ \A q \in Request \ {r} : ts[q] = rs[q]
  BY DEF Typed
<1> HIDE DEF ts
<1>2. Typed(ts)
  BY <1>1 DEF Typed
<1>3. Holds(array, ts)
  BY <1>1, SameCallersSameQueue
<1>4. QED BY <1>2, <1>3 DEF ts

(* A queued caller is somewhere in the array, and the array holds no other. *)
LEMMA ArrayMembers ==
    ASSUME NEW array, NEW rs, Holds(array, rs)
    PROVE  /\ Len(array) \in Nat /\ DOMAIN array = 1..Len(array)
           /\ \A i \in 1..Len(array) : array[i] \in Request /\ rs[array[i]].pc = "queued"
           /\ \A r \in Request : rs[r].pc = "queued" => \E i \in 1..Len(array) : array[i] = r
           /\ \A i, j \in 1..Len(array) : array[i] = array[j] => i = j
<1>1. array \in Seq(Request)
  BY DEF Holds
<1>2. Len(array) \in Nat /\ DOMAIN array = 1..Len(array)
  BY <1>1
<1>3. \A r : r \in ToSet(array) <=> \E i \in 1..Len(array) : array[i] = r
  BY <1>2 DEF ToSet
<1>4. QED BY <1>1, <1>2, <1>3 DEF Holds, IsInjective

(* The converse: what makes an array the queue of a table.                  *)
LEMMA MembersAreArray ==
    ASSUME NEW array \in Seq(Request), NEW rs, Len(array) <= MaxDepth,
           \A i \in 1..Len(array) : rs[array[i]].pc = "queued",
           \A r \in Request : rs[r].pc = "queued" => \E i \in 1..Len(array) : array[i] = r,
           \A i, j \in 1..Len(array) : array[i] = array[j] => i = j
    PROVE  Holds(array, rs)
<1>1. DOMAIN array = 1..Len(array) /\ \A i \in 1..Len(array) : array[i] \in Request
  BY ElementOfSeq
<1>2. IsInjective(array)
  BY <1>1 DEF IsInjective
<1>3. ToSet(array) = {r \in Request : rs[r].pc = "queued"}
  BY <1>1 DEF ToSet
<1>4. QED BY <1>2, <1>3 DEF Holds

(* Joining the queue puts a caller at its end.                              *)
LEMMA AppendHolds ==
    ASSUME NEW rs, Typed(rs), NEW array, Holds(array, rs), Len(array) < MaxDepth,
           NEW r \in Request, rs[r].pc # "queued", NEW x \in RequestRecord, x.pc = "queued"
    PROVE  /\ Typed([rs EXCEPT ![r] = x])
           /\ Holds(Append(array, r), [rs EXCEPT ![r] = x])
<1> DEFINE ts == [rs EXCEPT ![r] = x]
           longer == Append(array, r)
           n == Len(array)
<1>1. ts \in [Request -> RequestRecord] /\ ts[r] = x
      /\ \A q \in Request \ {r} : ts[q] = rs[q]
  BY DEF Typed
<1>2. /\ longer \in Seq(Request) /\ Len(longer) = n + 1 /\ longer[n + 1] = r
      /\ \A i \in 1..n : longer[i] = array[i]
  BY AppendProperties DEF Holds
<1>3. n \in Nat /\ \A i \in 1..(n + 1) : i = n + 1 \/ i \in 1..n
  BY ArrayMembers
<1> HIDE DEF ts, longer, n
<1>4. Typed(ts)
  BY <1>1 DEF Typed
<1>5. \A i \in 1..n : array[i] \in Request /\ array[i] # r /\ ts[array[i]].pc = "queued"
  BY <1>1, ArrayMembers DEF n
<1>6. \A i \in 1..Len(longer) : ts[longer[i]].pc = "queued"
  BY <1>1, <1>2, <1>3, <1>5
<1>7. \A q \in Request : ts[q].pc = "queued" => \E i \in 1..Len(longer) : longer[i] = q
  <2>1. SUFFICES ASSUME NEW q \in Request, ts[q].pc = "queued"
                 PROVE  \E i \in 1..Len(longer) : longer[i] = q
    OBVIOUS
  <2>2. CASE q = r
    BY <1>2, <1>3, <2>2
  <2>3. CASE q # r
    <3>1. PICK i \in 1..n : array[i] = q
      BY <1>1, <2>1, <2>3, ArrayMembers DEF n
    <3>2. QED BY <3>1, <1>2, <1>3
  <2>4. QED BY <2>2, <2>3
<1>8. \A i, j \in 1..Len(longer) : longer[i] = longer[j] => i = j
  BY <1>2, <1>3, <1>5, ArrayMembers DEF n
<1>9. Len(longer) <= MaxDepth
  BY <1>2, <1>3, BoundsAreNat DEF n
<1>10. Holds(longer, ts)
  BY <1>2, <1>6, <1>7, <1>8, <1>9, MembersAreArray
<1>11. QED BY <1>4, <1>10 DEF ts, longer

(* A flush answers every queued caller, marks every array in hand, touches  *)
(* nothing else, and leaves an empty queue.                                 *)
LEMMA FlushedEffect ==
    ASSUME QueueInv
    PROVE  /\ Typed(Flushed(req)) /\ Holds(<<>>, Flushed(req))
           /\ \A r \in Request :
                LET t == Flushed(req)[r]
                IN  /\ Moved(req[r], t)
                    /\ req[r].pc = "queued" => t.pc = "answered"
                    /\ req[r].pc = "depth" /\ req[r].ticket = "live"
                         => t.pc = "depth" /\ t.ticket = "flushed"
                    /\ req[r].pc # "queued" /\ ~(req[r].pc = "depth" /\ req[r].ticket = "live")
                         => t = req[r]
<1> DEFINE ts == Flushed(req)
           u == Uninstalled(req, "flushed")
<1>1. Typed(req) /\ ToSet(queue) = {r \in Request : req[r].pc = "queued"}
  BY TypedTable DEF Holds
<1>2. /\ Typed(u)
      /\ \A r \in Request :
           /\ u[r].pc = req[r].pc /\ Moved(req[r], u[r])
           /\ req[r].pc = "depth" /\ req[r].ticket = "live" => u[r].ticket = "flushed"
           /\ ~(req[r].pc = "depth" /\ req[r].ticket = "live") => u[r] = req[r]
  BY <1>1, UninstalledEffect
<1>3. \A r \in Request : ts[r] = IF req[r].pc = "queued" THEN Answered ELSE u[r]
  BY <1>1 DEF Flushed
<1>4. ts = [r \in Request |-> ts[r]]
  BY DEF Flushed
<1> HIDE DEF ts, u
<1>5. ASSUME NEW r \in Request
      PROVE  /\ ts[r] \in RequestRecord /\ ts[r].pc # "queued"
             /\ ts[r].pc = "backoff" => ts[r].attempt < MaxAttempts
             /\ Moved(req[r], ts[r])
             /\ req[r].pc = "queued" => ts[r].pc = "answered"
             /\ req[r].pc = "depth" /\ req[r].ticket = "live"
                  => ts[r].pc = "depth" /\ ts[r].ticket = "flushed"
             /\ req[r].pc # "queued" /\ ~(req[r].pc = "depth" /\ req[r].ticket = "live")
                  => ts[r] = req[r]
  <2>1. CASE req[r].pc = "queued"
    <3>1. ts[r] = Answered
      BY <1>3, <2>1
    <3>2. QED BY <3>1, <2>1, AnsweredTyped DEF Moved
  <2>2. CASE req[r].pc # "queued"
    <3>1. ts[r] = u[r]
      BY <1>3, <2>2
    <3>2. QED BY <3>1, <2>2, <1>2 DEF Typed
  <2>3. QED BY <2>1, <2>2
<1>6. Typed(ts)
  BY <1>4, <1>5 DEF Typed
<1>7. Holds(<<>>, ts)
  <2>1. <<>> \in Seq(Request) /\ Len(<<>>) = 0
    BY EmptySeq
  <2>2. Len(<<>>) <= MaxDepth
    BY <2>1, BoundsAreNat
  <2>3. 1..Len(<<>>) = {}
    BY <2>1
  <2>4. QED BY <2>1, <2>2, <2>3, <1>5, MembersAreArray, Zenon
<1>8. QED BY <1>5, <1>6, <1>7 DEF ts

(* Draining: the entries up to one that is still wanted have expired, that  *)
(* one goes back through the gates, the rest stays queued, and an array     *)
(* that ran empty leaves the map.                                           *)
LEMMA DrainEffect ==
    ASSUME NEW rs, Typed(rs), Holds(queue, rs), installed \in BOOLEAN,
           ~installed => queue = <<>>, Drain(rs)
    PROVE  /\ Typed(req') /\ Holds(queue', req')
           /\ installed' \in BOOLEAN /\ (~installed' => queue' = <<>>)
           /\ \A r \in Request : Moved(rs[r], req'[r])
<1>1. CASE queue = <<>>
  BY <1>1 DEF Drain, KeepQueue, Moved
<1>2. CASE queue # <<>>
  <2> DEFINE Late(e) == ToSet(SubSeq(queue, 1, e))
             Left(e) == SubSeq(queue, e + 2, Len(queue))
             NextUp(e) == IF e < Len(queue) THEN {queue[e + 1]} ELSE {}
             Went(e) == [r \in Request |->
                           CASE r \in Late(e) -> Answered
                             [] r \in NextUp(e) -> [rs[r] EXCEPT !.pc = "gating"]
                             [] OTHER -> rs[r]]
             n == Len(queue)
  <2>1. PICK e \in 0..(IF "expiry" \in Env THEN Len(queue) ELSE 0) :
          /\ queue' = Left(e) /\ installed' = (Left(e) # <<>>)
          /\ req' = IF Left(e) = <<>> THEN Uninstalled(Went(e), "dropped") ELSE Went(e)
    BY <1>2 DEF Drain
  <2>2. /\ n \in Nat /\ \A i \in 1..n : queue[i] \in Request /\ rs[queue[i]].pc = "queued"
        /\ \A r \in Request : rs[r].pc = "queued" => \E i \in 1..n : queue[i] = r
        /\ \A i, j \in 1..n : queue[i] = queue[j] => i = j
    BY ArrayMembers
  <2>3. e \in 0..n
    BY <2>1, <2>2
  <2>4. n <= MaxDepth
    BY DEF Holds
  <2> DEFINE late == Late(e)
             left == Left(e)
             next == NextUp(e)
             moved == Went(e)
  <2>5. \A r : r \in late <=> \E i \in 1..e : queue[i] = r
    <3>1. /\ SubSeq(queue, 1, e) \in Seq(Request)
          /\ Len(SubSeq(queue, 1, e)) = IF 1 <= e THEN e - 1 + 1 ELSE 0
          /\ \A i \in 1..(e - 1 + 1) : SubSeq(queue, 1, e)[i] = queue[1 + i - 1]
      <4>1. \A i \in 1..e : queue[i] \in Request
        BY <2>2, <2>3
      <4>2. QED BY <4>1, <2>3, SubSeqProperties
    <3>2. Len(SubSeq(queue, 1, e)) = e /\ DOMAIN SubSeq(queue, 1, e) = 1..e
          /\ \A i \in 1..e : SubSeq(queue, 1, e)[i] = queue[i]
      BY <3>1, <2>3
    <3>3. QED BY <3>2 DEF ToSet
  <2>6. /\ left \in Seq(Request) /\ Len(left) = (IF e + 2 <= n THEN n - (e + 2) + 1 ELSE 0)
        /\ \A i \in 1..(n - (e + 2) + 1) : left[i] = queue[e + 2 + i - 1]
    <3>1. \A i \in (e + 2)..n : queue[i] \in Request
      BY <2>2, <2>3
    <3>2. QED BY <3>1, <2>2, <2>3, SubSeqProperties
  <2>7. /\ Len(left) \in Nat /\ Len(left) <= MaxDepth
        /\ \A i \in 1..Len(left) : i + e + 1 \in (e + 2)..n /\ left[i] = queue[i + e + 1]
        /\ \A k \in (e + 2)..n : k - e - 1 \in 1..Len(left) /\ left[k - e - 1] = queue[k]
    BY <2>2, <2>3, <2>4, <2>6, BoundsAreNat
  <2>8. \A r : r \in next <=> e + 1 <= n /\ r = queue[e + 1]
    BY <2>2, <2>3
  <2>9. /\ moved = [r \in Request |-> moved[r]]
        /\ \A r \in Request :
             moved[r] = IF r \in late THEN Answered
                        ELSE IF r \in next THEN [rs[r] EXCEPT !.pc = "gating"] ELSE rs[r]
    <3>1. \A r : r \in next => r \notin late
      BY <2>2, <2>3, <2>5, <2>8
    <3> HIDE DEF late, next, Late, NextUp
    <3>2. moved = [r \in Request |-> moved[r]]
      OBVIOUS
    <3>3. ASSUME NEW r \in Request
          PROVE  moved[r] = IF r \in late THEN Answered
                            ELSE IF r \in next THEN [rs[r] EXCEPT !.pc = "gating"] ELSE rs[r]
      <4>1. moved[r] = CASE r \in late -> Answered
                         [] r \in next -> [rs[r] EXCEPT !.pc = "gating"]
                         [] OTHER -> rs[r]
        BY DEF late, next
      <4>2. QED BY <4>1, <3>1
    <3>4. QED BY <3>2, <3>3
  <2>10. queue' = left /\ installed' = (left # <<>>)
         /\ req' = IF left = <<>> THEN Uninstalled(moved, "dropped") ELSE moved
    BY <2>1
  <2> HIDE DEF late, left, next, moved, n, Late, Left, NextUp, Went
  <2>11. ASSUME NEW r \in Request
         PROVE  /\ moved[r] \in RequestRecord /\ Moved(rs[r], moved[r])
                /\ moved[r].pc = "backoff" => moved[r].attempt < MaxAttempts
                /\ moved[r].pc = "queued" <=> \E k \in (e + 2)..n : queue[k] = r
    <3>1. rs[r] \in RequestRecord /\ (rs[r].pc = "backoff" => rs[r].attempt < MaxAttempts)
      BY DEF Typed
    <3>2. CASE r \in late
      <4>1. PICK i \in 1..e : queue[i] = r
        BY <2>5, <3>2
      <4>2. i \in 1..n /\ \A k \in (e + 2)..n : k \in 1..n /\ k # i
        BY <4>1, <2>2, <2>3
      <4>3. rs[r].pc = "queued" /\ \A k \in (e + 2)..n : queue[k] # r
        BY <4>1, <4>2, <2>2
      <4>4. moved[r] = Answered
        BY <2>9, <3>2
      <4>5. QED BY <4>3, <4>4, AnsweredTyped DEF Moved
    <3>3. CASE r \notin late /\ r \in next
      <4>1. e + 1 <= n /\ r = queue[e + 1]
        BY <2>8, <3>3
      <4>2. e + 1 \in 1..n /\ \A k \in (e + 2)..n : k \in 1..n /\ k # e + 1
        BY <4>1, <2>2, <2>3
      <4>3. rs[r].pc = "queued" /\ \A k \in (e + 2)..n : queue[k] # r
        BY <4>1, <4>2, <2>2
      <4>4. moved[r] = [rs[r] EXCEPT !.pc = "gating"]
        BY <2>9, <3>3
      <4>5. /\ moved[r] \in RequestRecord /\ moved[r].pc = "gating"
            /\ moved[r].obj = rs[r].obj
        BY <3>1, <4>4 DEF RequestRecord
      <4>6. QED BY <4>3, <4>5 DEF Moved
    <3>4. CASE r \notin late /\ r \notin next
      <4>1. moved[r] = rs[r]
        BY <2>9, <3>4
      <4>2. ASSUME rs[r].pc = "queued" PROVE \E k \in (e + 2)..n : queue[k] = r
        <5>1. PICK i \in 1..n : queue[i] = r
          BY <2>2, <4>2
        <5>2. i \notin 1..e /\ i # e + 1
          BY <5>1, <2>2, <2>3, <2>5, <2>8, <3>4
        <5>3. i \in (e + 2)..n
          BY <5>1, <5>2, <2>2, <2>3
        <5>4. QED BY <5>1, <5>3
      <4>3. (\E k \in (e + 2)..n : queue[k] = r) => rs[r].pc = "queued"
        <5>1. \A k \in (e + 2)..n : k \in 1..n
          BY <2>2, <2>3
        <5>2. QED BY <5>1, <2>2
      <4>4. QED BY <4>1, <4>2, <4>3, <3>1 DEF Moved
    <3>5. QED BY <3>2, <3>3, <3>4
  <2>12. Typed(moved)
    BY <2>9, <2>11 DEF Typed
  <2>13. Holds(left, moved)
    <3>1. \A i \in 1..Len(left) : left[i] \in Request /\ moved[left[i]].pc = "queued"
      <4>1. SUFFICES ASSUME NEW i \in 1..Len(left)
                     PROVE  left[i] \in Request /\ moved[left[i]].pc = "queued"
        OBVIOUS
      <4>2. i + e + 1 \in (e + 2)..n /\ left[i] = queue[i + e + 1]
        BY <2>7
      <4>3. left[i] \in Request
        BY <2>6, ElementOfSeq
      <4>4. QED BY <4>2, <4>3, <2>11
    <3>2. \A r \in Request : moved[r].pc = "queued" => \E i \in 1..Len(left) : left[i] = r
      BY <2>7, <2>11
    <3>3. \A i, j \in 1..Len(left) : left[i] = left[j] => i = j
      <4>1. SUFFICES ASSUME NEW i \in 1..Len(left), NEW j \in 1..Len(left), left[i] = left[j]
                     PROVE  i = j
        OBVIOUS
      <4>2. /\ i + e + 1 \in (e + 2)..n /\ left[i] = queue[i + e + 1]
            /\ j + e + 1 \in (e + 2)..n /\ left[j] = queue[j + e + 1]
        BY <2>7
      <4>3. i + e + 1 \in 1..n /\ j + e + 1 \in 1..n
        BY <4>2, <2>2, <2>3
      <4>4. i + e + 1 = j + e + 1
        BY <4>1, <4>2, <4>3, <2>2
      <4>5. QED BY <4>4, <2>3, <2>7
    <3>4. QED BY <2>6, <2>7, <3>1, <3>2, <3>3, MembersAreArray
  <2>14. CASE left # <<>>
    BY <2>10, <2>11, <2>12, <2>13, <2>14
  <2>15. CASE left = <<>>
    <3> DEFINE u == Uninstalled(moved, "dropped")
    <3>1. req' = u /\ queue' = left /\ installed' = FALSE
      BY <2>10, <2>15
    <3>2. /\ Typed(u)
          /\ \A r \in Request :
               /\ u[r].pc = moved[r].pc /\ Moved(moved[r], u[r])
               /\ ~(moved[r].pc = "depth" /\ moved[r].ticket = "live") => u[r] = moved[r]
      BY <2>12, UninstalledEffect
    <3> HIDE DEF u
    <3>3. Holds(left, u)
      BY <2>13, <3>2, SameCallersSameQueue
    <3>4. \A r \in Request : Moved(rs[r], u[r])
      BY <2>11, <3>2 DEF Moved
    <3>5. QED BY <3>1, <3>2, <3>3, <3>4, <2>15
  <2>16. QED BY <2>14, <2>15
<1>3. QED BY <1>1, <1>2

-----------------------------------------------------------------------------
(* Kinds of steps: what a step of each sort does to the seat, whichever     *)
(* action it is.                                                            *)

KeepSeat == UNCHANGED <<sessions, cur, gen, stopped, killed, caught>>

(* A turn moves on within its step loop, as its authority lets it.          *)
Loops(r) ==
    /\ req[r].pc \in Generating /\ req'[r].pc \in Generating
    /\ req'[r].obj = req[r].obj
    /\ \A q \in Request \ {r} : req'[q] = req[q]
    /\ Authorized(r) \/ req'[r].pc = "finishing"
    /\ KeepSeat

(* A caller moves on outside the seat.                                      *)
Knocks(r) ==
    /\ req[r].pc \in {"new", "gating", "depth"}
    /\ req'[r].pc \in {"gating", "depth", "queued", "answered"}
    /\ req'[r].obj \in {0, cur, req[r].obj} /\ (req'[r].pc = "depth" => req'[r].obj = cur)
    /\ req[r].pc = "depth" /\ req[r].ticket = "flushed" => req'[r].pc = "answered"
    /\ \A q \in Request \ {r} : req'[q] = req[q]
    /\ KeepSeat

(* A caller takes the free slot of the session it found, or joined.         *)
Reserves(r, o) ==
    /\ req[r].pc \in {"gating", "depth"}
    /\ req[r].pc = "depth" => req[r].ticket # "flushed"
    /\ o = IF req[r].pc = "gating" THEN cur ELSE req[r].obj
    /\ sessions[o].status = "idle"
    /\ req'[r].pc = "setup" /\ req'[r].obj = o
    /\ Aside(r)
    /\ sessions' = [sessions EXCEPT ![o].status = "running"]
    /\ UNCHANGED <<cur, gen, stopped, killed, caught>>

(* A turn registers its generation, and a turn ends it.                     *)
Begins(r) ==
    /\ req[r].pc = "setup" /\ req'[r].pc = "step" /\ req'[r].obj = req[r].obj
    /\ \A q \in Request \ {r} : req'[q] = req[q]
    /\ gen' = r /\ stopped' = stopped \ {r}
    /\ UNCHANGED <<sessions, cur, killed, caught>>

Ends(r) ==
    /\ req[r].pc = "finishing" /\ req'[r].pc = "settling" /\ req'[r].obj = req[r].obj
    /\ req'[r].released = (Mine(r).status = "running")
    /\ \A q \in Request \ {r} : req'[q] = req[q]
    /\ gen' = (IF gen = r THEN NoOne ELSE gen)
    /\ stopped' = stopped \ {r} /\ caught' = caught \ {r}
    /\ SaveMine(r, SlotReleased(Mine(r)))
    /\ UNCHANGED <<cur, killed>>

(* A turn is answered, and with it the slot given back if it was still its. *)
Leaves(r) ==
    /\ req[r].pc \in {"setup", "settling"}
    /\ req'[r].pc = "answered" /\ req'[r].obj = 0
    /\ Aside(r)
    /\ SaveMine(r, IF req[r].pc = "setup" \/ ~req[r].released
                   THEN SlotReleased(Mine(r)) ELSE Mine(r))
    /\ UNCHANGED <<cur, gen, stopped, killed, caught>>

(* A control that aborts the generation at work.                            *)
Aborts(freezes) ==
    /\ IF freezes
       THEN \E s \in AiDmSessionState :
              s.status = "paused" /\ IsFrozen(s) /\ SaveCurrent(s) /\ UNCHANGED killed
       ELSE killed' = TRUE /\ UNCHANGED sessions
    /\ CancelGeneration /\ caught' = caught \cup InGeneration
    /\ UNCHANGED <<req, cur>>

(* The seat is given back; the rate limit trips; a flag is set or cleared.  *)
Thaws ==
    /\ \E s \in AiDmSessionState : s.status = "idle" /\ SaveCurrent(s)
    /\ InFlight => "early_resume" \in Env
    /\ UNCHANGED <<req, cur, gen, stopped, killed, caught>>

Trips(r) ==
    /\ req[r].pc = "tools" /\ Authorized(r)
    /\ \E s \in AiDmSessionState :
         s.status = "paused" /\ IsFrozen(s) /\ SaveMine(r, s)
    /\ UNCHANGED <<req, cur, gen, stopped, killed, caught>>

Flips ==
    /\ killed' \in {killed, FALSE}
    /\ UNCHANGED <<req, sessions, cur, gen, stopped, caught>>

(* One request's record is replaced, none of them queued.                   *)
LEMMA OneStepTyped ==
    ASSUME QueueInv, NEW r \in Request, req[r].pc # "queued",
           NEW x \in RequestRecord, x.pc # "queued",
           x.pc = "backoff" => x.attempt < MaxAttempts,
           req' = [req EXCEPT ![r] = x], UNCHANGED <<queue, installed>>,
           RestTyped'
    PROVE  /\ QueueInv' /\ req'[r] = x
           /\ \A q \in Request \ {r} : req'[q] = req[q]
<1>1. Typed(req) /\ Holds(queue, req)
  BY TypedTable
<1>2. Typed(req') /\ Holds(queue', req')
  BY <1>1, OneChanged
<1>3. req'[r] = x /\ \A q \in Request \ {r} : req'[q] = req[q]
  BY <1>1 DEF Typed
<1>4. QED BY <1>2, <1>3, TypedTablePrimed

(* The steps of the loop are steps of the loop.                             *)
LEMMA LoopSteps ==
    ASSUME QueueInv, NEW r \in Request,
           \/ BeginStep(r) \/ OpenStream(r) \/ CloseStream(r) \/ Retry(r)
           \/ RunTool(r) \/ StopTools(r)
    PROVE  Loops(r) /\ QueueInv'
<1>1. Typed(req) /\ RestTyped /\ req[r] \in RequestRecord
  BY TypedTable DEF Typed
<1>2. PICK x \in RequestRecord :
        /\ req' = [req EXCEPT ![r] = x]
        /\ req[r].pc \in Generating /\ x.pc \in Generating /\ x.obj = req[r].obj
        /\ x.pc = "backoff" => x.attempt < MaxAttempts
        /\ Authorized(r) \/ x.pc = "finishing"
  <2>0. /\ Typed(req) /\ req[r] \in RequestRecord /\ req[r].step \in Nat
        /\ req[r].attempt \in Nat
    BY <1>1, BoundsAreNat DEF RequestRecord
  <2>1. ASSUME NEW pc \in Generating, Goto(r, pc), req[r].pc \in Generating,
               Authorized(r) \/ pc = "finishing",
               pc = "backoff" => req[r].attempt < MaxAttempts
        PROVE  \E x \in RequestRecord :
                 /\ req' = [req EXCEPT ![r] = x]
                 /\ req[r].pc \in Generating /\ x.pc \in Generating /\ x.obj = req[r].obj
                 /\ x.pc = "backoff" => x.attempt < MaxAttempts
                 /\ Authorized(r) \/ x.pc = "finishing"
    <3> DEFINE x == [req[r] EXCEPT !.pc = pc]
    <3>1. /\ x \in RequestRecord /\ x.pc = pc /\ x.obj = req[r].obj
          /\ x.attempt = req[r].attempt
      BY <2>0, <2>1 DEF RequestRecord, Generating
    <3>2. req' = [req EXCEPT ![r] = x]
      BY <2>1 DEF Goto
    <3> HIDE DEF x
    <3>3. QED BY <2>1, <3>1, <3>2
  <2>2. CASE BeginStep(r)
    <3>1. CASE Authorized(r) /\ ~broke /\ req[r].step < MaxSteps
      <4> DEFINE x == [req[r] EXCEPT !.pc = "locking", !.step = req[r].step + 1,
                                     !.attempt = 1]
      <4>1. req[r].step + 1 \in 0..MaxSteps /\ 1 \in 0..MaxAttempts
        BY <2>0, <3>1, BoundsAreNat
      <4>2. x \in RequestRecord /\ x.pc = "locking" /\ x.obj = req[r].obj
        BY <2>0, <4>1 DEF RequestRecord, Turning
      <4>3. req' = [req EXCEPT ![r] = x]
        BY <1>1, <2>2, <3>1 DEF BeginStep, Typed, RequestRecord
      <4> HIDE DEF x
      <4>4. req[r].pc \in Generating /\ "locking" \in Generating
        BY <2>2 DEF BeginStep, Generating, Turning
      <4>5. QED BY <3>1, <4>2, <4>3, <4>4
    <3>2. CASE ~(Authorized(r) /\ ~broke /\ req[r].step < MaxSteps)
      BY <2>1, <2>2, <3>2 DEF BeginStep, Generating, Turning
    <3>3. QED BY <3>1, <3>2
  <2>3. CASE OpenStream(r)
    BY <2>1, <2>3 DEF OpenStream, Generating, Turning
  <2>4. CASE CloseStream(r)
    BY <2>1, <2>4 DEF CloseStream, Generating, Turning
  <2>5. CASE Retry(r)
    <3>1. CASE Authorized(r)
      <4> DEFINE x == [req[r] EXCEPT !.pc = "locking", !.attempt = req[r].attempt + 1]
      <4>1. req[r].pc = "backoff" /\ req[r].attempt < MaxAttempts
        BY <1>1, <2>5 DEF Retry, Typed
      <4>2. req[r].attempt + 1 \in 0..MaxAttempts
        BY <2>0, <4>1, BoundsAreNat
      <4>3. x \in RequestRecord /\ x.pc = "locking" /\ x.obj = req[r].obj
        BY <2>0, <4>2 DEF RequestRecord, Turning
      <4>4. req' = [req EXCEPT ![r] = x]
        BY <1>1, <2>5, <3>1 DEF Retry, Typed, RequestRecord
      <4> HIDE DEF x
      <4>5. req[r].pc \in Generating /\ "locking" \in Generating
        BY <4>1 DEF Generating, Turning
      <4>6. QED BY <3>1, <4>3, <4>4, <4>5
    <3>2. CASE ~Authorized(r)
      BY <2>1, <2>5, <3>2 DEF Retry, Generating, Turning
    <3>3. QED BY <3>1, <3>2
  <2>6. CASE RunTool(r)
    BY <2>1, <2>6 DEF RunTool, Generating, Turning
  <2>7. CASE StopTools(r)
    BY <2>1, <2>7 DEF StopTools, Generating, Turning
  <2>8. QED BY <2>2, <2>3, <2>4, <2>5, <2>6, <2>7
<1>3. UNCHANGED <<queue, installed>> /\ KeepSeat
      /\ lock' \in Request \cup {NoOne} /\ broke' \in BOOLEAN /\ UNCHANGED <<armed, held>>
  BY <1>1 DEF BeginStep, OpenStream, CloseStream, Retry, RunTool, StopTools, Looping,
              KeepQueue, KeepHandles, KeepFlags, KeepSeat, RestTyped
<1>4. RestTyped'
  BY <1>1, <1>3 DEF RestTyped, KeepSeat
<1>5. req[r].pc # "queued" /\ x.pc # "queued"
  BY <1>2 DEF Generating, Turning
<1>6. /\ QueueInv' /\ req'[r] = x
      /\ \A q \in Request \ {r} : req'[q] = req[q]
  BY <1>2, <1>3, <1>4, <1>5, OneStepTyped
<1>7. QED BY <1>2, <1>3, <1>6 DEF Loops

(* Sessions stay typed when one of them is written.                         *)
LEMMA SaveTyped ==
    ASSUME RestTyped, NEW s \in AiDmSessionState, NEW o \in 0..MaxTeardowns
    PROVE  [sessions EXCEPT ![o] = s] \in [0..MaxTeardowns -> AiDmSessionState]
  BY DEF RestTyped

(* Beginning and ending a generation.                                       *)
LEMMA BeginSteps ==
    ASSUME QueueInv, NEW r \in Request, BeginGeneration(r)
    PROVE  Begins(r) /\ QueueInv'
<1> DEFINE x == [req[r] EXCEPT !.pc = "step"]
<1>1. Typed(req) /\ RestTyped /\ req[r] \in RequestRecord
  BY TypedTable DEF Typed
<1>2. x \in RequestRecord /\ x.pc = "step" /\ x.obj = req[r].obj
  BY <1>1 DEF RequestRecord, Turning
<1>3. /\ req[r].pc = "setup" /\ req' = [req EXCEPT ![r] = x]
      /\ gen' = r /\ stopped' = stopped \ {r}
      /\ UNCHANGED <<queue, installed, sessions, cur, lock, armed, killed, broke, held, caught>>
  BY DEF BeginGeneration, Goto, Looping, KeepQueue, KeepFlags
<1> HIDE DEF x
<1>4. RestTyped'
  BY <1>1, <1>3 DEF RestTyped
<1>5. /\ QueueInv' /\ req'[r] = x
      /\ \A q \in Request \ {r} : req'[q] = req[q]
  BY <1>2, <1>3, <1>4, OneStepTyped
<1>6. QED BY <1>2, <1>3, <1>5 DEF Begins

(* A turn gives back its handle and its slot.                               *)
LEMMA FinishSteps ==
    ASSUME QueueInv, NEW r \in Request, Finish(r)
    PROVE  Ends(r) /\ QueueInv'
<1> DEFINE given == (Mine(r).status = "running")
           x == [req[r] EXCEPT !.pc = "settling", !.released = given]
<1>1. Typed(req) /\ RestTyped /\ req[r] \in RequestRecord
  BY TypedTable DEF Typed
<1>2. req[r].obj \in 0..MaxTeardowns /\ Mine(r) \in AiDmSessionState
  BY <1>1 DEF RequestRecord, RestTyped, Mine
<1>3. given \in BOOLEAN
  OBVIOUS
<1>4. /\ req[r].pc = "finishing"
      /\ gen' = (IF gen = r THEN NoOne ELSE gen)
      /\ SaveMine(r, SlotReleased(Mine(r)))
      /\ stopped' = stopped \ {r} /\ caught' = caught \ {r}
      /\ UNCHANGED <<queue, installed, cur, lock, armed, killed, broke, held>>
  BY DEF Finish, KeepQueue, KeepFlags
<1>5. req' = [req EXCEPT ![r] = x]
  BY DEF Finish
<1> HIDE DEF given
<1>6. /\ x \in RequestRecord /\ x.pc = "settling" /\ x.obj = req[r].obj
      /\ x.released = given
  BY <1>1, <1>3 DEF RequestRecord
<1> HIDE DEF x
<1>7. sessions' \in [0..MaxTeardowns -> AiDmSessionState]
  BY <1>1, <1>2, <1>4, SlotReleasedEffect, SaveTyped DEF SaveMine
<1>8. RestTyped'
  BY <1>1, <1>4, <1>7 DEF RestTyped
<1>9. /\ QueueInv' /\ req'[r] = x
      /\ \A q \in Request \ {r} : req'[q] = req[q]
  BY <1>4, <1>5, <1>6, <1>8, OneStepTyped
<1>10. QED BY <1>4, <1>6, <1>9 DEF Ends, given

(* Leaving: the answer, the slot, and the drain.                            *)
LEMMA LeaveSteps ==
    ASSUME QueueInv, NEW r \in Request, FailSetup(r) \/ Settle(r)
    PROVE  Leaves(r) /\ QueueInv'
<1> DEFINE gone == Refused(req, r)
           t == IF req[r].pc = "setup" \/ ~req[r].released
                THEN SlotReleased(Mine(r)) ELSE Mine(r)
<1>1. /\ Typed(req) /\ RestTyped /\ Holds(queue, req) /\ req[r] \in RequestRecord
      /\ installed \in BOOLEAN /\ (~installed => queue = <<>>)
  BY TypedTable DEF Typed, RestTyped
<1>2. req[r].obj \in 0..MaxTeardowns /\ Mine(r) \in AiDmSessionState
  BY <1>1 DEF RequestRecord, RestTyped, Mine
<1>3. /\ req[r].pc \in {"setup", "settling"}
      /\ UNCHANGED <<gen, stopped, caught, armed, killed, broke, held, cur, lock>>
  BY DEF FailSetup, Settle, KeepHandles, KeepFlags
<1>4. /\ SaveMine(r, t)
      /\ Drain(gone) \/ (req' = gone /\ KeepQueue)
  <2>1. CASE FailSetup(r)
    BY <2>1 DEF FailSetup, Leave
  <2>2. CASE Settle(r)
    <3>1. req[r].pc = "settling" /\ Leave(r, Mine(r), ~req[r].released)
      BY <2>2 DEF Settle
    <3>2. CASE req[r].released
      BY <3>1, <3>2 DEF Leave
    <3>3. CASE ~req[r].released
      BY <3>1, <3>3 DEF Leave
    <3>4. QED BY <3>2, <3>3
  <2>3. QED BY <2>1, <2>2
<1>5. t \in AiDmSessionState
  BY <1>2, SlotReleasedEffect
<1>6. sessions' \in [0..MaxTeardowns -> AiDmSessionState]
  BY <1>1, <1>2, <1>4, <1>5, SaveTyped DEF SaveMine
<1>7. gone = [req EXCEPT ![r] = Answered]
  BY DEF Refused
<1> HIDE DEF gone, t
<1>8. /\ Typed(gone) /\ Holds(queue, gone) /\ gone[r] = Answered
      /\ \A q \in Request \ {r} : gone[q] = req[q]
  <2>1. Typed(gone) /\ Holds(queue, gone)
    BY <1>1, <1>3, <1>7, AnsweredTyped, OneChanged
  <2>2. QED BY <2>1, <1>1, <1>7 DEF Typed
<1>9. /\ Typed(req') /\ Holds(queue', req')
      /\ installed' \in BOOLEAN /\ (~installed' => queue' = <<>>)
      /\ \A q \in Request : Moved(gone[q], req'[q])
  <2>1. CASE Drain(gone)
    BY <2>1, <1>1, <1>8, DrainEffect
  <2>2. CASE req' = gone /\ KeepQueue
    BY <2>2, <1>1, <1>8 DEF KeepQueue, Moved
  <2>3. QED BY <1>4, <2>1, <2>2
<1>10. RestTyped'
  BY <1>1, <1>3, <1>6, <1>9 DEF RestTyped
<1>11. QueueInv'
  BY <1>9, <1>10, TypedTablePrimed
<1>12. req'[r].pc = "answered" /\ req'[r].obj = 0
  BY <1>8, <1>9, AnsweredTyped DEF Moved
<1>13. Aside(r)
  BY <1>8, <1>9 DEF Aside
<1>14. SaveMine(r, IF req[r].pc = "setup" \/ ~req[r].released
                   THEN SlotReleased(Mine(r)) ELSE Mine(r))
  BY <1>4 DEF t
<1>15. QED BY <1>3, <1>11, <1>12, <1>13, <1>14 DEF Leaves

(* A first message leaves its client.                                       *)
LEMMA ArriveSteps ==
    ASSUME QueueInv, NEW r \in Request, Arrive(r)
    PROVE  Knocks(r) /\ QueueInv'
<1> DEFINE x == [req[r] EXCEPT !.pc = "gating"]
<1>1. Typed(req) /\ RestTyped /\ req[r] \in RequestRecord
  BY TypedTable DEF Typed
<1>2. x \in RequestRecord /\ x.pc = "gating" /\ x.obj = req[r].obj
  BY <1>1 DEF RequestRecord
<1>3. /\ req[r].pc = "new" /\ req' = [req EXCEPT ![r] = x]
      /\ UNCHANGED <<queue, installed, sessions, cur, lock, gen, stopped, caught, armed,
                     killed, broke, held>>
  BY DEF Arrive, Goto, KeepQueue, KeepHandles, KeepFlags
<1> HIDE DEF x
<1>4. RestTyped'
  BY <1>1, <1>3 DEF RestTyped
<1>5. /\ QueueInv' /\ req'[r] = x
      /\ \A q \in Request \ {r} : req'[q] = req[q]
  BY <1>2, <1>3, <1>4, OneStepTyped
<1>6. QED BY <1>2, <1>3, <1>5 DEF Knocks, KeepSeat

(* A caller is turned away at one of the gates.                             *)
LEMMA RefuseSteps ==
    ASSUME QueueInv, NEW r \in Request, req[r].pc \in {"gating", "depth"},
           req' = Refused(req, r),
           UNCHANGED <<queue, installed, sessions, cur, lock, gen, stopped, caught,
                       armed, killed, broke, held>>
    PROVE  Knocks(r) /\ QueueInv'
<1>1. Typed(req) /\ RestTyped /\ req' = [req EXCEPT ![r] = Answered]
  BY TypedTable DEF Refused
<1>2. RestTyped'
  BY <1>1 DEF RestTyped
<1>3. /\ QueueInv' /\ req'[r] = Answered
      /\ \A q \in Request \ {r} : req'[q] = req[q]
  BY <1>1, <1>2, AnsweredTyped, OneStepTyped
<1>4. QED BY <1>3, AnsweredTyped DEF Knocks, KeepSeat

(* The slot is taken: the caller's record, and nobody else's but for the    *)
(* tickets of an array that left the map.                                   *)
LEMMA ReserveSteps ==
    ASSUME QueueInv, NEW r \in Request, req[r].pc \in {"gating", "depth"},
           req[r].pc = "depth" => req[r].ticket # "flushed",
           NEW o \in 0..MaxTeardowns, o = IF req[r].pc = "gating" THEN cur ELSE req[r].obj,
           Admissible(sessions[o]), sessions[o].status # "running",
           NEW rs, rs \in {req, Uninstalled(req, "dropped")}, Reserve(r, rs, o),
           UNCHANGED <<queue, cur, lock, gen, stopped, caught, armed, killed, broke, held>>,
           installed' \in BOOLEAN, ~installed' => queue = <<>>
    PROVE  Reserves(r, o) /\ QueueInv'
<1> DEFINE x == [rs[r] EXCEPT !.pc = "setup", !.obj = o, !.ticket = "none"]
<1>1. /\ Typed(req) /\ RestTyped /\ Holds(queue, req)
      /\ sessions[o] \in AiDmSessionState
  BY TypedTable DEF RestTyped
<1>2. /\ Typed(rs) /\ Holds(queue, rs) /\ rs[r].pc = req[r].pc
      /\ \A q \in Request : Moved(req[q], rs[q])
  <2>1. CASE rs = req
    BY <1>1, <2>1 DEF Moved
  <2>2. CASE rs = Uninstalled(req, "dropped")
    <3>1. /\ Typed(rs)
          /\ \A q \in Request : rs[q].pc = req[q].pc /\ Moved(req[q], rs[q])
      BY <1>1, <2>2, UninstalledEffect
    <3>2. QED BY <1>1, <3>1, SameCallersSameQueue
  <2>3. QED BY <2>1, <2>2
<1>3. x \in RequestRecord /\ x.pc = "setup" /\ x.obj = o
  BY <1>2 DEF Typed, RequestRecord, Turning
<1>4. req' = [rs EXCEPT ![r] = x] /\ sessions' = [sessions EXCEPT ![o].status = "running"]
  BY DEF Reserve
<1> HIDE DEF x
<1>5. Typed(req') /\ Holds(queue', req')
  BY <1>2, <1>3, <1>4, OneChanged
<1>6. req'[r] = x /\ \A q \in Request \ {r} : req'[q] = rs[q]
  BY <1>2, <1>4 DEF Typed
<1>7. sessions' \in [0..MaxTeardowns -> AiDmSessionState]
  BY <1>1, <1>4 DEF RestTyped, AiDmSessionState, AiDmSessionStatus
<1>8. RestTyped'
  BY <1>1, <1>7 DEF RestTyped
<1>9. QueueInv'
  BY <1>5, <1>8, TypedTablePrimed
<1>10. sessions[o].status = "idle"
  BY <1>1 DEF Admissible, AiDmSessionState, AiDmSessionStatus
<1>11. Aside(r)
  BY <1>2, <1>6 DEF Aside
<1>12. QED BY <1>3, <1>4, <1>6, <1>9, <1>10, <1>11 DEF Reserves

(* The first gate.                                                          *)
LEMMA AdmitSteps ==
    ASSUME QueueInv, NEW r \in Request, Admit(r)
    PROVE  (Knocks(r) \/ \E o \in 0..MaxTeardowns : Reserves(r, o)) /\ QueueInv'
<1>1. /\ req[r].pc = "gating"
      /\ UNCHANGED <<gen, stopped, caught, armed, killed, broke, held, cur, lock>>
  BY DEF Admit, KeepHandles, KeepFlags
<1>2. Typed(req) /\ RestTyped /\ req[r] \in RequestRecord
  BY TypedTable DEF Typed
<1>3. CASE req' = Refused(req, r) /\ KeepQueue /\ UNCHANGED sessions
  BY <1>1, <1>3, RefuseSteps DEF KeepQueue
<1>4. CASE Admissible(session) /\ session.status # "running" /\ Reserve(r, req, cur)
           /\ KeepQueue
  <2>1. installed' \in BOOLEAN /\ (~installed' => queue = <<>>)
    BY <1>2, <1>4 DEF KeepQueue, RestTyped
  <2>2. cur \in 0..MaxTeardowns
    BY <1>2 DEF RestTyped
  <2>3. Reserves(r, cur) /\ QueueInv'
    BY <1>1, <1>4, <2>1, <2>2, ReserveSteps DEF KeepQueue, session
  <2>4. QED BY <2>2, <2>3
<1>5. CASE /\ req' = [req EXCEPT ![r] = [@ EXCEPT !.pc = "depth", !.obj = cur,
                                                  !.ticket = "live"]]
           /\ installed' = TRUE /\ UNCHANGED <<queue, sessions>>
  <2> DEFINE x == [req[r] EXCEPT !.pc = "depth", !.obj = cur, !.ticket = "live"]
  <2>1. cur \in 0..MaxTeardowns
    BY <1>2 DEF RestTyped
  <2>2. x \in RequestRecord /\ x.pc = "depth" /\ x.obj = cur
    BY <1>2, <2>1 DEF RequestRecord
  <2>3. req' = [req EXCEPT ![r] = x]
    BY <1>5
  <2> HIDE DEF x
  <2>4. RestTyped'
    BY <1>1, <1>2, <1>5 DEF RestTyped
  <2>5. Typed(req') /\ Holds(queue', req')
    <3>1. Holds(queue, req) /\ queue' = queue
      BY <1>5, TypedTable
    <3>2. Typed(req') /\ Holds(queue, req')
      BY <1>1, <1>2, <2>2, <2>3, <3>1, OneChanged
    <3>3. QED BY <3>1, <3>2
  <2>6. QueueInv'
    BY <2>4, <2>5, TypedTablePrimed
  <2>7. req'[r] = x /\ \A q \in Request \ {r} : req'[q] = req[q]
    BY <1>2, <2>3 DEF Typed
  <2>8. QED BY <1>1, <1>5, <2>2, <2>6, <2>7 DEF Knocks, KeepSeat
<1>6. QED BY <1>3, <1>4, <1>5 DEF Admit

(* Joining the queue, or finding it full.                                   *)
LEMMA PushSteps ==
    ASSUME QueueInv, NEW r \in Request, req[r].pc = "depth",
           req[r].ticket # "flushed", Push(r),
           UNCHANGED <<cur, lock, gen, stopped, caught, armed, killed, broke, held>>,
           installed' \in BOOLEAN, ~installed' => queue = <<>> /\ Len(queue) >= MaxDepth
    PROVE  Knocks(r) /\ QueueInv'
<1>1. /\ Typed(req) /\ RestTyped /\ Holds(queue, req) /\ req[r] \in RequestRecord
      /\ UNCHANGED sessions
  BY TypedTable DEF Typed, Push
<1>2. CASE Len(queue) >= MaxDepth
  <2>1. req' = [req EXCEPT ![r] = Answered] /\ UNCHANGED queue
    BY <1>2 DEF Push, Refused
  <2>2. RestTyped'
    BY <1>1, <2>1 DEF RestTyped
  <2>3. Typed(req') /\ Holds(queue', req')
    BY <1>1, <2>1, AnsweredTyped, OneChanged
  <2>4. QueueInv'
    BY <2>2, <2>3, TypedTablePrimed
  <2>5. req'[r] = Answered /\ \A q \in Request \ {r} : req'[q] = req[q]
    BY <1>1, <2>1 DEF Typed
  <2>6. QED BY <1>1, <2>4, <2>5, AnsweredTyped DEF Knocks, KeepSeat
<1>3. CASE ~(Len(queue) >= MaxDepth)
  <2> DEFINE x == [req[r] EXCEPT !.pc = "queued", !.ticket = "none"]
  <2>1. req' = [req EXCEPT ![r] = x] /\ queue' = Append(queue, r)
    BY <1>3 DEF Push
  <2>2. x \in RequestRecord /\ x.pc = "queued" /\ x.obj = req[r].obj
    BY <1>1 DEF RequestRecord
  <2> HIDE DEF x
  <2>3. Len(queue) < MaxDepth
    BY <1>1, <1>3, ArrayMembers, BoundsAreNat
  <2>4. installed'
    BY <1>3
  <2>5. RestTyped'
    BY <1>1, <2>4 DEF RestTyped
  <2>6. Typed(req') /\ Holds(queue', req')
    BY <1>1, <2>1, <2>2, <2>3, AppendHolds
  <2>7. QueueInv'
    BY <2>5, <2>6, TypedTablePrimed
  <2>8. req'[r] = x /\ \A q \in Request \ {r} : req'[q] = req[q]
    BY <1>1, <2>1 DEF Typed
  <2>9. QED BY <1>1, <2>2, <2>7, <2>8 DEF Knocks, KeepSeat
<1>4. QED BY <1>2, <1>3

(* The second gate: everything is checked again.                            *)
LEMMA EnqueueSteps ==
    ASSUME QueueInv, NEW r \in Request, Enqueue(r)
    PROVE  (Knocks(r) \/ \E o \in 0..MaxTeardowns : Reserves(r, o)) /\ QueueInv'
<1> DEFINE ticket == req[r].ticket
           entries == IF ticket = "live" THEN queue ELSE <<>>
<1>1. /\ req[r].pc = "depth" /\ Mine(r) = sessions[req[r].obj]
      /\ UNCHANGED <<gen, stopped, caught, armed, killed, broke, held, cur, lock>>
  BY DEF Enqueue, KeepHandles, KeepFlags, Mine
<1>2. RestTyped /\ req[r].obj \in 0..MaxTeardowns
  BY TypedTable DEF Typed, RequestRecord
<1>3. CASE req' = Refused(req, r) /\ KeepQueue /\ UNCHANGED sessions
  BY <1>1, <1>3, RefuseSteps DEF KeepQueue
<1>4. CASE ticket # "flushed" /\ Push(r) /\ installed' = TRUE
  <2>1. installed' \in BOOLEAN /\ (~installed' => queue = <<>> /\ Len(queue) >= MaxDepth)
    BY <1>4
  <2>2. Knocks(r) /\ QueueInv'
    BY <1>1, <1>4, <2>1, PushSteps
  <2>3. QED BY <2>2
<1>5. CASE ticket # "flushed" /\ entries # <<>> /\ Push(r) /\ UNCHANGED installed
  <2>1. queue # <<>>
    BY <1>5
  <2>2. installed' = TRUE
    BY <1>2, <1>5, <2>1 DEF RestTyped
  <2>3. QED BY <1>4, <1>5, <2>2
<1>6. CASE /\ Admissible(Mine(r)) /\ ticket # "flushed"
           /\ Mine(r).status # "running" /\ entries = <<>>
           /\ Reserve(r, IF ticket = "live" THEN Uninstalled(req, "dropped") ELSE req,
                      req[r].obj)
           /\ installed' = (installed /\ ticket # "live") /\ UNCHANGED queue
  <2>1. CASE ticket = "live"
    <3>1. installed' \in BOOLEAN /\ (~installed' => queue = <<>>)
      BY <1>6, <2>1
    <3>2. Reserve(r, Uninstalled(req, "dropped"), req[r].obj)
      BY <1>1, <1>6, <2>1
    <3>3. Reserves(r, req[r].obj) /\ QueueInv'
      BY <1>1, <1>2, <1>6, <3>1, <3>2, ReserveSteps
    <3>4. QED BY <1>2, <3>3
  <2>2. CASE ticket # "live"
    <3>1. installed' \in BOOLEAN /\ (~installed' => queue = <<>>)
      BY <1>2, <1>6, <2>2 DEF RestTyped
    <3>2. Reserve(r, req, req[r].obj)
      BY <1>1, <1>6, <2>2
    <3>3. Reserves(r, req[r].obj) /\ QueueInv'
      BY <1>1, <1>2, <1>6, <3>1, <3>2, ReserveSteps
    <3>4. QED BY <1>2, <3>3
  <2>3. QED BY <2>1, <2>2
<1>7. QED BY <1>3, <1>4, <1>5, <1>6 DEF Enqueue

(* The levers that abort a generation.                                      *)
LEMMA AbortSteps ==
    ASSUME QueueInv,
           \/ Pause \/ \E m \in Member : GrantTakeover(m)
           \/ SetKillSwitch(TRUE)
    PROVE  (\E freezes \in BOOLEAN : Aborts(freezes)) /\ QueueInv'
<1>1. /\ Typed(req) /\ Holds(queue, req) /\ RestTyped
      /\ session \in AiDmSessionState /\ cur \in 0..MaxTeardowns
  BY TypedTable DEF RestTyped, session
<1>2. CASE Pause \/ \E m \in Member : GrantTakeover(m)
  <2>1. PICK s \in AiDmSessionState : s.status = "paused" /\ IsFrozen(s) /\ Freeze(s)
    BY <1>1, <1>2, FreezersFreeze DEF Pause, GrantTakeover
  <2>2. /\ SaveCurrent(s) /\ CancelGeneration /\ caught' = caught \cup InGeneration
        /\ UNCHANGED <<queue, installed, armed, killed, broke, held, req, cur, lock>>
    BY <2>1 DEF Freeze, KeepQueue, KeepFlags
  <2>3. Aborts(TRUE)
    BY <2>1, <2>2 DEF Aborts
  <2>4. sessions' \in [0..MaxTeardowns -> AiDmSessionState]
    BY <1>1, <2>2, SaveTyped DEF SaveCurrent
  <2>5. RestTyped'
    BY <1>1, <2>2, <2>4 DEF RestTyped, CancelGeneration, InGeneration
  <2>6. QueueInv'
    BY <1>1, <2>2, <2>5, TypedTablePrimed
  <2>7. QED BY <2>3, <2>6
<1>3. CASE SetKillSwitch(TRUE)
  <2>1. /\ killed' = TRUE /\ CancelGeneration /\ caught' = caught \cup InGeneration
        /\ UNCHANGED <<queue, installed, req, sessions, cur, lock, armed, broke, held>>
    BY <1>3 DEF SetKillSwitch, KeepQueue
  <2>2. Aborts(FALSE)
    BY <2>1 DEF Aborts
  <2>3. RestTyped'
    BY <1>1, <2>1 DEF RestTyped, CancelGeneration, InGeneration
  <2>4. QueueInv'
    BY <1>1, <2>1, <2>3, TypedTablePrimed
  <2>5. QED BY <2>2, <2>4
<1>4. QED BY <1>2, <1>3

(* What a hold and a teardown have in common.                               *)
Flushes ==
    /\ \A r \in Request :
         /\ Moved(req[r], req'[r])
         /\ req[r].pc = "queued" => req'[r].pc = "answered"
         /\ req[r].pc = "depth" /\ req[r].ticket = "live"
              => req'[r].pc = "depth" /\ req'[r].ticket = "flushed"
         /\ req[r].pc # "queued" /\ ~(req[r].pc = "depth" /\ req[r].ticket = "live")
              => req'[r] = req[r]
    /\ CancelGeneration /\ UNCHANGED killed
    /\ caught' = {r \in caught \cup InGeneration \cup Waiting : req'[r].pc # "answered"}

(* A hold and a teardown flush the queue of the seat.                       *)
LEMMA FlushSteps ==
    ASSUME QueueInv, RaiseHold \/ Teardown
    PROVE  /\ Flushes /\ QueueInv'
           /\ \/ /\ cur' = cur
                 /\ \E s \in AiDmSessionState :
                      s.status = "paused" /\ IsFrozen(s) /\ SaveCurrent(s)
              \/ cur' = cur + 1 /\ SaveCurrent(SlotReleased(session)) /\ Teardown
<1>1. /\ Typed(req) /\ Holds(queue, req) /\ RestTyped
      /\ session \in AiDmSessionState /\ cur \in 0..MaxTeardowns
  BY TypedTable DEF RestTyped, session
<1>2. /\ req' = Flushed(req) /\ queue' = <<>> /\ installed' = FALSE
      /\ CancelGeneration /\ UNCHANGED <<killed, lock, broke>>
      /\ caught' = {r \in caught \cup InGeneration \cup Waiting : req'[r].pc # "answered"}
      /\ armed' \in BOOLEAN /\ held' \in BOOLEAN
  BY <1>1 DEF RaiseHold, Teardown, RestTyped
<1>3. Typed(req') /\ Holds(queue', req') /\ Flushes
  BY <1>2, FlushedEffect DEF Flushes
<1>4. \/ /\ cur' = cur
         /\ \E s \in AiDmSessionState :
              s.status = "paused" /\ IsFrozen(s) /\ SaveCurrent(s)
      \/ cur' = cur + 1 /\ SaveCurrent(SlotReleased(session)) /\ Teardown
  BY <1>1, FreezersFreeze DEF RaiseHold, Teardown
<1>5. cur' \in 0..MaxTeardowns
  BY <1>1, <1>4, BoundsAreNat DEF Teardown
<1>6. sessions' \in [0..MaxTeardowns -> AiDmSessionState]
  BY <1>1, <1>4, SaveTyped, SlotReleasedEffect DEF SaveCurrent
<1>7. caught' \subseteq Request
  BY <1>1, <1>2 DEF InGeneration, Waiting, RestTyped
<1>8. RestTyped'
  BY <1>1, <1>2, <1>5, <1>6, <1>7 DEF RestTyped, CancelGeneration
<1>9. QED BY <1>3, <1>4, <1>8, TypedTablePrimed

(* The levers that only write the seat or a flag.                           *)
LEMMA QuietSteps ==
    ASSUME QueueInv,
           \/ Resume \/ Handback \/ \E r \in Request : EmergencyPause(r)
           \/ ReleaseHold \/ Rearm \/ Refill \/ SetKillSwitch(FALSE)
    PROVE  (Thaws \/ Flips \/ \E r \in Request : Trips(r)) /\ QueueInv'
<1>1. /\ Typed(req) /\ Holds(queue, req) /\ RestTyped
      /\ session \in AiDmSessionState /\ cur \in 0..MaxTeardowns
  BY TypedTable DEF RestTyped, session
<1>2. CASE Resume \/ Handback
  <2>1. PICK s \in AiDmSessionState : s.status = "idle" /\ Thaw(s)
    BY <1>1, <1>2, ThawersThaw DEF Resume, Handback
  <2>2. /\ SaveCurrent(s) /\ (InFlight => "early_resume" \in Env)
        /\ UNCHANGED <<queue, installed, gen, stopped, caught, armed, killed, broke,
                       held, req, cur, lock>>
    BY <2>1 DEF Thaw, KeepQueue, KeepFlags, KeepHandles
  <2>3. Thaws
    BY <2>1, <2>2 DEF Thaws
  <2>4. sessions' \in [0..MaxTeardowns -> AiDmSessionState]
    BY <1>1, <2>2, SaveTyped DEF SaveCurrent
  <2>5. RestTyped'
    BY <1>1, <2>2, <2>4 DEF RestTyped
  <2>6. QED BY <1>1, <2>2, <2>3, <2>5, TypedTablePrimed
<1>3. CASE \E r \in Request : EmergencyPause(r)
  <2>1. PICK r \in Request : EmergencyPause(r)
    BY <1>3
  <2>2. /\ req[r].pc = "tools" /\ Authorized(r) /\ SaveMine(r, Paused(Mine(r)))
        /\ UNCHANGED <<queue, installed, gen, stopped, caught, armed, killed, broke,
                       held, req, cur, lock>>
    BY <2>1 DEF EmergencyPause, KeepQueue, KeepFlags, KeepHandles
  <2>3. req[r].obj \in 0..MaxTeardowns /\ Mine(r) \in AiDmSessionState
    BY <1>1 DEF Typed, RequestRecord, RestTyped, Mine
  <2>4. /\ Paused(Mine(r)) \in AiDmSessionState /\ Paused(Mine(r)).status = "paused"
        /\ IsFrozen(Paused(Mine(r)))
    BY <2>3, FreezersFreeze
  <2>5. Trips(r)
    BY <2>2, <2>4 DEF Trips
  <2>6. sessions' \in [0..MaxTeardowns -> AiDmSessionState]
    BY <1>1, <2>2, <2>3, <2>4, SaveTyped DEF SaveMine
  <2>7. RestTyped'
    BY <1>1, <2>2, <2>6 DEF RestTyped
  <2>8. QED BY <1>1, <2>2, <2>5, <2>7, TypedTablePrimed
<1>4. CASE ReleaseHold \/ Rearm \/ Refill \/ SetKillSwitch(FALSE)
  <2>1. /\ killed' \in {killed, FALSE}
        /\ UNCHANGED <<req, queue, installed, sessions, cur, gen, stopped, caught, lock>>
        /\ armed' \in {armed, TRUE} /\ broke' \in {broke, FALSE} /\ held' \in {held, FALSE}
    BY <1>4 DEF ReleaseHold, Rearm, Refill, SetKillSwitch, KeepQueue, KeepHandles
  <2>2. Flips
    BY <2>1 DEF Flips
  <2>3. armed' \in BOOLEAN /\ broke' \in BOOLEAN /\ held' \in BOOLEAN /\ killed' \in BOOLEAN
    BY <1>1, <2>1 DEF RestTyped
  <2>4. RestTyped'
    BY <1>1, <2>1, <2>3 DEF RestTyped
  <2>5. QED BY <1>1, <2>1, <2>2, <2>4, TypedTablePrimed
<1>5. QED BY <1>2, <1>3, <1>4


-----------------------------------------------------------------------------
(* Each kind of step keeps what is known of the slot and, beside it, what   *)
(* is known of stops; and it is final for whatever a stop has caught.       *)

WindsDown ==
    \A r \in caught :
      req'[r].pc # req[r].pc => req'[r].pc \in {"finishing", "settling", "answered"}

(* What a bystander of a step may rely on.                                  *)
Bystander(q) ==
    /\ req[q].pc \in Turning \cup {"settling", "answered"} => req'[q] = req[q]
    /\ req'[q].pc \in Turning \cup {"settling"} => req'[q] = req[q]
    /\ req'[q].pc = "depth" => req'[q].obj = req[q].obj /\ req[q].pc = "depth"
    /\ req[q].pc = "depth" /\ req[q].ticket = "flushed" => req'[q] = req[q]
    /\ req'[q].obj \in {0, req[q].obj}

(* A caller that moved aside is a bystander.                                *)
LEMMA MovedFacts ==
    ASSUME NEW q, Moved(req[q], req'[q]) PROVE Bystander(q)
  BY DEF Moved, Turning, Bystander

(* What the types say of the parts that the slot's invariant reads.         *)
LEMMA SeatTypes ==
    ASSUME QueueInv
    PROVE  /\ sessions \in [0..MaxTeardowns -> AiDmSessionState]
           /\ MaxTeardowns \in Nat /\ cur \in 0..MaxTeardowns /\ 0 <= cur
           /\ \A q \in Request : req[q].obj \in 0..MaxTeardowns
           /\ gen \in Request \cup {NoOne} /\ caught \subseteq Request
  BY TypedTable, BoundsAreNat DEF RestTyped, Typed, RequestRecord

(* Which phases are which.                                                  *)
LEMMA Phases ==
    /\ \A pc \in {"new", "gating", "depth", "queued", "answered", "settling"} :
         pc \notin Turning /\ pc \notin Generating
    /\ Generating \subseteq Turning /\ "setup" \in Turning /\ "setup" \notin Generating
    /\ \A pc \in {"step", "streaming", "tools", "finishing"} : pc \in Generating
  BY DEF Generating, Turning

(* The step loop.                                                           *)
LEMMA LoopsKeep ==
    ASSUME QueueInv, SlotInv, NEW r \in Request, Loops(r)
    PROVE  SlotInv' /\ (StopInv => StopInv' /\ WindsDown)
<1> USE DEF Loops, KeepSeat, Detached, Mine, session
<1>1. NobodyAhead' /\ SparesAreFresh'
  BY DEF SlotInv, NobodyAhead, SparesAreFresh
<1>2. SeatIsTaken'
  BY Phases DEF SlotInv, SeatIsTaken
<1>3. OneTurnAtATime' /\ SlotIsOwned'
  BY Phases DEF SlotInv, OneTurnAtATime, SlotIsOwned
<1>4. ASSUME StopInv PROVE StopInv' /\ WindsDown
  <2>1. Attached' /\ HandleIsMine'
    BY <1>4, Phases DEF StopInv, Attached, HandleIsMine
  <2>2. StreamsAreStopped'
    BY <1>4, Phases DEF StopInv, StreamsAreStopped, Authorized
  <2>3. CaughtIsBarred'
    BY <1>4, Phases, SeatTypes DEF StopInv, CaughtIsBarred
  <2>4. WindsDown
    BY <1>4, Phases, SeatTypes DEF StopInv, CaughtIsBarred, WindsDown, Authorized
  <2>5. QED BY <2>1, <2>2, <2>3, <2>4 DEF StopInv
<1>5. QED BY <1>1, <1>2, <1>3, <1>4 DEF SlotInv

(* The generation handle replaces the one before it.                        *)
LEMMA BeginsKeep ==
    ASSUME QueueInv, SlotInv, NEW r \in Request, Begins(r)
    PROVE  SlotInv' /\ (StopInv => StopInv' /\ WindsDown)
<1> USE DEF Begins, Detached, Mine, session
<1>1. NobodyAhead' /\ SparesAreFresh'
  BY DEF SlotInv, NobodyAhead, SparesAreFresh
<1>2. SeatIsTaken'
  BY Phases DEF SlotInv, SeatIsTaken
<1>3. OneTurnAtATime' /\ SlotIsOwned'
  BY Phases DEF SlotInv, OneTurnAtATime, SlotIsOwned
<1>4. ASSUME StopInv PROVE StopInv' /\ WindsDown
  <2>1. Attached'
    BY <1>4, Phases DEF StopInv, Attached
  <2>2. HandleIsMine'
    BY <1>4, Phases DEF SlotInv, StopInv, HandleIsMine, OneTurnAtATime, Attached
  <2>3. StreamsAreStopped'
    BY <1>4, Phases DEF StopInv, StreamsAreStopped
  <2>4. r \notin caught
    BY <1>4, Phases DEF StopInv, CaughtIsBarred
  <2>5. CaughtIsBarred' /\ WindsDown
    BY <1>4, <2>4, Phases, SeatTypes DEF StopInv, CaughtIsBarred, WindsDown
  <2>6. QED BY <2>1, <2>2, <2>3, <2>5 DEF StopInv
<1>5. QED BY <1>1, <1>2, <1>3, <1>4 DEF SlotInv

(* The slot is given back as the loop ends, unless the seat was paused.     *)
LEMMA EndsKeep ==
    ASSUME QueueInv, SlotInv, NEW r \in Request, Ends(r)
    PROVE  SlotInv' /\ (StopInv => StopInv' /\ WindsDown)
<1> USE DEF Ends, Detached, Mine, session
<1>1. Mine(r) \in AiDmSessionState
  BY SeatTypes
<1>2. /\ \A o \in 0..MaxTeardowns : o # req[r].obj => sessions'[o] = sessions[o]
      /\ sessions'[req[r].obj].state = sessions[req[r].obj].state
      /\ sessions'[req[r].obj].status =
           IF sessions[req[r].obj].status = "running" THEN "idle"
           ELSE sessions[req[r].obj].status
  BY <1>1, SeatTypes, SlotReleasedEffect DEF SaveMine
<1>3. NobodyAhead' /\ SparesAreFresh'
  <2>1. NobodyAhead'
    BY DEF SlotInv, NobodyAhead
  <2>2. \A o \in 0..MaxTeardowns : o > cur => o # req[r].obj
    BY SeatTypes DEF SlotInv, NobodyAhead
  <2>3. QED BY <1>2, <2>1, <2>2 DEF SlotInv, SparesAreFresh
<1>4. SeatIsTaken'
  <2>1. SUFFICES ASSUME NEW q \in Request, req'[q].obj = cur
                 PROVE  /\ req'[q].pc \in Turning =>
                             sessions'[cur].status \in {"running", "paused"}
                        /\ req'[q].pc = "settling" /\ ~req'[q].released =>
                             sessions'[cur].status = "paused"
    BY DEF SeatIsTaken
  <2>2. CASE q = r
    <3>1. sessions[cur].status \in {"running", "paused"}
      BY <2>1, <2>2, Phases DEF SlotInv, SeatIsTaken
    <3>2. sessions[cur].status = "running" => req'[r].released
      BY <2>1, <2>2
    <3>3. QED BY <1>2, <2>1, <2>2, <3>1, <3>2, Phases
  <2>3. CASE q # r /\ req[r].obj = cur
    <3>1. req'[q] = req[q] /\ req[q].pc \notin Turning
      BY <2>1, <2>3, Phases DEF SlotInv, OneTurnAtATime
    <3>2. req[q].pc = "settling" /\ ~req[q].released => sessions[cur].status = "paused"
      BY <2>1, <3>1 DEF SlotInv, SeatIsTaken
    <3>3. QED BY <1>2, <2>3, <3>1, <3>2
  <2>4. CASE q # r /\ req[r].obj # cur
    <3>1. req'[q] = req[q] /\ sessions'[cur] = sessions[cur]
      BY <1>2, <2>4, SeatTypes
    <3>2. QED BY <2>1, <3>1 DEF SlotInv, SeatIsTaken
  <2>5. QED BY <2>2, <2>3, <2>4
<1>5. OneTurnAtATime' /\ SlotIsOwned'
  BY <1>2, Phases, SeatTypes DEF SlotInv, OneTurnAtATime, SlotIsOwned
<1>6. ASSUME StopInv PROVE StopInv' /\ WindsDown
  <2>1. Attached'
    BY <1>6 DEF StopInv, Attached
  <2>2. HandleIsMine'
    BY <1>6, Phases DEF SlotInv, StopInv, HandleIsMine, OneTurnAtATime
  <2>3. \A o \in 0..MaxTeardowns : IsFrozen(sessions'[o]) <=> IsFrozen(sessions[o])
    BY <1>2 DEF IsFrozen
  <2>4. StreamsAreStopped'
    BY <1>6, <2>3, Phases, SeatTypes DEF StopInv, StreamsAreStopped
  <2>5. CaughtIsBarred' /\ WindsDown
    BY <1>6, Phases, SeatTypes DEF StopInv, CaughtIsBarred, WindsDown
  <2>6. QED BY <2>1, <2>2, <2>4, <2>5 DEF StopInv
<1>7. QED BY <1>3, <1>4, <1>5, <1>6 DEF SlotInv

(* Callers outside the seat do not disturb it.                              *)
LEMMA KnocksKeep ==
    ASSUME QueueInv, SlotInv, NEW r \in Request, Knocks(r)
    PROVE  SlotInv' /\ (StopInv => StopInv' /\ WindsDown)
<1> USE DEF Knocks, KeepSeat, Detached, Mine, session
<1>1. NobodyAhead' /\ SparesAreFresh'
  <2>1. cur <= cur
    BY SeatTypes
  <2>2. QED BY <2>1, SeatTypes DEF SlotInv, NobodyAhead, SparesAreFresh
<1>2. SeatIsTaken'
  BY Phases DEF SlotInv, SeatIsTaken
<1>3. OneTurnAtATime' /\ SlotIsOwned'
  BY Phases DEF SlotInv, OneTurnAtATime, SlotIsOwned
<1>4. ASSUME StopInv PROVE StopInv' /\ WindsDown
  <2>1. Attached'
    BY <1>4, Phases DEF StopInv, Attached
  <2>2. HandleIsMine' /\ StreamsAreStopped'
    BY <1>4, Phases DEF StopInv, HandleIsMine, StreamsAreStopped
  <2>3. CaughtIsBarred' /\ WindsDown
    BY <1>4, Phases, SeatTypes DEF StopInv, CaughtIsBarred, WindsDown
  <2>4. QED BY <2>1, <2>2, <2>3 DEF StopInv
<1>5. QED BY <1>1, <1>2, <1>3, <1>4 DEF SlotInv

(* An idle seat has no turn on it, so that one may take it.                 *)
LEMMA ReservesKeep ==
    ASSUME QueueInv, SlotInv, NEW r \in Request, NEW o \in 0..MaxTeardowns, Reserves(r, o)
    PROVE  SlotInv' /\ (StopInv => StopInv' /\ WindsDown)
<1> USE DEF Reserves, Detached, Mine, session
<1>1. o <= cur
  BY SeatTypes DEF SlotInv, NobodyAhead
<1>2. /\ \A k \in 0..MaxTeardowns : k # o => sessions'[k] = sessions[k]
      /\ \A k \in 0..MaxTeardowns : sessions'[k].state = sessions[k].state
      /\ sessions'[o].status = "running"
  BY SeatTypes DEF AiDmSessionState
<1>3. \A q \in Request \ {r} : Bystander(q)
  BY MovedFacts DEF Aside
<1>4. \A q \in Request : req[q].pc \in Turning /\ req[q].obj = o => o # cur
  BY DEF SlotInv, SeatIsTaken
<1>5. \A q \in Request :
        req[q].pc = "settling" /\ ~req[q].released /\ req[q].obj = o => o # cur
  BY DEF SlotInv, SeatIsTaken
<1>6. NobodyAhead'
  <2>1. SUFFICES ASSUME NEW q \in Request PROVE req'[q].obj <= cur
    BY DEF NobodyAhead
  <2>2. CASE q = r
    BY <1>1, <2>2
  <2>3. CASE q # r
    BY <1>3, <2>3, SeatTypes DEF SlotInv, NobodyAhead, Bystander
  <2>4. QED BY <2>2, <2>3
<1>7. SparesAreFresh'
  <2>1. \A k \in 0..MaxTeardowns : k > cur => k # o
    BY <1>1, SeatTypes
  <2>2. QED BY <1>2, <2>1 DEF SlotInv, SparesAreFresh
<1>8. SeatIsTaken'
  <2>1. CASE o = cur
    BY <1>2, <1>3, <1>5, <2>1, Phases DEF SeatIsTaken, Bystander
  <2>2. CASE o # cur
    <3>1. sessions'[cur] = sessions[cur]
      BY <1>2, <2>2, SeatTypes
    <3>2. QED BY <1>3, <2>2, <3>1 DEF SlotInv, SeatIsTaken, Bystander
  <2>3. QED BY <2>1, <2>2
<1>9. OneTurnAtATime'
  BY <1>3, <1>4 DEF SlotInv, OneTurnAtATime, Bystander
<1>10. SlotIsOwned'
  <2>1. CASE o = cur
    BY <2>1, Phases DEF SlotIsOwned
  <2>2. CASE o # cur
    <3>1. sessions'[cur] = sessions[cur]
      BY <1>2, <2>2, SeatTypes
    <3>2. \A q \in Request : req[q].pc \in Turning => q # r /\ req'[q] = req[q]
      BY <1>3, Phases DEF Bystander
    <3>3. QED BY <3>1, <3>2 DEF SlotInv, SlotIsOwned
  <2>3. QED BY <2>1, <2>2
<1>11. ASSUME StopInv PROVE StopInv' /\ WindsDown
  <2>1. o = cur
    BY <1>11 DEF StopInv, Attached
  <2>2. Attached'
    BY <1>3, <1>11, <2>1, Phases DEF StopInv, Attached, Bystander
  <2>3. HandleIsMine'
    BY <1>3, <1>11, Phases DEF StopInv, HandleIsMine, Bystander
  <2>4. StreamsAreStopped'
    BY <1>2, <1>3, <1>11, Phases, SeatTypes DEF StopInv, StreamsAreStopped, IsFrozen, Bystander
  <2>5. r \notin caught
    BY <1>11, Phases DEF StopInv, CaughtIsBarred
  <2>6. \A q \in caught : req'[q] = req[q]
    BY <1>3, <1>11, <2>5, Phases, SeatTypes DEF StopInv, CaughtIsBarred, Bystander
  <2>7. CaughtIsBarred' /\ WindsDown
    BY <1>11, <2>6 DEF StopInv, CaughtIsBarred, WindsDown
  <2>8. QED BY <2>2, <2>3, <2>4, <2>7 DEF StopInv
<1>12. QED BY <1>6, <1>7, <1>8, <1>9, <1>10, <1>11 DEF SlotInv

(* A turn's own slot is released once, a newer turn's never.                *)
LEMMA LeavesKeep ==
    ASSUME QueueInv, SlotInv, NEW r \in Request, Leaves(r)
    PROVE  SlotInv' /\ (StopInv => StopInv' /\ WindsDown)
<1> USE DEF Leaves, Detached, Mine, session
<1>1. Mine(r) \in AiDmSessionState
  BY SeatTypes
<1>2. /\ \A o \in 0..MaxTeardowns : o # req[r].obj => sessions'[o] = sessions[o]
      /\ \A o \in 0..MaxTeardowns : sessions'[o].state = sessions[o].state
      /\ \A o \in 0..MaxTeardowns :
           \/ sessions'[o].status = sessions[o].status
           \/ /\ sessions'[o].status = "idle" /\ sessions[o].status = "running"
              /\ o = req[r].obj /\ (req[r].pc = "setup" \/ ~req[r].released)
      /\ (req[r].pc = "setup" \/ ~req[r].released) => sessions'[req[r].obj].status # "running"
  <2> DEFINE mine == req[r].obj
  <2>1. mine \in 0..MaxTeardowns
    BY SeatTypes
  <2>2. CASE req[r].pc = "setup" \/ ~req[r].released
    <3> DEFINE t == SlotReleased(Mine(r))
    <3>1. sessions' = [sessions EXCEPT ![mine] = t]
      BY <2>2 DEF SaveMine
    <3>2. /\ t.state = sessions[mine].state
          /\ sessions[mine].status = "running" => t.status = "idle"
          /\ sessions[mine].status # "running" => t.status = sessions[mine].status
      BY <1>1, SlotReleasedEffect
    <3> HIDE DEF t
    <3>3. /\ \A o \in 0..MaxTeardowns : o # mine => sessions'[o] = sessions[o]
          /\ sessions'[mine] = t
      BY SeatTypes, <2>1, <3>1
    <3>4. \A o \in 0..MaxTeardowns : sessions'[o].state = sessions[o].state
      BY <3>2, <3>3
    <3>5. \A o \in 0..MaxTeardowns :
            \/ sessions'[o].status = sessions[o].status
            \/ sessions'[o].status = "idle" /\ sessions[o].status = "running" /\ o = mine
      BY <3>2, <3>3
    <3>6. sessions'[mine].status # "running"
      BY <3>2, <3>3
    <3>7. QED BY <2>2, <3>3, <3>4, <3>5, <3>6, Zenon
  <2>3. CASE ~(req[r].pc = "setup" \/ ~req[r].released)
    <3>1. sessions' = [sessions EXCEPT ![mine] = sessions[mine]]
      BY <2>3 DEF SaveMine
    <3>2. \A o \in 0..MaxTeardowns : sessions'[o] = sessions[o]
      BY SeatTypes, <2>1, <3>1
    <3>3. \A o \in 0..MaxTeardowns :
            sessions'[o].state = sessions[o].state /\ sessions'[o].status = sessions[o].status
      BY <3>2
    <3>4. QED BY <2>3, <3>2, <3>3
  <2>4. QED BY <2>2, <2>3
<1>3. \A q \in Request \ {r} : Bystander(q)
  BY MovedFacts DEF Aside
<1>4. \/ sessions'[cur].status = sessions[cur].status
      \/ req[r].pc = "setup" /\ req[r].obj = cur
  BY <1>2, SeatTypes DEF SlotInv, SeatIsTaken
<1>5. NobodyAhead'
  <2>1. SUFFICES ASSUME NEW q \in Request PROVE req'[q].obj <= cur
    BY DEF NobodyAhead
  <2>2. CASE q = r
    BY <2>2, SeatTypes
  <2>3. CASE q # r
    BY <1>3, <2>3, SeatTypes DEF SlotInv, NobodyAhead, Bystander
  <2>4. QED BY <2>2, <2>3
<1>6. SparesAreFresh'
  <2>1. \A o \in 0..MaxTeardowns : o > cur => o # req[r].obj
    BY SeatTypes DEF SlotInv, NobodyAhead
  <2>2. QED BY <1>2, <2>1 DEF SlotInv, SparesAreFresh
<1>7. SeatIsTaken'
  <2>1. SUFFICES ASSUME NEW q \in Request, req'[q].obj = cur
                 PROVE  /\ req'[q].pc \in Turning =>
                             sessions'[cur].status \in {"running", "paused"}
                        /\ req'[q].pc = "settling" /\ ~req'[q].released =>
                             sessions'[cur].status = "paused"
    BY DEF SeatIsTaken
  <2>2. CASE q = r
    BY <2>2, Phases
  <2>3. CASE q # r /\ req'[q].pc \in Turning
    <3>1. req'[q] = req[q] /\ ~(req[r].pc = "setup" /\ req[r].obj = cur)
      BY <1>3, <2>1, <2>3, Phases DEF SlotInv, OneTurnAtATime, Bystander
    <3>2. QED BY <1>4, <2>1, <2>3, <3>1, Phases DEF SlotInv, SeatIsTaken
  <2>4. CASE q # r /\ req'[q].pc = "settling" /\ ~req'[q].released
    <3>1. req'[q] = req[q]
      BY <1>3, <2>4 DEF Bystander
    <3>2. sessions[cur].status = "paused"
      BY <2>1, <2>4, <3>1 DEF SlotInv, SeatIsTaken
    <3>3. sessions'[cur].status = "paused"
      BY <1>2, <3>2, SeatTypes
    <3>4. QED BY <2>4, <3>3, Phases
  <2>5. QED BY <2>2, <2>3, <2>4
<1>8. OneTurnAtATime'
  BY <1>3, Phases DEF SlotInv, OneTurnAtATime, Bystander
<1>9. SlotIsOwned'
  <2>1. SUFFICES ASSUME sessions'[cur].status = "running"
                 PROVE  \E q \in Request : req'[q].obj = cur /\ req'[q].pc \in Turning
    BY DEF SlotIsOwned
  <2>2. sessions[cur].status = "running" /\ ~(req[r].pc = "setup" /\ req[r].obj = cur)
    BY <1>2, <2>1, SeatTypes
  <2>3. PICK q \in Request : req[q].obj = cur /\ req[q].pc \in Turning
    BY <2>2 DEF SlotInv, SlotIsOwned
  <2>4. q # r
    BY <2>2, <2>3, Phases
  <2>5. QED BY <1>3, <2>3, <2>4 DEF Bystander
<1>10. ASSUME StopInv PROVE StopInv' /\ WindsDown
  <2>1. Attached'
    BY <1>3, <1>10, Phases DEF StopInv, Attached, Bystander
  <2>2. HandleIsMine'
    BY <1>3, <1>10, Phases DEF StopInv, HandleIsMine, Bystander
  <2>3. StreamsAreStopped'
    BY <1>2, <1>3, <1>10, Phases, SeatTypes
       DEF StopInv, StreamsAreStopped, IsFrozen, Bystander
  <2>4. r \notin caught
    BY <1>10, Phases DEF StopInv, CaughtIsBarred
  <2>5. \A q \in caught : req'[q] = req[q]
    BY <1>3, <1>10, <2>4, Phases, SeatTypes DEF StopInv, CaughtIsBarred, Bystander
  <2>6. CaughtIsBarred' /\ WindsDown
    BY <1>10, <2>5 DEF StopInv, CaughtIsBarred, WindsDown
  <2>7. QED BY <2>1, <2>2, <2>3, <2>6 DEF StopInv
<1>11. QED BY <1>5, <1>6, <1>7, <1>8, <1>9, <1>10 DEF SlotInv

(* A turn whose authority is taken away has its handle stopped with it.     *)
LEMMA StoppedWithTheSeat ==
    ASSUME StopInv, CancelGeneration
    PROVE  /\ stopped \subseteq stopped'
           /\ \A r \in Request : req[r].pc \in Generating /\ req[r].obj = cur => r \in stopped'
  BY NoOneIsNoRequest DEF StopInv, HandleIsMine, CancelGeneration, NoOneIsNoRequest, Detached

(* An abort reaches the turn at work.                                       *)
LEMMA AbortsKeep ==
    ASSUME QueueInv, SlotInv, NEW freezes \in BOOLEAN, Aborts(freezes)
    PROVE  SlotInv' /\ (StopInv => StopInv' /\ WindsDown)
<1> USE DEF Detached, Mine, session
<1>1. UNCHANGED <<req, cur, gen>> /\ CancelGeneration /\ caught' = caught \cup InGeneration
  BY DEF Aborts, CancelGeneration
<1>2. /\ \A o \in 0..MaxTeardowns : o # cur => sessions'[o] = sessions[o]
      /\ sessions'[cur].status \in {sessions[cur].status, "paused"}
      /\ sessions[cur].status = "paused" => sessions'[cur].status = "paused"
  <2>1. CASE freezes
    <3>1. PICK s \in AiDmSessionState : s.status = "paused" /\ SaveCurrent(s)
      BY <2>1 DEF Aborts
    <3>2. QED BY <3>1, SeatTypes DEF SaveCurrent
  <2>2. CASE ~freezes
    BY <2>2 DEF Aborts
  <2>3. QED BY <2>1, <2>2
<1>3. NobodyAhead' /\ OneTurnAtATime'
  BY <1>1 DEF SlotInv, NobodyAhead, OneTurnAtATime
<1>4. SparesAreFresh'
  BY <1>1, <1>2, SeatTypes DEF SlotInv, SparesAreFresh
<1>5. SeatIsTaken' /\ SlotIsOwned'
  BY <1>1, <1>2 DEF SlotInv, SeatIsTaken, SlotIsOwned
<1>6. ASSUME StopInv PROVE StopInv' /\ WindsDown
  <2>1. /\ stopped \subseteq stopped'
        /\ \A r \in Request : req[r].pc \in Generating /\ req[r].obj = cur => r \in stopped'
    BY <1>1, <1>6, StoppedWithTheSeat
  <2>2. Attached' /\ HandleIsMine'
    BY <1>1, <1>6 DEF StopInv, Attached, HandleIsMine
  <2>3. StreamsAreStopped'
    <3>1. SUFFICES ASSUME NEW q \in Request, req[q].pc = "streaming", req[q].obj # cur
                   PROVE  q \in stopped'
      BY <1>1, <2>1, Phases DEF StreamsAreStopped
    <3>2. q \in stopped
      BY <1>6, <3>1 DEF StopInv, StreamsAreStopped
    <3>3. QED BY <2>1, <3>2
  <2>4. CaughtIsBarred'
    <3>1. SUFFICES ASSUME NEW q \in caught'
                   PROVE  \/ req[q].pc \in Generating /\ (q \in stopped' \/ req[q].obj # cur)
                          \/ req[q].pc = "depth" /\ req[q].ticket = "flushed"
                          \/ req[q].pc = "answered"
      BY <1>1 DEF CaughtIsBarred
    <3>2. CASE q \in caught
      BY <1>6, <2>1, <3>2 DEF StopInv, CaughtIsBarred
    <3>3. CASE q \in InGeneration
      BY <2>1, <3>3 DEF InGeneration
    <3>4. QED BY <1>1, <3>1, <3>2, <3>3
  <2>5. WindsDown
    BY <1>1 DEF WindsDown
  <2>6. QED BY <2>2, <2>3, <2>4, <2>5 DEF StopInv
<1>7. QED BY <1>3, <1>4, <1>5, <1>6 DEF SlotInv

(* A flush that keeps the session, and one that replaces it.  Nobody is in  *)
(* the new one yet; a caller still on its way to the old one may be left    *)
(* behind, unless teardowns wait for it.                                    *)
LEMMA FlushesKeep ==
    ASSUME QueueInv, SlotInv, Flushes, cur' \in 0..MaxTeardowns,
           \/ /\ cur' = cur
              /\ \E s \in AiDmSessionState :
                   s.status = "paused" /\ IsFrozen(s) /\ SaveCurrent(s)
           \/ cur' = cur + 1 /\ SaveCurrent(SlotReleased(session)) /\ Teardown
    PROVE  SlotInv' /\ (StopInv /\ "early_teardown" \notin Env => StopInv' /\ WindsDown)
<1> USE DEF Detached, Mine, session
<1>1. /\ UNCHANGED <<gen, killed>> /\ CancelGeneration
      /\ caught' = {r \in caught \cup InGeneration \cup Waiting : req'[r].pc # "answered"}
  BY DEF Flushes, CancelGeneration
<1>2. \A q \in Request :
        /\ Bystander(q)
        /\ req[q].pc = "queued" => req'[q].pc = "answered"
        /\ req[q].pc = "depth" /\ req[q].ticket = "live"
             => req'[q].pc = "depth" /\ req'[q].ticket = "flushed"
  BY MovedFacts DEF Flushes
<1>3. /\ \A o \in 0..MaxTeardowns : o # cur => sessions'[o] = sessions[o]
      /\ cur' = cur => sessions'[cur].status = "paused"
  <2>1. CASE cur' = cur + 1 /\ SaveCurrent(SlotReleased(session))
    <3>1. cur' # cur
      BY <2>1, SeatTypes
    <3>2. QED BY <2>1, <3>1, SeatTypes DEF SaveCurrent
  <2>2. CASE \E s \in AiDmSessionState : s.status = "paused" /\ SaveCurrent(s)
    BY <2>2, SeatTypes DEF SaveCurrent
  <2>3. QED BY <2>1, <2>2
<1>4. /\ cur \in Nat /\ cur <= cur'
      /\ \A q \in Request : req'[q].obj \in Nat /\ req'[q].obj <= cur
      /\ \A q \in Request : req[q].obj \in Nat /\ req[q].obj <= cur
  BY <1>2, SeatTypes DEF SlotInv, NobodyAhead, Bystander
<1>5. NobodyAhead'
  <2>1. cur' \in Nat
    BY SeatTypes
  <2>2. \A x, c, d \in Nat : x <= c /\ c <= d => x <= d
    OBVIOUS
  <2>3. QED BY <1>4, <2>1, <2>2 DEF NobodyAhead
<1>6. ASSUME cur' = cur
      PROVE  SparesAreFresh' /\ SeatIsTaken' /\ SlotIsOwned' /\ OneTurnAtATime'
  <2>1. SparesAreFresh'
    BY <1>3, <1>6, SeatTypes DEF SlotInv, SparesAreFresh
  <2>2. SeatIsTaken' /\ SlotIsOwned'
    BY <1>3, <1>6 DEF SeatIsTaken, SlotIsOwned
  <2>3. OneTurnAtATime'
    BY <1>2, <1>6 DEF SlotInv, OneTurnAtATime, Bystander
  <2>4. QED BY <2>1, <2>2, <2>3
<1>7. ASSUME cur' = cur + 1
      PROVE  /\ \A q \in Request : req'[q].obj # cur' /\ req[q].obj # cur'
             /\ SparesAreFresh' /\ SeatIsTaken' /\ SlotIsOwned' /\ OneTurnAtATime'
  <2>1. \A x, c \in Nat : x <= c => x # c + 1
    OBVIOUS
  <2>2. \A q \in Request : req'[q].obj # cur' /\ req[q].obj # cur'
    BY <1>4, <1>7, <2>1
  <2>3. SparesAreFresh' /\ sessions'[cur'] = FreshSession
    BY <1>3, <1>7, SeatTypes DEF SlotInv, SparesAreFresh
  <2>4. SeatIsTaken' /\ SlotIsOwned' /\ OneTurnAtATime'
    BY <2>2, <2>3, FreshTyped DEF SeatIsTaken, SlotIsOwned, OneTurnAtATime
  <2>5. QED BY <2>2, <2>3, <2>4
<1>8. ASSUME StopInv, "early_teardown" \notin Env PROVE StopInv' /\ WindsDown
  <2>1. /\ stopped \subseteq stopped'
        /\ \A r \in Request : req[r].pc \in Generating /\ req[r].obj = cur => r \in stopped'
    BY <1>1, <1>8, StoppedWithTheSeat
  <2>2. Attached' /\ HandleIsMine'
    <3>1. CASE cur' = cur
      BY <1>1, <1>2, <1>8, <3>1, Phases DEF StopInv, Attached, HandleIsMine, Bystander
    <3>2. CASE cur' = cur + 1 /\ Teardown
      <4>1. \A q \in Request : req[q].pc \notin {"depth", "setup"}
        BY <1>8, <3>2 DEF Teardown
      <4>2. \A q \in Request : req'[q].pc \notin {"depth", "setup"}
        BY <1>2, <4>1, Phases DEF Bystander
      <4>3. QED BY <1>7, <3>2, <4>2 DEF Attached, HandleIsMine
    <3>3. QED BY <3>1, <3>2
  <2>3. StreamsAreStopped'
    <3>1. SUFFICES ASSUME NEW q \in Request, req'[q].pc = "streaming"
                   PROVE  \/ q \in stopped'
                          \/ ~(\/ IsFrozen(sessions'[req'[q].obj]) \/ killed'
                               \/ req'[q].obj # cur')
      BY DEF StreamsAreStopped
    <3>2. req[q].pc = "streaming" /\ req'[q] = req[q]
      BY <1>2, <3>1, Phases DEF Bystander
    <3>3. CASE req[q].obj = cur
      BY <2>1, <3>2, <3>3, Phases
    <3>4. CASE req[q].obj # cur
      BY <1>8, <2>1, <3>2, <3>4 DEF StopInv, StreamsAreStopped
    <3>5. QED BY <3>3, <3>4
  <2>4. \A q \in Request : req[q].obj # cur => req[q].obj # cur'
    BY <1>7
  <2>5. CaughtIsBarred'
    <3>1. SUFFICES ASSUME NEW q \in caught'
                   PROVE  \/ req'[q].pc \in Generating /\ (q \in stopped' \/ req'[q].obj # cur')
                          \/ req'[q].pc = "depth" /\ req'[q].ticket = "flushed"
                          \/ req'[q].pc = "answered"
      BY DEF CaughtIsBarred
    <3>2. CASE q \in caught
      <4>1. /\ q \in Request
            /\ \/ req[q].pc \in Generating /\ (q \in stopped \/ req[q].obj # cur)
               \/ req[q].pc = "depth" /\ req[q].ticket = "flushed"
               \/ req[q].pc = "answered"
        BY <1>8, <3>2, SeatTypes DEF StopInv, CaughtIsBarred
      <4>2. req'[q] = req[q]
        BY <1>2, <4>1, Phases DEF Bystander
      <4>3. QED BY <2>1, <2>4, <4>1, <4>2
    <3>3. CASE q \in InGeneration
      <4>1. q \in Request /\ req[q].pc \in Generating /\ req'[q] = req[q]
        BY <1>2, <3>3, Phases DEF InGeneration, Bystander
      <4>2. QED BY <2>1, <2>4, <4>1
    <3>4. CASE q \in Waiting
      BY <1>2, <3>4 DEF Waiting
    <3>5. QED BY <1>1, <3>2, <3>3, <3>4
  <2>6. WindsDown
    <3>1. SUFFICES ASSUME NEW q \in caught PROVE req'[q] = req[q]
      BY DEF WindsDown
    <3>2. /\ q \in Request
          /\ \/ req[q].pc \in Generating
             \/ req[q].pc = "depth" /\ req[q].ticket = "flushed"
             \/ req[q].pc = "answered"
      BY <1>8, SeatTypes DEF StopInv, CaughtIsBarred
    <3>3. QED BY <1>2, <3>2, Phases DEF Bystander
  <2>7. QED BY <2>2, <2>3, <2>5, <2>6 DEF StopInv
<1>9. QED BY <1>5, <1>6, <1>7, <1>8 DEF SlotInv

(* The quiet levers; only giving the seat back asks that no turn is on it.  *)
LEMMA QuietKeep ==
    ASSUME QueueInv, SlotInv, "early_resume" \notin Env,
           Thaws \/ Flips \/ \E r \in Request : Trips(r)
    PROVE  SlotInv' /\ (StopInv => StopInv' /\ WindsDown)
<1> USE DEF Detached, Mine, session
<1>1. UNCHANGED <<req, cur, gen, stopped, caught>> /\ (killed' => killed)
  <2>1. UNCHANGED <<req, cur, gen, stopped, caught>> /\ killed' \in {killed, FALSE}
    BY DEF Thaws, Flips, Trips
  <2>2. killed' => killed
    BY <2>1, Zenon
  <2>3. QED BY <2>1, <2>2
<1>2. NobodyAhead' /\ OneTurnAtATime'
  BY <1>1 DEF SlotInv, NobodyAhead, OneTurnAtATime
<1>3. ASSUME StopInv PROVE WindsDown /\ Attached' /\ HandleIsMine' /\ CaughtIsBarred'
  BY <1>1, <1>3 DEF StopInv, WindsDown, Attached, HandleIsMine, CaughtIsBarred
<1>4. CASE Flips
  <2>1. UNCHANGED sessions
    BY <1>4 DEF Flips
  <2>2. SparesAreFresh' /\ SeatIsTaken' /\ SlotIsOwned'
    BY <1>1, <2>1 DEF SlotInv, SparesAreFresh, SeatIsTaken, SlotIsOwned
  <2>3. StopInv => StreamsAreStopped'
    BY <1>1, <2>1 DEF StopInv, StreamsAreStopped
  <2>4. QED BY <1>2, <1>3, <2>2, <2>3 DEF SlotInv, StopInv
<1>5. CASE Thaws
  <2>1. PICK s \in AiDmSessionState : s.status = "idle" /\ SaveCurrent(s)
    BY <1>5 DEF Thaws
  <2>2. /\ sessions'[cur].status = "idle"
        /\ \A o \in 0..MaxTeardowns : o # cur => sessions'[o] = sessions[o]
    BY <2>1, SeatTypes DEF SaveCurrent
  <2>3. \A q \in Request : req[q].pc \in Turning \cup {"settling"} => req[q].obj # cur
    BY <1>5 DEF Thaws, InFlight
  <2>4. SparesAreFresh' /\ SeatIsTaken' /\ SlotIsOwned'
    BY <1>1, <2>2, <2>3, SeatTypes DEF SlotInv, SparesAreFresh, SeatIsTaken, SlotIsOwned
  <2>5. StopInv => StreamsAreStopped'
    BY <1>1, <2>2, <2>3, Phases, SeatTypes DEF StopInv, StreamsAreStopped
  <2>6. QED BY <1>2, <1>3, <2>4, <2>5 DEF SlotInv, StopInv
<1>6. CASE \E r \in Request : Trips(r)
  <2>1. PICK r \in Request : Trips(r)
    BY <1>6
  <2>2. PICK s \in AiDmSessionState : s.status = "paused" /\ SaveMine(r, s)
    BY <2>1 DEF Trips
  <2>3. req[r].pc = "tools" /\ req[r].obj = cur
    BY <2>1 DEF Trips, Authorized
  <2>4. /\ sessions'[cur].status = "paused"
        /\ \A o \in 0..MaxTeardowns : o # cur => sessions'[o] = sessions[o]
    BY <2>2, <2>3, SeatTypes DEF SaveMine
  <2>5. SparesAreFresh' /\ SeatIsTaken' /\ SlotIsOwned'
    BY <1>1, <2>4, SeatTypes DEF SlotInv, SparesAreFresh, SeatIsTaken, SlotIsOwned
  <2>6. \A q \in Request : req[q].pc = "streaming" => req[q].obj # cur
    BY <2>3, Phases DEF SlotInv, OneTurnAtATime
  <2>7. StopInv => StreamsAreStopped'
    BY <1>1, <2>4, <2>6, SeatTypes DEF StopInv, StreamsAreStopped
  <2>8. QED BY <1>2, <1>3, <2>5, <2>7 DEF SlotInv, StopInv
<1>7. QED BY <1>4, <1>5, <1>6

-----------------------------------------------------------------------------
(* The invariant, in three layers, and the theorems.                        *)

(* The initial state.                                                       *)
LEMMA InitKeeps == Init => QueueInv /\ SlotInv /\ StopInv
<1> SUFFICES ASSUME Init PROVE QueueInv /\ SlotInv /\ StopInv
  OBVIOUS
<1>1. NewRequest \in RequestRecord /\ NewRequest.pc = "new" /\ NewRequest.obj = 0
  <2>1. 0 \in 0..MaxTeardowns /\ 0 \in 0..MaxSteps /\ 0 \in 0..MaxAttempts
    BY BoundsAreNat
  <2>2. QED BY <2>1 DEF NewRequest, RequestRecord
<1>2. \A r \in Request : req[r] = NewRequest
  BY DEF Init
<1>3. Typed(req)
  BY <1>1, <1>2 DEF Init, Typed
<1>4. Holds(queue, req)
  <2>1. queue \in Seq(Request) /\ Len(queue) = 0
    BY EmptySeq DEF Init
  <2>2. 1..Len(queue) = {} /\ Len(queue) <= MaxDepth
    BY <2>1, BoundsAreNat
  <2>3. QED BY <1>1, <1>2, <2>1, <2>2, MembersAreArray, Zenon
<1>5. RestTyped
  <2>1. 0 \in 0..MaxTeardowns
    BY BoundsAreNat
  <2>2. QED BY <2>1, FreshTyped DEF Init, RestTyped
<1>6. \A r \in Request : req[r].pc = "new" /\ req[r].obj = 0
  BY <1>1, <1>2
<1>7. cur = 0 /\ sessions = [o \in 0..MaxTeardowns |-> FreshSession] /\ caught = {}
  BY DEF Init
<1>8. NobodyAhead /\ Attached
  BY <1>6, <1>7 DEF NobodyAhead, Attached
<1>9. SparesAreFresh /\ session.status = "idle"
  BY <1>5, <1>7, FreshTyped DEF SparesAreFresh, session, RestTyped
<1>10. SeatIsTaken /\ OneTurnAtATime /\ SlotIsOwned
  BY <1>6, <1>9, Phases DEF SeatIsTaken, OneTurnAtATime, SlotIsOwned
<1>11. HandleIsMine /\ StreamsAreStopped /\ CaughtIsBarred
  BY <1>6, <1>7, Phases DEF HandleIsMine, StreamsAreStopped, CaughtIsBarred
<1>12. QED BY <1>3, <1>4, <1>5, <1>8, <1>9, <1>10, <1>11, TypedTable DEF SlotInv, StopInv

(* What a step keeps: the types and the queue, whatever happens; the slot,  *)
(* if no seat is given back under a turn; the stops, if moreover no seat is *)
(* torn down under a caller on its way to it.                               *)
Kept ==
    /\ QueueInv'
    /\ SlotInv /\ "early_resume" \notin Env =>
         /\ SlotInv'
         /\ StopInv /\ "early_teardown" \notin Env => StopInv' /\ WindsDown

(* Every step.                                                              *)
LEMMA NextKeeps == ASSUME QueueInv, [Next]_vars PROVE Kept
<1>1. ASSUME NEW r \in Request, Arrive(r) \/ Continue(r) PROVE Kept
  <2>1. CASE Arrive(r)
    BY <2>1, ArriveSteps, KnocksKeep DEF Kept
  <2>2. CASE Admit(r)
    BY <2>2, AdmitSteps, KnocksKeep, ReservesKeep DEF Kept
  <2>3. CASE Enqueue(r)
    BY <2>3, EnqueueSteps, KnocksKeep, ReservesKeep DEF Kept
  <2>4. CASE FailSetup(r) \/ Settle(r)
    BY <2>4, LeaveSteps, LeavesKeep DEF Kept
  <2>5. CASE BeginGeneration(r)
    BY <2>5, BeginSteps, BeginsKeep DEF Kept
  <2>6. CASE Finish(r)
    BY <2>6, FinishSteps, EndsKeep DEF Kept
  <2>7. CASE \/ BeginStep(r) \/ OpenStream(r) \/ CloseStream(r) \/ Retry(r)
             \/ RunTool(r) \/ StopTools(r)
    BY <2>7, LoopSteps, LoopsKeep DEF Kept
  <2>8. QED BY <1>1, <2>1, <2>2, <2>3, <2>4, <2>5, <2>6, <2>7 DEF Continue
<1>2. ASSUME \/ Pause \/ \E m \in Member : GrantTakeover(m)
             \/ SetKillSwitch(TRUE)
      PROVE  Kept
  BY <1>2, AbortSteps, AbortsKeep DEF Kept
<1>3. ASSUME RaiseHold \/ Teardown PROVE Kept
  <2>1. /\ Flushes /\ QueueInv'
        /\ \/ /\ cur' = cur
              /\ \E s \in AiDmSessionState :
                   s.status = "paused" /\ IsFrozen(s) /\ SaveCurrent(s)
           \/ cur' = cur + 1 /\ SaveCurrent(SlotReleased(session)) /\ Teardown
    BY <1>3, FlushSteps
  <2>2. cur' \in 0..MaxTeardowns
    BY <2>1, TypedTablePrimed DEF RestTyped
  <2>3. QED BY <2>1, <2>2, FlushesKeep DEF Kept
<1>4. ASSUME \/ Resume \/ Handback \/ \E r \in Request : EmergencyPause(r)
             \/ ReleaseHold \/ Rearm \/ Refill \/ SetKillSwitch(FALSE)
      PROVE  Kept
  BY <1>4, QuietSteps, QuietKeep DEF Kept
<1>5. CASE UNCHANGED vars
  <2>1. Flips
    BY <1>5 DEF Flips, vars
  <2>2. QueueInv'
    BY <1>5 DEF vars, QueueInv, TypeOK, RetriesLeft, NoCallerOrphaned
  <2>3. QED BY <2>1, <2>2, QuietKeep DEF Kept
<1>6. CASE Next
  <2>1. CASE \E r \in Request : Arrive(r) \/ Continue(r) \/ EmergencyPause(r)
    BY <1>1, <1>4, <2>1
  <2>2. CASE \/ Pause \/ Resume \/ Handback \/ \E m \in Member : GrantTakeover(m)
             \/ RaiseHold \/ ReleaseHold \/ Teardown \/ Rearm \/ Refill
    BY <1>2, <1>3, <1>4, <2>2
  <2>3. CASE \E off \in BOOLEAN : SetKillSwitch(off)
    BY <1>2, <1>4, <2>3
  <2>4. QED BY <1>6, <2>1, <2>2, <2>3 DEF Next
<1>7. QED BY <1>5, <1>6

(* The three layers, as invariants of the specification.                    *)
LEMMA QueueInvariant == Spec => []QueueInv
<1>1. QueueInv /\ [Next]_vars => QueueInv'
  BY NextKeeps DEF Kept
<1>2. QED BY <1>1, InitKeeps, PTL DEF Spec

(* The slot, if no seat is given back under a turn.                         *)
LEMMA SlotInvariant == ASSUME "early_resume" \notin Env PROVE Spec => []SlotInv
<1>1. QueueInv /\ SlotInv /\ [Next]_vars => SlotInv'
  BY NextKeeps DEF Kept
<1>2. QED BY <1>1, InitKeeps, QueueInvariant, PTL DEF Spec

(* The stops, if moreover no seat is torn down under a caller.              *)
LEMMA StopInvariant ==
    ASSUME "early_resume" \notin Env, "early_teardown" \notin Env PROVE Spec => []StopInv
<1>1. QueueInv /\ SlotInv /\ StopInv /\ [Next]_vars => StopInv'
  BY NextKeeps DEF Kept
<1>2. QED BY <1>1, InitKeeps, QueueInvariant, SlotInvariant, PTL DEF Spec

(* Every variable keeps its type; in particular the action queue never      *)
(* grows past actionQueueDepth.                                             *)
THEOREM TypeCorrect == Spec => []TypeOK
<1>1. QueueInv => TypeOK
  BY DEF QueueInv
<1>2. QED BY <1>1, QueueInvariant, PTL

(* A caller that waits on its queue entry is in the installed queue, once,  *)
(* whatever levers are pulled and whenever: no flush, drain or re-check     *)
(* after getActionQueueDepth strands one in an array nobody drains.         *)
THEOREM NobodyIsStranded == Spec => []NoCallerOrphaned
<1>1. QueueInv => NoCallerOrphaned
  BY DEF QueueInv
<1>2. QED BY <1>1, QueueInvariant, PTL

(* Two turns never run on one session, however often the seat is torn down, *)
(* held, paused or killed, as long as it is not given back under a turn     *)
(* that still unwinds.                                                      *)
THEOREM TurnsTakeTurns ==
    ASSUME "early_resume" \notin Env PROVE Spec => []OneTurnAtATime
<1>1. SlotInv => OneTurnAtATime
  BY DEF SlotInv
<1>2. QED BY <1>1, SlotInvariant, PTL

(* Under the same condition a slot that reads "running" has a turn that     *)
(* will give it back: no error path or stop control leaks the slot.         *)
THEOREM NoSlotIsLeaked ==
    ASSUME "early_resume" \notin Env PROVE Spec => []SlotIsOwned
<1>1. SlotInv => SlotIsOwned
  BY DEF SlotInv
<1>2. QED BY <1>1, SlotInvariant, PTL

(* No provider stream outlives the authority of its turn: the handle that a *)
(* stop control aborts is that of the turn at work.                         *)
THEOREM StreamsObeyStops ==
    ASSUME "early_resume" \notin Env, "early_teardown" \notin Env
    PROVE  Spec => []StreamsAreStopped
<1>1. StopInv => StreamsAreStopped
  BY DEF StopInv
<1>2. QED BY <1>1, StopInvariant, PTL

(* What a stop control has caught only winds down, even if the seat is      *)
(* resumed, or the kill switch flipped back, at once.                       *)
THEOREM StopsAreFinal ==
    ASSUME "early_resume" \notin Env, "early_teardown" \notin Env
    PROVE  Spec => StopIsFinal
<1>1. QueueInv /\ SlotInv /\ StopInv /\ [Next]_vars =>
        [\A r \in caught :
           req'[r].pc # req[r].pc =>
             req'[r].pc \in {"finishing", "settling", "answered"}]_vars
  BY NextKeeps DEF Kept, WindsDown
<1>2. QED
  BY <1>1, QueueInvariant, SlotInvariant, StopInvariant, PTL DEF Spec, StopIsFinal
==============================================================================
