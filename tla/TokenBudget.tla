----------------------------- MODULE TokenBudget -----------------------------
(***************************************************************************)
(* The token budget of the AI seats and the provider calls that spend it   *)
(* (ai-dm.service.ts; its callers in ai-driver, scribe and co-dm).         *)
(*                                                                         *)
(* A call reserves the most it may spend, contacts the provider, and then  *)
(* settles: metered at its measured cost, or its whole hold consumed as    *)
(* unknown.  Driver steps and scribe runs do this inside the campaign's    *)
(* spend lock; a co-DM draft and a narrated turn do not.  The seat rows    *)
(* are durable, the calls and the lock are not.                            *)
(*                                                                         *)
(* Each action is one database transaction or the code between two awaits. *)
(* A seat that is switched off refuses holds like one with no budget; the  *)
(* gates read before reserving refuse earlier what the reservation refuses *)
(* again.  Audit and history rows are left out, but not the exception a    *)
(* failing audit row raises.                                               *)
(***************************************************************************)
EXTENDS Integers, FiniteSets, Functions

CONSTANTS
    Campaign,
    Driver,         \* calls of driver steps: in the lock
    Scribe,         \* calls of scribe runs: in the lock, one more fallback
    Direct,         \* narrated turns and co-DM drafts: no lock
    NoOne,          \* no predecessor in the lock
    Budgets,        \* budgets a DM or an admin may set
    Caps,           \* server-wide caps, 0 for none
    MaxRequest,     \* bound: tokens one call asks for
    MaxCost,        \* bound: tokens one call may turn out to have cost
    MaxCrashes,     \* bound: process deaths
    MaxMoves,       \* bound: budgets and caps set, counters reset
    Env             \* what may go wrong: "db_fails", "early_reset"

Spender == Driver \cup Scribe \cup Direct
Locking == Driver \cup Scribe

ASSUME NoOneIsNoSpender == NoOne \notin Spender
ASSUME CallsAreFinite == IsFiniteSet(Spender) /\ IsFiniteSet(Campaign)
ASSUME KindsDiffer == Locking \cap Direct = {}
ASSUME AmountsAreNat ==
    /\ Budgets \subseteq Nat /\ Caps \subseteq Nat
    /\ MaxRequest \in Nat \ {0} /\ MaxCost \in Nat /\ MaxCrashes \in Nat
    /\ MaxMoves \in Nat

VARIABLES
    seat,           \* Campaign -> its ai_dm_seats row
    cap,            \* settings.aiServerTokenCap
    call,           \* Spender -> its place
    tail,           \* spendLockTails: Campaign -> last call to join
    up,             \* the process has booted and reclaimed
    crashes, moves,
    arrivals,       \* ghost: how many calls have joined a lock
    granted,        \* ghost: Campaign -> highest budget since the counters were zero
    ceiling         \* ghost: highest cap so far, 0 once there was none
                    \* (a call's `place' and `owes' are ghosts too: its order of
                    \* arrival, and what it is on the seat's books for)

vars == <<seat, cap, call, tail, up, crashes, moves, arrivals,
          granted, ceiling>>

NewCall ==
    [pc |-> "new", campaign |-> NoOne, pred |-> NoOne, place |-> 0, hold |-> 0,
     cost |-> 0, settled |-> TRUE, retries |-> 0, owes |-> 0]

(* Joined and not yet out of the lock, or (Direct) busy.                    *)
Inside == {"ready", "calling", "metering", "unknown", "leaving"}
Active == {"waiting"} \cup Inside

TypeOK ==
    /\ seat \in [Campaign -> [budget : Nat, used : Nat, reserved : Nat,
                              unknown : Nat, overage : Nat]]
    /\ cap \in Nat
    /\ call \in [Spender ->
         [pc : {"new", "done", "dead"} \cup Active,
          campaign : Campaign \cup {NoOne}, pred : Spender \cup {NoOne},
          place : Nat, hold : Nat, cost : Nat, settled : BOOLEAN,
          retries : 0..1, owes : Nat]]
    /\ tail \in [Campaign -> Spender \cup {NoOne}]
    /\ up \in BOOLEAN /\ crashes \in 0..MaxCrashes /\ moves \in 0..MaxMoves
    /\ arrivals \in Nat
    /\ granted \in [Campaign -> Nat] /\ ceiling \in Nat

Init ==
    /\ \E budget \in [Campaign -> Budgets] :
         /\ seat = [c \in Campaign |-> [budget |-> budget[c], used |-> 0,
                                        reserved |-> 0, unknown |-> 0, overage |-> 0]]
         /\ granted = budget
    /\ cap \in Caps /\ ceiling = cap
    /\ call = [s \in Spender |-> NewCall] /\ tail = [c \in Campaign |-> NoOne]
    /\ up = TRUE /\ crashes = 0 /\ moves = 0 /\ arrivals = 0

-----------------------------------------------------------------------------
Clamped(n) == IF n < 0 THEN 0 ELSE n
Least(a, b) == IF a <= b THEN a ELSE b

Committed(row) == row.used + row.reserved + row.unknown

(* Mutant: spend nobody could measure does not count.                       *)
BudgetRemainingMeasured(row) == Clamped(row.budget - row.used - row.reserved)

BudgetRemainingFor(row) == Clamped(row.budget - Committed(row))

TotalCommitted ==
    SumFunctionOnSet([c \in Campaign |-> Committed(seat[c])], Campaign)

Goto(s, pc) == call' = [call EXCEPT ![s].pc = pc]
KeepLedger == UNCHANGED <<seat, granted>>
KeepLock == UNCHANGED <<tail, arrivals>>
KeepServer == UNCHANGED <<cap, up, crashes, moves, ceiling>>

-----------------------------------------------------------------------------
(* withSpendLock: a chain of promises, the map holding the last of them.    *)

Join(s, c) ==
    /\ up /\ call[s].pc = "new" /\ s \in Locking
    /\ call' = [call EXCEPT ![s] =
                  [@ EXCEPT !.pc = "waiting", !.campaign = c, !.pred = tail[c],
                            !.place = arrivals + 1]]
    /\ tail' = [tail EXCEPT ![c] = s] /\ arrivals' = arrivals + 1
    /\ KeepLedger /\ KeepServer

(* A call that takes no lock.                                               *)
Begin(s, c) ==
    /\ up /\ call[s].pc = "new" /\ s \in Direct
    /\ call' = [call EXCEPT ![s] = [@ EXCEPT !.pc = "ready", !.campaign = c]]
    /\ KeepLedger /\ KeepLock /\ KeepServer

(* Mutant: only a call that spent something releases the lock.              *)
ReleasedAfterSpending(p) ==
    p # NoOne => call[p].pc = "done" /\ call[p].owes > 0

(* The predecessor's tail promise has resolved.                             *)
Released(p) == p # NoOne => call[p].pc = "done"

(* The owner looks at the budget again before anything else; a driver step  *)
(* also asks whether it was stopped while it waited.                        *)
Enter(s) ==
    LET remaining == BudgetRemainingFor(seat[call[s].campaign])
    IN  /\ call[s].pc = "waiting" /\ Released(call[s].pred)
        /\ \E pc \in {"ready", "leaving"} :
             /\ pc = "ready" => remaining > 0
             /\ pc = "leaving" => remaining = 0 \/ s \in Driver
             /\ call' = [call EXCEPT ![s] = [@ EXCEPT !.pc = pc, !.pred = NoOne]]
        /\ KeepLedger /\ KeepLock /\ KeepServer

(* A call that is over, and what it never settled.                          *)
Over(s, pc) ==
    [call[s] EXCEPT !.pc = pc, !.pred = NoOne, !.cost = 0,
                    !.hold = IF call[s].settled THEN 0 ELSE @]

(* Mutant: whoever leaves clears the map entry.                             *)
LeaveClearing(s) ==
    /\ call[s].pc = "leaving" /\ call' = [call EXCEPT ![s] = Over(s, "done")]
    /\ tail' = [tail EXCEPT ![call[s].campaign] = NoOne]
    /\ KeepLedger /\ KeepServer /\ UNCHANGED arrivals

Leave(s) ==
    /\ call[s].pc = "leaving" /\ call' = [call EXCEPT ![s] = Over(s, "done")]
    /\ tail' = [tail EXCEPT ![call[s].campaign] = IF @ = s THEN NoOne ELSE @]
    /\ KeepLedger /\ KeepServer /\ UNCHANGED arrivals

-----------------------------------------------------------------------------
(* Reserving, spending and settling.                                        *)

(* Mutant: each campaign is held against the server's cap on its own.       *)
ServerAvailableAlone(c) ==
    IF cap = 0 THEN MaxRequest ELSE Clamped(cap - Committed(seat[c]))

(* What the server-wide cap leaves.  MaxRequest stands for infinity.        *)
ServerAvailable(c) ==
    IF cap = 0 THEN MaxRequest ELSE Clamped(cap - TotalCommitted)

(* reserveTokenBudget, one transaction.                                     *)
Reserve(s) ==
    LET c == call[s].campaign
        available == Least(BudgetRemainingFor(seat[c]), ServerAvailable(c))
    IN  /\ call[s].pc = "ready"
        /\ \E requested \in 1..MaxRequest, hold \in 0..MaxRequest :
             /\ hold = Least(requested, available)
             /\ \/ hold = 0 /\ Goto(s, "leaving") /\ UNCHANGED seat
                \/ /\ hold > 0
                   /\ call' = [call EXCEPT ![s] =
                                 [@ EXCEPT !.pc = "calling", !.hold = hold,
                                           !.settled = FALSE, !.owes = hold]]
                   /\ seat' = [seat EXCEPT ![c].reserved = @ + hold]
        /\ KeepLock /\ KeepServer /\ UNCHANGED granted

(* The provider reports usage, or throws or reports nothing measurable.     *)
Answer(s) ==
    /\ call[s].pc = "calling"
    /\ \/ \E n \in 0..MaxCost :
            call' = [call EXCEPT ![s] = [@ EXCEPT !.pc = "metering", !.cost = n]]
       \/ Goto(s, "unknown")
    /\ KeepLedger /\ KeepLock /\ KeepServer

Overage(hold, cost) == Clamped(cost - hold)

(* Mutant: only what was used comes off the reservation.                    *)
MeteredByCost(row, hold, cost) ==
    [row EXCEPT !.reserved = Clamped(@ - cost), !.used = @ + cost,
                !.overage = @ + Overage(hold, cost)]

Metered(row, hold, cost) ==
    [row EXCEPT !.reserved = Clamped(@ - hold), !.used = @ + cost,
                !.overage = @ + Overage(hold, cost)]

(* What is left to try when metering throws.                                *)
Fallbacks(s) == IF s \in Scribe THEN {"unknown"} ELSE {}

(* meterTurn.  Its transaction commits; the audit row after it may throw,   *)
(* which sends a scribe run into one more, idempotent, settlement.          *)
MeterTurn(s) ==
    LET c == call[s].campaign
    IN  /\ call[s].pc = "metering"
        /\ seat' = [seat EXCEPT ![c] = Metered(@, call[s].hold, call[s].cost)]
        /\ \E pc \in {"leaving"} \cup Fallbacks(s) :
             call' = [call EXCEPT ![s] = [@ EXCEPT !.pc = pc, !.settled = TRUE,
                                                   !.cost = 0, !.owes = call[s].cost]]
        /\ KeepLock /\ KeepServer /\ UNCHANGED granted

(* Its transaction throws: the hold is consumed as unknown instead.         *)
MeterFails(s) ==
    /\ call[s].pc = "metering" /\ "db_fails" \in Env
    /\ call' = [call EXCEPT ![s] =
                  [@ EXCEPT !.pc = "unknown", !.cost = 0,
                            !.retries = IF s \in Scribe THEN 1 ELSE 0]]
    /\ KeepLedger /\ KeepLock /\ KeepServer

AsUnknown(row, hold) ==
    [row EXCEPT !.reserved = Clamped(@ - hold), !.unknown = @ + hold]

(* Mutant: a fallback does not ask whether the hold was released already.   *)
MarkUnknownAgain(s) ==
    LET c == call[s].campaign
    IN  /\ call[s].pc = "unknown"
        /\ seat' = [seat EXCEPT ![c] = AsUnknown(@, call[s].hold)]
        /\ call' = [call EXCEPT ![s] = [@ EXCEPT !.pc = "leaving", !.settled = TRUE]]
        /\ KeepLock /\ KeepServer /\ UNCHANGED granted

(* markReservationUsageUnknown.                                             *)
MarkUnknown(s) ==
    LET c == call[s].campaign
    IN  /\ call[s].pc = "unknown"
        /\ seat' = IF call[s].settled THEN seat
                   ELSE [seat EXCEPT ![c] = AsUnknown(@, call[s].hold)]
        /\ call' = [call EXCEPT ![s] = [@ EXCEPT !.pc = "leaving", !.settled = TRUE]]
        /\ KeepLock /\ KeepServer /\ UNCHANGED granted

(* That transaction throws too: try again if anyone will, or strand it.     *)
MarkFails(s) ==
    /\ call[s].pc = "unknown" /\ ~call[s].settled /\ "db_fails" \in Env
    /\ IF call[s].retries > 0
       THEN call' = [call EXCEPT ![s].retries = @ - 1]
       ELSE Goto(s, "leaving")
    /\ KeepLedger /\ KeepLock /\ KeepServer

-----------------------------------------------------------------------------
(* People.                                                                  *)

Move == up /\ moves < MaxMoves /\ moves' = moves + 1

SetBudget(c, n) ==
    /\ Move /\ seat[c].budget # n
    /\ seat' = [seat EXCEPT ![c].budget = n]
    /\ granted' = [granted EXCEPT ![c] = IF n > @ THEN n ELSE @]
    /\ KeepLock /\ UNCHANGED <<cap, call, up, crashes, ceiling>>

SetCap(n) ==
    /\ Move /\ cap # n /\ cap' = n
    /\ ceiling' = IF 0 \in {n, ceiling} THEN 0 ELSE IF n > ceiling THEN n ELSE ceiling
    /\ KeepLedger /\ KeepLock /\ UNCHANGED <<call, up, crashes>>

InFlight(c) ==
    {s \in Spender : call[s].campaign = c /\ ~call[s].settled /\ call[s].pc \in Active}

(* Every counter is zeroed, the reservations of calls in flight with them.  *)
ResetUsage(c) ==
    /\ Move /\ Committed(seat[c]) > 0
    /\ InFlight(c) # {} => "early_reset" \in Env
    /\ seat' = [seat EXCEPT ![c] = [@ EXCEPT !.used = 0, !.reserved = 0,
                                             !.unknown = 0, !.overage = 0]]
    /\ granted' = [granted EXCEPT ![c] = seat[c].budget]
    /\ call' = [s \in Spender |->
                  IF call[s].campaign # c THEN call[s]
                  ELSE [call[s] EXCEPT !.owes = 0, !.settled = @ \/ call[s].pc = "done"]]
    /\ KeepLock /\ UNCHANGED <<cap, up, crashes, ceiling>>

-----------------------------------------------------------------------------
(* Death and restart.                                                       *)

Crash ==
    /\ crashes < MaxCrashes /\ crashes' = crashes + 1
    /\ up' = FALSE
    /\ call' = [s \in Spender |->
                  IF call[s].pc \in Active THEN Over(s, "dead") ELSE call[s]]
    /\ tail' = [c \in Campaign |-> NoOne]
    /\ UNCHANGED <<seat, cap, moves, arrivals, granted, ceiling>>

(* reclaimStaleReservations, before the server listens again.               *)
Reclaim ==
    /\ ~up /\ up' = TRUE
    /\ seat' = [c \in Campaign |-> AsUnknown(seat[c], seat[c].reserved)]
    /\ call' = [s \in Spender |-> [call[s] EXCEPT !.settled = TRUE, !.hold = 0]]
    /\ UNCHANGED <<cap, tail, crashes, moves, arrivals, granted, ceiling>>

-----------------------------------------------------------------------------
Continue(s) ==
    \/ Enter(s) \/ Leave(s) \/ Reserve(s) \/ Answer(s)
    \/ MeterTurn(s) \/ MeterFails(s) \/ MarkUnknown(s) \/ MarkFails(s)

Next ==
    \/ \E s \in Spender : \/ \E c \in Campaign : Join(s, c) \/ Begin(s, c)
                          \/ Continue(s)
    \/ \E c \in Campaign : ResetUsage(c) \/ \E n \in Budgets : SetBudget(c, n)
    \/ \E n \in Caps : SetCap(n)
    \/ Crash \/ Reclaim

Spec == Init /\ [][Next]_vars

(* Every await of a call settles.                                           *)
FairSpec == Spec /\ (\A s \in Spender : WF_vars(Continue(s))) /\ WF_vars(Reclaim)

-----------------------------------------------------------------------------
(* Properties.                                                              *)

(* What a seat has reserved is what its unsettled calls hold: no hold is    *)
(* released twice, released in part, or forgotten short of a restart.       *)
HoldsAreReserved ==
    \A c \in Campaign :
      seat[c].reserved =
        SumFunctionOnSet([s \in Spender |-> call[s].hold],
                         {s \in Spender : call[s].campaign = c /\ ~call[s].settled})

(* Every call is on the books exactly once: at its hold while it runs, at   *)
(* its cost once measured, at its whole hold if it could not be measured or *)
(* the process died under it, whichever of the settlements failed.          *)
EveryCallCountsOnce ==
    \A c \in Campaign :
      Committed(seat[c]) =
        SumFunctionOnSet([s \in Spender |-> call[s].owes],
                         {s \in Spender : call[s].campaign = c})

(* A seat commits no more than the highest budget it was granted, and what  *)
(* calls measurably cost beyond their holds.                                *)
WithinBudget ==
    \A c \in Campaign : Committed(seat[c]) <= granted[c] + seat[c].overage

(* The same for all seats together under the server-wide cap.               *)
WithinCap ==
    ceiling > 0 =>
      TotalCommitted <=
        ceiling + SumFunctionOnSet([c \in Campaign |-> seat[c].overage], Campaign)

(* The lock has one owner, the first to come of those still in or waiting.  *)
FirstComeFirstServed ==
    \A s, q \in Locking :
      /\ s # q /\ call[s].campaign = call[q].campaign
      /\ call[s].pc \in Inside /\ call[q].pc \in Active
      => call[s].place < call[q].place

(* Nobody who joined waits for ever, whatever fails in front of them.       *)
SpendersFinish ==
    \A s \in Locking : call[s].pc = "waiting" ~> call[s].pc \in {"done", "dead"}
==============================================================================
