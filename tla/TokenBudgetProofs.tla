-------------------------- MODULE TokenBudgetProofs --------------------------
(***************************************************************************)
(* What is proved about TokenBudget for any campaigns, calls, budgets,     *)
(* caps, costs and deaths: types, that the spend lock is a fair mutex, and *)
(* the ledger.  The ledger's properties are sums over calls; the last part *)
(* of this module but one is what it takes to reason about a sum over a    *)
(* finite set, by well-founded induction on its subsets.                   *)
(***************************************************************************)
EXTENDS TokenBudget, FiniteSetTheorems, TLAPS

(* Who holds or awaits a spend lock, and who is ahead of s for the same one. *)
Queue == {s \in Locking : call[s].pc \in Active}

Ahead(s) ==
    {q \in Queue : /\ call[q].campaign = call[s].campaign
                   /\ call[q].place < call[s].place}

PlacesDiffer ==
    \A s, q \in Queue :
      call[s].campaign = call[q].campaign /\ call[s].place = call[q].place => s = q

(* The map knows the last of each queue, and of nothing else.               *)
TailIsLast ==
    \A c \in Campaign :
      /\ tail[c] = NoOne => \A s \in Queue : call[s].campaign # c
      /\ tail[c] # NoOne =>
           /\ tail[c] \in Queue /\ call[tail[c]].campaign = c
           /\ \A s \in Queue : call[s].campaign = c =>
                               call[s].place <= call[tail[c]].place

(* Whoever has someone ahead waits, and for the one directly ahead.         *)
WaitsForNext ==
    \A s \in Queue : \A q \in Ahead(s) :
      /\ call[s].pc = "waiting"
      /\ call[s].pred \in Ahead(s) /\ call[q].place <= call[call[s].pred].place

Placed ==
    /\ \A s \in Spender : call[s].pc \in Active => call[s].campaign \in Campaign
    /\ \A s \in Queue : call[s].place <= arrivals

LockInv == Placed /\ PlacesDiffer /\ TailIsLast /\ WaitsForNext

IInv == TypeOK /\ LockInv

-----------------------------------------------------------------------------
(* Types.                                                                   *)

Place == {"new", "done", "dead"} \cup Active

CallType ==
    [pc : Place,
     campaign : Campaign \cup {NoOne}, pred : Spender \cup {NoOne},
     place : Nat, hold : Nat, cost : Nat, settled : BOOLEAN,
     retries : 0..1, owes : Nat]

RowType == [budget : Nat, used : Nat, reserved : Nat, unknown : Nat, overage : Nat]

LEMMA ClampedIsNat == ASSUME NEW n \in Int PROVE Clamped(n) \in Nat
BY DEF Clamped

LEMMA PlacesAre ==
    /\ "new" \in Place /\ "waiting" \in Place /\ "ready" \in Place /\ "calling" \in Place
    /\ "metering" \in Place /\ "unknown" \in Place /\ "leaving" \in Place
    /\ "done" \in Place /\ "dead" \in Place
BY DEF Place, Active, Inside

LEMMA RowFields ==
    ASSUME NEW row \in RowType
    PROVE  /\ row.budget \in Nat /\ row.used \in Nat /\ row.reserved \in Nat
           /\ row.unknown \in Nat /\ row.overage \in Nat
BY DEF RowType

LEMMA CallFields ==
    ASSUME NEW r \in CallType
    PROVE  /\ r.pc \in Place /\ r.campaign \in Campaign \cup {NoOne}
           /\ r.pred \in Spender \cup {NoOne} /\ r.place \in Nat /\ r.hold \in Nat
           /\ r.cost \in Nat /\ r.settled \in BOOLEAN /\ r.retries \in 0..1
           /\ r.owes \in Nat
BY DEF CallType

LEMMA SettledRowType ==
    ASSUME NEW row \in RowType, NEW hold \in Nat, NEW cost \in Nat
    PROVE  Metered(row, hold, cost) \in RowType /\ AsUnknown(row, hold) \in RowType
<1>1. /\ row.reserved - hold \in Int /\ cost - hold \in Int
      /\ row.used + cost \in Nat /\ row.unknown + hold \in Nat
  BY RowFields
<1>2. Clamped(row.reserved - hold) \in Nat /\ Overage(hold, cost) \in Nat
  BY <1>1, ClampedIsNat DEF Overage
<1>3. row.overage + Overage(hold, cost) \in Nat
  BY <1>2, RowFields
<1>4. \A x, y, z \in Nat :
        /\ [row EXCEPT !.reserved = x, !.used = y, !.overage = z] \in RowType
        /\ [row EXCEPT !.reserved = x, !.unknown = y] \in RowType
  BY DEF RowType
<1> QED BY <1>1, <1>2, <1>3, <1>4 DEF Metered, AsUnknown

LEMMA OverType ==
    ASSUME TypeOK, NEW s \in Spender, NEW pc \in {"done", "dead"}
    PROVE  Over(s, pc) \in CallType
<1>1. call[s] \in CallType
  BY DEF TypeOK, CallType, Place
<1>2. \A h \in Nat : [call[s] EXCEPT !.pc = pc, !.pred = NoOne, !.cost = 0, !.hold = h]
                      \in CallType
  BY <1>1, PlacesAre DEF CallType
<1> QED BY <1>1, <1>2, CallFields DEF Over

LEMMA InitTyped == Init => TypeOK
<1> SUFFICES ASSUME Init PROVE TypeOK
  OBVIOUS
<1>1. PICK budget \in [Campaign -> Budgets] :
        /\ seat = [c \in Campaign |-> [budget |-> budget[c], used |-> 0,
                                       reserved |-> 0, unknown |-> 0, overage |-> 0]]
        /\ granted = budget
  BY DEF Init
<1>2. seat \in [Campaign -> RowType] /\ granted \in [Campaign -> Nat]
  BY <1>1, AmountsAreNat DEF RowType
<1>3. call \in [Spender -> CallType]
  BY DEF Init, NewCall, CallType, Place
<1> QED BY <1>2, <1>3, AmountsAreNat DEF Init, TypeOK, RowType, CallType, Place

(* One call's step leaves its seat's row and its own record well typed.     *)
LEMMA CallStepTyped ==
    ASSUME TypeOK, NEW s \in Spender,
           NEW f \in CallType, call' = [call EXCEPT ![s] = f],
           seat' \in [Campaign -> RowType],
           UNCHANGED <<cap, up, crashes, moves, ceiling, granted>>,
           tail' \in [Campaign -> Spender \cup {NoOne}], arrivals' \in Nat
    PROVE  TypeOK'
BY DEF TypeOK, CallType, Place, RowType

LEMMA LockStepTyped ==
    ASSUME TypeOK, NEW s \in Spender
    PROVE  /\ \A c \in Campaign : Join(s, c) \/ Begin(s, c) => TypeOK'
           /\ Enter(s) \/ Leave(s) => TypeOK'
<1>0. /\ call[s] \in CallType /\ seat \in [Campaign -> RowType]
      /\ s \in Spender /\ arrivals \in Nat /\ tail \in [Campaign -> Spender \cup {NoOne}]
  BY DEF TypeOK, CallType, Place, RowType
<1>1. ASSUME NEW c \in Campaign, Join(s, c) PROVE TypeOK'
  <2>1. [call[s] EXCEPT !.pc = "waiting", !.campaign = c, !.pred = tail[c],
                        !.place = arrivals + 1] \in CallType
    <3>1. tail[c] \in Spender \cup {NoOne} /\ arrivals + 1 \in Nat
      BY <1>0
    <3> QED BY <1>0, <3>1, PlacesAre DEF CallType
  <2>2. tail' \in [Campaign -> Spender \cup {NoOne}] /\ arrivals' \in Nat
    BY <1>0, <1>1 DEF Join
  <2> QED BY <1>0, <1>1, <2>1, <2>2, CallStepTyped DEF Join, KeepLedger, KeepServer
<1>2. ASSUME NEW c \in Campaign, Begin(s, c) PROVE TypeOK'
  <2>1. [call[s] EXCEPT !.pc = "ready", !.campaign = c] \in CallType
    BY <1>0, PlacesAre DEF CallType
  <2> QED BY <1>0, <1>2, <2>1, CallStepTyped DEF Begin, KeepLedger, KeepServer, KeepLock
<1>3. ASSUME Enter(s) PROVE TypeOK'
  <2>1. PICK pc \in {"ready", "leaving"} :
          call' = [call EXCEPT ![s] = [@ EXCEPT !.pc = pc, !.pred = NoOne]]
    BY <1>3 DEF Enter
  <2>2. [call[s] EXCEPT !.pc = pc, !.pred = NoOne] \in CallType
    BY <1>0, PlacesAre DEF CallType
  <2> QED BY <1>0, <1>3, <2>1, <2>2, CallStepTyped
          DEF Enter, KeepLedger, KeepServer, KeepLock
<1>4. ASSUME Leave(s) PROVE TypeOK'
  BY <1>0, <1>4, OverType, CallStepTyped DEF Leave, KeepLedger, KeepServer
<1> QED BY <1>1, <1>2, <1>3, <1>4

LEMMA SpendStepTyped ==
    ASSUME TypeOK, NEW s \in Spender, call[s].pc \in Active => call[s].campaign \in Campaign
    PROVE  /\ Reserve(s) \/ Answer(s) => TypeOK'
           /\ MeterTurn(s) \/ MeterFails(s) \/ MarkUnknown(s) \/ MarkFails(s) => TypeOK'
<1>0. /\ call[s] \in CallType /\ seat \in [Campaign -> RowType] /\ s \in Spender
      /\ arrivals \in Nat /\ tail \in [Campaign -> Spender \cup {NoOne}]
      /\ MaxRequest \in Nat /\ MaxCost \in Nat
  BY AmountsAreNat DEF TypeOK, CallType, Place, RowType
<1> USE DEF KeepLedger, KeepServer, KeepLock
<1>1. ASSUME NEW pc \in Active, Goto(s, pc), seat' = seat, KeepLock, KeepServer, granted' = granted
      PROVE  TypeOK'
  <2>1. [call[s] EXCEPT !.pc = pc] \in CallType
    BY <1>0, <1>1 DEF CallType, Place
  <2> QED BY <1>0, <1>1, <2>1, CallStepTyped DEF Goto
<1>2. ASSUME Reserve(s) PROVE TypeOK'
  <2> DEFINE c == call[s].campaign
  <2>1. PICK hold \in 0..MaxRequest :
          \/ Goto(s, "leaving") /\ UNCHANGED seat
          \/ /\ call' = [call EXCEPT ![s] =
                          [@ EXCEPT !.pc = "calling", !.hold = hold,
                                    !.settled = FALSE, !.owes = hold]]
             /\ seat' = [seat EXCEPT ![c].reserved = @ + hold]
    BY <1>2 DEF Reserve
  <2>2. CASE Goto(s, "leaving") /\ UNCHANGED seat
    BY <1>1, <1>2, <2>2 DEF Reserve, Active, Inside
  <2>3. CASE /\ call' = [call EXCEPT ![s] =
                          [@ EXCEPT !.pc = "calling", !.hold = hold,
                                    !.settled = FALSE, !.owes = hold]]
             /\ seat' = [seat EXCEPT ![c].reserved = @ + hold]
    <3>1. [call[s] EXCEPT !.pc = "calling", !.hold = hold, !.settled = FALSE,
                          !.owes = hold] \in CallType
      <4>1. hold \in Nat
        BY <1>0
      <4> QED BY <1>0, <4>1, PlacesAre DEF CallType
    <3>2. c \in Campaign
      BY <1>2 DEF Reserve, Active, Inside
    <3>3. seat' \in [Campaign -> RowType]
      BY <1>0, <2>3, <3>2 DEF RowType
    <3> QED BY <1>0, <1>2, <2>3, <3>1, <3>3, CallStepTyped DEF Reserve
  <2> QED BY <2>1, <2>2, <2>3
<1>3. ASSUME Answer(s) PROVE TypeOK'
  <2>1. CASE Goto(s, "unknown")
    BY <1>1, <1>3, <2>1 DEF Answer, Active, Inside
  <2>2. ASSUME NEW n \in 0..MaxCost,
               call' = [call EXCEPT ![s] = [@ EXCEPT !.pc = "metering", !.cost = n]]
        PROVE  TypeOK'
    <3>1. [call[s] EXCEPT !.pc = "metering", !.cost = n] \in CallType
      <4>1. n \in Nat
        BY <1>0
      <4> QED BY <1>0, <4>1, PlacesAre DEF CallType
    <3> QED BY <1>0, <1>3, <2>2, <3>1, CallStepTyped DEF Answer
  <2> QED BY <1>3, <2>1, <2>2 DEF Answer
<1>4. ASSUME MeterTurn(s) PROVE TypeOK'
  <2> DEFINE c == call[s].campaign
  <2>1. PICK pc \in {"leaving", "unknown"} :
          call' = [call EXCEPT ![s] = [@ EXCEPT !.pc = pc, !.settled = TRUE,
                                                !.cost = 0, !.owes = call[s].cost]]
    BY <1>4 DEF MeterTurn, Fallbacks
  <2>2. [call[s] EXCEPT !.pc = pc, !.settled = TRUE, !.cost = 0, !.owes = call[s].cost]
          \in CallType
    BY <1>0, PlacesAre DEF CallType
  <2>3. c \in Campaign /\ call[s].hold \in Nat /\ call[s].cost \in Nat
    BY <1>0, <1>4, CallFields DEF MeterTurn, Active, Inside
  <2>4. seat' = [seat EXCEPT ![c] = Metered(@, call[s].hold, call[s].cost)]
    BY <1>4 DEF MeterTurn
  <2>5. seat[c] \in RowType
    BY <1>0, <2>3
  <2>6. Metered(seat[c], call[s].hold, call[s].cost) \in RowType
    BY <2>3, <2>5, SettledRowType
  <2>7. seat' \in [Campaign -> RowType]
    BY <1>0, <2>3, <2>4, <2>6
  <2> QED BY <1>0, <1>4, <2>1, <2>2, <2>7, CallStepTyped DEF MeterTurn
<1>5. ASSUME MeterFails(s) PROVE TypeOK'
  <2>1. \A n \in 0..1 : [call[s] EXCEPT !.pc = "unknown", !.cost = 0, !.retries = n] \in CallType
    BY <1>0, PlacesAre DEF CallType
  <2> DEFINE n == IF s \in Scribe THEN 1 ELSE 0
  <2>2. n \in 0..1 /\ call' = [call EXCEPT ![s] = [@ EXCEPT !.pc = "unknown", !.cost = 0,
                                                           !.retries = n]]
    BY <1>5 DEF MeterFails
  <2> HIDE DEF n
  <2> QED BY <1>0, <1>5, <2>1, <2>2, CallStepTyped DEF MeterFails
<1>6. ASSUME MarkUnknown(s) PROVE TypeOK'
  <2> DEFINE c == call[s].campaign
  <2>1. [call[s] EXCEPT !.pc = "leaving", !.settled = TRUE] \in CallType
    BY <1>0, PlacesAre DEF CallType
  <2>2. c \in Campaign /\ call[s].hold \in Nat
    BY <1>0, <1>6, CallFields DEF MarkUnknown, Active, Inside
  <2>3. seat[c] \in RowType
    BY <1>0, <2>2
  <2>4. AsUnknown(seat[c], call[s].hold) \in RowType
    BY <2>2, <2>3, SettledRowType
  <2>5. seat' = seat \/ seat' = [seat EXCEPT ![c] = AsUnknown(@, call[s].hold)]
    BY <1>6 DEF MarkUnknown
  <2>6. seat' \in [Campaign -> RowType]
    BY <1>0, <2>2, <2>4, <2>5
  <2> QED BY <1>0, <1>6, <2>1, <2>6, CallStepTyped DEF MarkUnknown
<1>7. ASSUME MarkFails(s) PROVE TypeOK'
  <2>1. CASE Goto(s, "leaving")
    BY <1>1, <1>7, <2>1 DEF MarkFails, Active, Inside
  <2>2. CASE call[s].retries > 0 /\ call' = [call EXCEPT ![s].retries = @ - 1]
    <3>1. [call[s] EXCEPT !.retries = @ - 1] \in CallType
      BY <1>0, <2>2 DEF CallType
    <3> QED BY <1>0, <1>7, <2>2, <3>1, CallStepTyped DEF MarkFails
  <2> QED BY <1>7, <2>1, <2>2 DEF MarkFails
<1> QED BY <1>2, <1>3, <1>4, <1>5, <1>6, <1>7

LEMMA WorldStepTyped ==
    ASSUME TypeOK
    PROVE  /\ \A c \in Campaign : ResetUsage(c) => TypeOK'
           /\ \A c \in Campaign, n \in Budgets : SetBudget(c, n) => TypeOK'
           /\ \A n \in Caps : SetCap(n) => TypeOK'
           /\ Crash \/ Reclaim => TypeOK'
<1>0. /\ call \in [Spender -> CallType] /\ seat \in [Campaign -> RowType]
      /\ moves \in Nat /\ crashes \in Nat
  BY AmountsAreNat DEF TypeOK, CallType, Place, RowType
<1>1. ASSUME NEW c \in Campaign, ResetUsage(c) PROVE TypeOK'
  <2>1. seat' \in [Campaign -> RowType] /\ granted' \in [Campaign -> Nat]
    BY <1>0, <1>1 DEF ResetUsage, RowType, TypeOK
  <2>2. call' \in [Spender -> CallType]
    <3>1. \A s \in Spender, b \in BOOLEAN :
            [call[s] EXCEPT !.owes = 0, !.settled = b] \in CallType
      BY <1>0 DEF CallType
    <3>2. \A s \in Spender : (call[s].settled \/ call[s].pc = "done") \in BOOLEAN
      OBVIOUS
    <3> QED BY <1>0, <1>1, <3>1, <3>2 DEF ResetUsage
  <2>3. moves' \in 0..MaxMoves
    <3>1. moves < MaxMoves /\ moves' = moves + 1
      BY <1>1 DEF ResetUsage, Move
    <3> QED BY <1>0, <3>1, AmountsAreNat
  <2> QED BY <1>1, <2>1, <2>2, <2>3 DEF TypeOK, ResetUsage, KeepLock, CallType, Place, RowType
<1>2. ASSUME NEW c \in Campaign, NEW n \in Budgets, SetBudget(c, n) PROVE TypeOK'
  <2>1. seat' \in [Campaign -> RowType] /\ granted' \in [Campaign -> Nat]
    BY <1>0, <1>2, AmountsAreNat DEF SetBudget, RowType, TypeOK
  <2>2. moves' \in 0..MaxMoves
    BY <1>0, <1>2, AmountsAreNat DEF SetBudget, Move
  <2> QED BY <1>2, <2>1, <2>2 DEF TypeOK, SetBudget, KeepLock, RowType
<1>3. ASSUME NEW n \in Caps, SetCap(n) PROVE TypeOK'
  <2>1. moves' \in 0..MaxMoves /\ cap' \in Nat /\ ceiling' \in Nat
    BY <1>0, <1>3, AmountsAreNat DEF SetCap, Move, TypeOK
  <2> QED BY <1>3, <2>1 DEF TypeOK, SetCap, KeepLock, KeepLedger
<1>4. ASSUME Crash PROVE TypeOK'
  <2>1. call' \in [Spender -> CallType]
    BY <1>0, <1>4, OverType DEF Crash
  <2>2. crashes' \in 0..MaxCrashes
    BY <1>0, <1>4, AmountsAreNat DEF Crash
  <2> QED BY <1>4, <2>1, <2>2 DEF TypeOK, Crash, CallType, Place
<1>5. ASSUME Reclaim PROVE TypeOK'
  <2>1. call' \in [Spender -> CallType]
    BY <1>0, <1>5 DEF Reclaim, CallType
  <2>2. seat' \in [Campaign -> RowType]
    <3>1. \A c \in Campaign : seat[c] \in RowType /\ seat[c].reserved \in Nat
      BY <1>0 DEF RowType
    <3>2. \A c \in Campaign : AsUnknown(seat[c], seat[c].reserved) \in RowType
      BY <3>1, SettledRowType
    <3> QED BY <1>5, <3>2 DEF Reclaim
  <2> QED BY <1>5, <2>1, <2>2 DEF TypeOK, Reclaim, CallType, Place, RowType
<1> QED BY <1>1, <1>2, <1>3, <1>4, <1>5

-----------------------------------------------------------------------------
(* The lock.                                                                *)

(* A lock call alone, its place in the queue kept: it still waits for the   *)
(* same call, or nobody is ahead of it.                                     *)
Undisturbed(s) ==
    /\ call'[s].pc \in Active <=> call[s].pc \in Active
    /\ call'[s].campaign = call[s].campaign /\ call'[s].place = call[s].place
    /\ \/ /\ call'[s].pc = "waiting" <=> call[s].pc = "waiting"
          /\ call'[s].pred = call[s].pred
       \/ Ahead(s) = {}

LEMMA QuietKeepsLock ==
    ASSUME LockInv, \A s \in Locking : Undisturbed(s),
           \A s \in Spender : call'[s].pc \in Active => call'[s].campaign \in Campaign,
           UNCHANGED <<tail, arrivals>>
    PROVE  LockInv'
<1>1. Queue' = Queue
  BY DEF Queue, Undisturbed
<1>2. \A s \in Queue : /\ call'[s].campaign = call[s].campaign
                        /\ call'[s].place = call[s].place
                        /\ Ahead(s)' = Ahead(s)
  BY <1>1 DEF Undisturbed, Queue, Ahead
<1>3. Placed' /\ PlacesDiffer' /\ TailIsLast'
  BY <1>1, <1>2 DEF LockInv, Placed, PlacesDiffer, TailIsLast
<1>4. WaitsForNext'
  <2> SUFFICES ASSUME NEW s \in Queue, NEW q \in Ahead(s)
               PROVE  /\ call'[s].pc = "waiting" /\ call'[s].pred \in Ahead(s)
                      /\ call'[q].place <= call'[call'[s].pred].place
    BY <1>1, <1>2 DEF WaitsForNext
  <2>1. /\ call[s].pc = "waiting" /\ call[s].pred \in Ahead(s)
        /\ call[q].place <= call[call[s].pred].place
    BY DEF LockInv, WaitsForNext
  <2>2. call'[s].pc = "waiting" /\ call'[s].pred = call[s].pred
    BY <2>1 DEF Undisturbed, Queue
  <2>3. q \in Queue /\ call[s].pred \in Queue
    BY <2>1 DEF Ahead
  <2> QED BY <1>2, <2>1, <2>2, <2>3
<1> QED BY <1>3, <1>4 DEF LockInv

(* Nobody inside the lock, or let in, has anyone ahead.                     *)
LEMMA NobodyAhead ==
    ASSUME IInv, NEW s \in Queue,
           call[s].pc \in Inside \/ Released(call[s].pred)
    PROVE  Ahead(s) = {}
<1> SUFFICES ASSUME NEW q \in Ahead(s) PROVE FALSE
  OBVIOUS
<1>1. call[s].pc = "waiting" /\ call[s].pred \in Ahead(s)
  BY DEF IInv, LockInv, WaitsForNext
<1>2. call[s].pred \in Spender /\ call[call[s].pred].pc \in Active
  BY <1>1 DEF Ahead, Queue, Locking, Spender
<1> QED BY <1>1, <1>2, NoOneIsNoSpender DEF Released, Active, Inside

LEMMA JoinKeepsLock ==
    ASSUME IInv, NEW s \in Spender, NEW c \in Campaign, Join(s, c)
    PROVE  LockInv'
<1>1. /\ s \in Locking /\ s \notin Queue /\ arrivals \in Nat
      /\ tail' = [tail EXCEPT ![c] = s] /\ arrivals' = arrivals + 1
      /\ call'[s].pc = "waiting" /\ call'[s].campaign = c
      /\ call'[s].pred = tail[c] /\ call'[s].place = arrivals + 1
      /\ \A q \in Spender : q # s => call'[q] = call[q]
  BY DEF IInv, TypeOK, Join, Queue, Active, Inside
<1>2. Queue' = Queue \cup {s}
  BY <1>1 DEF Queue, Active, Locking, Spender
<1>3. \A q \in Queue : /\ q # s /\ q \in Spender /\ call'[q] = call[q]
                        /\ call[q].place \in Nat /\ call[q].place <= arrivals
                        /\ Ahead(q)' = Ahead(q)
  <2>1. \A q \in Queue : /\ q # s /\ q \in Spender /\ call'[q] = call[q]
                          /\ call[q].place \in Nat /\ call[q].place <= arrivals
    BY <1>1 DEF Queue, IInv, LockInv, Placed, TypeOK, Locking, Spender
  <2> QED BY <1>1, <1>2, <2>1 DEF Ahead
<1>4. Ahead(s)' = {q \in Queue : call[q].campaign = c}
  BY <1>1, <1>2, <1>3 DEF Ahead
<1>5. Placed' /\ PlacesDiffer'
  <2>1. \A q \in Spender : call'[q].pc \in Active => call'[q].campaign \in Campaign
    BY <1>1 DEF IInv, LockInv, Placed
  <2>2. \A q \in Queue' : call'[q].place <= arrivals'
    BY <1>1, <1>2, <1>3
  <2>3. PlacesDiffer'
    BY <1>1, <1>2, <1>3 DEF IInv, LockInv, PlacesDiffer
  <2> QED BY <2>1, <2>2, <2>3 DEF Placed
<1>6. TailIsLast'
  <2> SUFFICES ASSUME NEW d \in Campaign
               PROVE  /\ tail'[d] = NoOne => \A q \in Queue' : call'[q].campaign # d
                      /\ tail'[d] # NoOne =>
                           /\ tail'[d] \in Queue' /\ call'[tail'[d]].campaign = d
                           /\ \A q \in Queue' : call'[q].campaign = d =>
                                               call'[q].place <= call'[tail'[d]].place
    BY DEF TailIsLast
  <2>1. CASE d = c
    <3>1. tail'[d] = s /\ s # NoOne
      BY <1>1, <2>1, NoOneIsNoSpender DEF IInv, TypeOK
    <3> QED BY <1>1, <1>2, <1>3, <2>1, <3>1
  <2>2. CASE d # c
    <3>1. tail'[d] = tail[d]
      BY <1>1, <2>2 DEF IInv, TypeOK
    <3> QED BY <1>1, <1>2, <1>3, <2>2, <3>1 DEF IInv, LockInv, TailIsLast
  <2> QED BY <2>1, <2>2
<1>7. WaitsForNext'
  <2> SUFFICES ASSUME NEW r \in Queue', NEW q \in Ahead(r)'
               PROVE  /\ call'[r].pc = "waiting" /\ call'[r].pred \in Ahead(r)'
                      /\ call'[q].place <= call'[call'[r].pred].place
    BY DEF WaitsForNext
  <2>1. CASE r = s
    <3>1. q \in Queue /\ call[q].campaign = c
      BY <1>4, <2>1
    <3>2. /\ tail[c] # NoOne /\ tail[c] \in Queue /\ call[tail[c]].campaign = c
          /\ call[q].place <= call[tail[c]].place
      BY <3>1 DEF IInv, LockInv, TailIsLast
    <3> QED BY <1>1, <1>3, <1>4, <2>1, <3>1, <3>2
  <2>2. CASE r \in Queue
    <3>1. q \in Ahead(r) /\ q \in Queue
      BY <1>3, <2>2 DEF Ahead
    <3>2. /\ call[r].pc = "waiting" /\ call[r].pred \in Ahead(r)
          /\ call[q].place <= call[call[r].pred].place
      BY <2>2, <3>1 DEF IInv, LockInv, WaitsForNext
    <3>3. call[r].pred \in Queue
      BY <3>2 DEF Ahead
    <3> QED BY <1>3, <2>2, <3>1, <3>2, <3>3
  <2> QED BY <1>2, <2>1, <2>2
<1> QED BY <1>5, <1>6, <1>7 DEF LockInv

LEMMA LeaveKeepsLock ==
    ASSUME IInv, NEW p \in Spender, Leave(p)
    PROVE  LockInv'
<1> DEFINE c == call[p].campaign
<1>1. /\ call[p].pc = "leaving" /\ call'[p].pc = "done" /\ c \in Campaign
      /\ tail' = [tail EXCEPT ![c] = IF @ = p THEN NoOne ELSE @]
      /\ arrivals' = arrivals
      /\ \A q \in Spender : /\ q # p => call'[q] = call[q]
                            /\ call'[q].campaign = call[q].campaign
                            /\ call'[q].place = call[q].place
  BY DEF IInv, TypeOK, LockInv, Placed, Leave, Over, Active, Inside
<1>2. Queue' = Queue \ {p}
  BY <1>1 DEF Queue, Active, Inside, Locking, Spender
<1>3. \A q \in Queue : /\ q \in Spender /\ Ahead(q)' = Ahead(q) \ {p}
                        /\ call[q].place \in Nat
  <2>1. \A q \in Queue : q \in Spender /\ call[q].place \in Nat
    BY DEF Queue, IInv, TypeOK, Locking, Spender
  <2> QED BY <1>1, <1>2, <2>1 DEF Ahead
<1>4. p \in Queue => Ahead(p) = {}
  BY <1>1, NobodyAhead DEF Inside
<1>5. Placed' /\ PlacesDiffer'
  <2>1. \A q \in Spender : call'[q].pc \in Active => call'[q].campaign \in Campaign
    BY <1>1 DEF IInv, LockInv, Placed, Active, Inside
  <2> QED BY <1>1, <1>2, <1>3, <2>1 DEF IInv, LockInv, Placed, PlacesDiffer
<1>6. TailIsLast'
  <2> SUFFICES ASSUME NEW d \in Campaign
               PROVE  /\ tail'[d] = NoOne => \A q \in Queue' : call'[q].campaign # d
                      /\ tail'[d] # NoOne =>
                           /\ tail'[d] \in Queue' /\ call'[tail'[d]].campaign = d
                           /\ \A q \in Queue' : call'[q].campaign = d =>
                                               call'[q].place <= call'[tail'[d]].place
    BY DEF TailIsLast
  <2>1. /\ tail[d] = NoOne => \A q \in Queue : call[q].campaign # d
        /\ tail[d] # NoOne =>
             /\ tail[d] \in Queue /\ call[tail[d]].campaign = d
             /\ \A q \in Queue : call[q].campaign = d =>
                                 call[q].place <= call[tail[d]].place
    BY DEF IInv, LockInv, TailIsLast
  <2>2. CASE tail[d] # p
    <3>1. tail'[d] = tail[d]
      BY <1>1, <2>2 DEF IInv, TypeOK
    <3> QED BY <1>1, <1>2, <1>3, <2>1, <2>2, <3>1
  <2>3. CASE tail[d] = p
    <3>1. p \in Queue /\ d = c /\ p # NoOne
      BY <2>1, <2>3, NoOneIsNoSpender
    <3>2. tail'[d] = NoOne
      BY <1>1, <2>3, <3>1 DEF IInv, TypeOK
    <3>3. ASSUME NEW q \in Queue, q # p, call[q].campaign = d PROVE FALSE
      <4>1. call[q].place <= call[p].place /\ call[q].place # call[p].place
        BY <2>1, <2>3, <3>1, <3>3 DEF IInv, LockInv, PlacesDiffer
      <4>2. q \in Ahead(p)
        BY <1>3, <3>1, <3>3, <4>1 DEF Ahead
      <4> QED BY <1>4, <3>1, <4>2
    <3> QED BY <1>1, <1>2, <1>3, <3>2, <3>3
  <2> QED BY <2>2, <2>3
<1>7. WaitsForNext'
  <2> SUFFICES ASSUME NEW r \in Queue', NEW q \in Ahead(r)'
               PROVE  /\ call'[r].pc = "waiting" /\ call'[r].pred \in Ahead(r)'
                      /\ call'[q].place <= call'[call'[r].pred].place
    BY DEF WaitsForNext
  <2>1. /\ r \in Queue /\ r # p /\ q \in Queue /\ q # p /\ q \in Ahead(r)
    BY <1>2, <1>3 DEF Ahead
  <2>2. /\ call[r].pc = "waiting" /\ call[r].pred \in Ahead(r)
        /\ call[q].place <= call[call[r].pred].place
    BY <2>1 DEF IInv, LockInv, WaitsForNext
  <2>3. call[r].pred \in Queue /\ call[call[r].pred].campaign = call[q].campaign
    BY <2>1, <2>2 DEF Ahead
  <2>4. call[r].pred # p
    <3>1. SUFFICES ASSUME call[r].pred = p PROVE FALSE
      OBVIOUS
    <3>2. call[q].place # call[p].place
      BY <2>1, <2>3, <3>1 DEF IInv, LockInv, PlacesDiffer
    <3>3. q \in Ahead(p)
      BY <1>3, <2>1, <2>2, <2>3, <3>1, <3>2 DEF Ahead
    <3> QED BY <1>4, <2>3, <3>1, <3>3
  <2> QED BY <1>1, <1>3, <2>1, <2>2, <2>3, <2>4
<1> QED BY <1>5, <1>6, <1>7 DEF LockInv

LEMMA CrashKeepsLock == IInv /\ Crash => LockInv'
<1> SUFFICES ASSUME IInv, Crash PROVE LockInv'
  OBVIOUS
<1>1. \A s \in Spender : call'[s].pc \notin Active
  BY DEF Crash, Over, IInv, TypeOK, Active, Inside
<1>2. Queue' = {} /\ tail' = [c \in Campaign |-> NoOne]
  BY <1>1 DEF Queue, Locking, Spender, Crash
<1> QED BY <1>1, <1>2 DEF LockInv, Placed, PlacesDiffer, TailIsLast, WaitsForNext

(* Steps between joining and leaving, of calls outside the lock, and of     *)
(* people.                                                                  *)
LEMMA OthersKeepLock ==
    ASSUME IInv,
           \/ \E s \in Spender : \/ \E c \in Campaign : Begin(s, c)
                                 \/ Enter(s) \/ Reserve(s) \/ Answer(s) \/ MeterTurn(s)
                                 \/ MeterFails(s) \/ MarkUnknown(s) \/ MarkFails(s)
           \/ \E c \in Campaign : ResetUsage(c) \/ \E n \in Budgets : SetBudget(c, n)
           \/ \E n \in Caps : SetCap(n)
           \/ Reclaim \/ UNCHANGED vars
    PROVE  LockInv'
<1>0. UNCHANGED <<tail, arrivals>>
  BY DEF KeepLock, Begin, Enter, Reserve, Answer, MeterTurn, MeterFails, MarkUnknown,
         MarkFails, ResetUsage, SetBudget, SetCap, Reclaim, vars
<1>1. /\ \A s \in Locking : s \in Spender /\ s \notin Direct
      /\ \A s \in Spender : call[s].pc \in Active => call[s].campaign \in Campaign
  BY KindsDiffer DEF Spender, Locking, IInv, LockInv, Placed
<1>2. ASSUME \A s \in Spender : /\ call'[s].campaign = call[s].campaign
                                /\ call'[s].place = call[s].place
                                /\ call'[s].pred = call[s].pred
                                /\ call'[s].pc = call[s].pc
      PROVE  LockInv'
  BY <1>0, <1>1, <1>2, QuietKeepsLock DEF IInv, Undisturbed
<1>3. ASSUME NEW s \in Spender, NEW c \in Campaign, Begin(s, c) PROVE LockInv'
  <2>1. /\ s \in Direct /\ call'[s].campaign = c
        /\ \A q \in Spender : q # s => call'[q] = call[q]
    BY <1>3 DEF Begin, IInv, TypeOK
  <2> QED BY <1>0, <1>1, <2>1, QuietKeepsLock DEF IInv, Undisturbed
<1>4. ASSUME NEW s \in Spender, Enter(s) PROVE LockInv'
  <2>1. /\ call[s].pc \in Active /\ Released(call[s].pred) /\ call'[s].pc \in Active
        /\ call'[s].campaign = call[s].campaign /\ call'[s].place = call[s].place
        /\ \A q \in Spender : q # s => call'[q] = call[q]
    <3>1. PICK pc \in {"ready", "leaving"} :
            call' = [call EXCEPT ![s] = [@ EXCEPT !.pc = pc, !.pred = NoOne]]
      BY <1>4 DEF Enter
    <3>2. /\ call'[s].pc = pc /\ call'[s].campaign = call[s].campaign
          /\ call'[s].place = call[s].place
          /\ \A q \in Spender : q # s => call'[q] = call[q]
      BY <3>1 DEF IInv, TypeOK
    <3>3. call[s].pc \in Active /\ Released(call[s].pred) /\ pc \in Active
      BY <1>4 DEF Enter, Active, Inside
    <3> QED BY <3>2, <3>3
  <2>2. s \in Locking => Ahead(s) = {}
    BY <2>1, NobodyAhead DEF Queue
  <2> QED BY <1>0, <1>1, <2>1, <2>2, QuietKeepsLock DEF IInv, Undisturbed
<1>5. ASSUME NEW s \in Spender,
             Reserve(s) \/ Answer(s) \/ MeterTurn(s) \/ MeterFails(s)
               \/ MarkUnknown(s) \/ MarkFails(s)
      PROVE  LockInv'
  <2>1. /\ call[s].pc \in Inside /\ call'[s].pc \in Inside
        /\ call'[s].campaign = call[s].campaign /\ call'[s].place = call[s].place
        /\ call'[s].pred = call[s].pred
        /\ \A q \in Spender : q # s => call'[q] = call[q]
    <3> USE DEF IInv, TypeOK, Inside
    <3>1. CASE Reserve(s)
      <4>1. PICK hold \in 0..MaxRequest :
              \/ Goto(s, "leaving")
              \/ call' = [call EXCEPT ![s] =
                            [@ EXCEPT !.pc = "calling", !.hold = hold,
                                      !.settled = FALSE, !.owes = hold]]
        BY <3>1 DEF Reserve
      <4>2. call[s].pc = "ready"
        BY <3>1 DEF Reserve
      <4>3. CASE Goto(s, "leaving")
        BY <4>2, <4>3 DEF Goto
      <4>4. CASE call' = [call EXCEPT ![s] =
                            [@ EXCEPT !.pc = "calling", !.hold = hold,
                                      !.settled = FALSE, !.owes = hold]]
        BY <4>2, <4>4
      <4> QED BY <4>1, <4>3, <4>4
    <3>2. CASE Answer(s)
      <4>1. CASE Goto(s, "unknown")
        BY <3>2, <4>1 DEF Answer, Goto
      <4>2. CASE \E n \in 0..MaxCost :
                   call' = [call EXCEPT ![s] = [@ EXCEPT !.pc = "metering", !.cost = n]]
        BY <3>2, <4>2 DEF Answer
      <4> QED BY <3>2, <4>1, <4>2 DEF Answer
    <3>3. CASE MeterTurn(s)
      <4>1. PICK pc \in {"leaving", "unknown"} :
              call' = [call EXCEPT ![s] = [@ EXCEPT !.pc = pc, !.settled = TRUE,
                                                    !.cost = 0, !.owes = call[s].cost]]
        BY <3>3 DEF MeterTurn, Fallbacks
      <4>2. call[s].pc = "metering"
        BY <3>3 DEF MeterTurn
      <4> QED BY <4>1, <4>2
    <3>4. CASE MeterFails(s)
      BY <3>4 DEF MeterFails
    <3>5. CASE MarkUnknown(s)
      BY <3>5 DEF MarkUnknown
    <3>6. CASE MarkFails(s)
      BY <3>6 DEF MarkFails, Goto
    <3> QED BY <1>5, <3>1, <3>2, <3>3, <3>4, <3>5, <3>6
  <2> QED BY <1>0, <1>1, <2>1, QuietKeepsLock DEF IInv, Undisturbed, Active, Inside
<1>6. ASSUME NEW c \in Campaign, ResetUsage(c) PROVE LockInv'
  BY <1>2, <1>6 DEF ResetUsage, IInv, TypeOK
<1>7. ASSUME Reclaim PROVE LockInv'
  BY <1>2, <1>7 DEF Reclaim, IInv, TypeOK
<1>8. ASSUME UNCHANGED call PROVE LockInv'
  BY <1>2, <1>8
<1> QED BY <1>3, <1>4, <1>5, <1>6, <1>7, <1>8 DEF SetBudget, SetCap, vars

-----------------------------------------------------------------------------
(* The theorems.                                                            *)

LEMMA InitKeepsLock == Init => LockInv
<1> SUFFICES ASSUME Init PROVE LockInv
  OBVIOUS
<1>1. \A s \in Spender : call[s].pc \notin Active
  BY DEF Init, NewCall, Active, Inside
<1>2. Queue = {} /\ tail = [c \in Campaign |-> NoOne]
  BY <1>1 DEF Queue, Locking, Spender, Init
<1> QED BY <1>1, <1>2 DEF LockInv, Placed, PlacesDiffer, TailIsLast, WaitsForNext

LEMMA NextKeepsTypes == IInv /\ [Next]_vars => TypeOK'
<1> SUFFICES ASSUME IInv, [Next]_vars PROVE TypeOK'
  OBVIOUS
<1>1. TypeOK /\ \A s \in Spender : call[s].pc \in Active => call[s].campaign \in Campaign
  BY DEF IInv, LockInv, Placed
<1>2. ASSUME NEW s \in Spender, NEW c \in Campaign, Join(s, c) \/ Begin(s, c) PROVE TypeOK'
  BY <1>1, <1>2, LockStepTyped
<1>3. ASSUME NEW s \in Spender, Continue(s) PROVE TypeOK'
  BY <1>1, <1>3, LockStepTyped, SpendStepTyped DEF Continue
<1>4. ASSUME \/ \E c \in Campaign : ResetUsage(c) \/ \E n \in Budgets : SetBudget(c, n)
             \/ \E n \in Caps : SetCap(n)
             \/ Crash \/ Reclaim
      PROVE  TypeOK'
  BY <1>1, <1>4, WorldStepTyped
<1>5. CASE UNCHANGED vars
  BY <1>1, <1>5 DEF vars, TypeOK
<1> QED BY <1>2, <1>3, <1>4, <1>5 DEF Next

LEMMA NextKeepsLock == IInv /\ [Next]_vars => LockInv'
<1> SUFFICES ASSUME IInv, [Next]_vars PROVE LockInv'
  OBVIOUS
<1>1. ASSUME NEW s \in Spender, NEW c \in Campaign, Join(s, c) PROVE LockInv'
  BY <1>1, JoinKeepsLock
<1>2. ASSUME NEW s \in Spender, Leave(s) PROVE LockInv'
  BY <1>2, LeaveKeepsLock
<1>3. CASE Crash
  BY <1>3, CrashKeepsLock
<1> QED BY <1>1, <1>2, <1>3, OthersKeepLock DEF Next, Continue

LEMMA Inductive == Spec => []IInv
<1>1. Init => IInv
  BY InitTyped, InitKeepsLock DEF IInv
<1>2. IInv /\ [Next]_vars => IInv'
  BY NextKeepsTypes, NextKeepsLock DEF IInv
<1> QED BY <1>1, <1>2, PTL DEF Spec

(* Rows, calls, locks and counters have their types: in particular no hold, *)
(* cost or clamped subtraction ever makes a counter of a seat negative.     *)
THEOREM TypeCorrect == Spec => []TypeOK
<1>1. IInv => TypeOK
  BY DEF IInv
<1> QED BY <1>1, Inductive, PTL

(* withSpendLock is a first come, first served mutex: whoever is inside     *)
(* came before everyone else still waiting or inside.                       *)
THEOREM SpendLockServesInOrder == Spec => []FirstComeFirstServed
<1>1. ASSUME IInv PROVE FirstComeFirstServed
  <2> SUFFICES ASSUME NEW s \in Locking, NEW q \in Locking,
                      s # q, call[s].campaign = call[q].campaign,
                      call[s].pc \in Inside, call[q].pc \in Active
               PROVE  call[s].place < call[q].place
    BY DEF FirstComeFirstServed
  <2>1. s \in Queue /\ q \in Queue
    BY DEF Queue, Active
  <2>2. q \notin Ahead(s)
    BY <2>1, NobodyAhead, <1>1
  <2>3. call[s].place \in Nat /\ call[q].place \in Nat
    BY <1>1 DEF IInv, TypeOK, Locking, Spender
  <2>4. call[s].place # call[q].place
    BY <1>1, <2>1 DEF IInv, LockInv, PlacesDiffer
  <2> QED BY <2>1, <2>2, <2>3, <2>4 DEF Ahead
<1> QED BY <1>1, Inductive, PTL

-----------------------------------------------------------------------------
(* Sums over a finite set.                                                  *)

(* A set of numbers has a least one, by the library's well-founded order.   *)
LEMMA LeastNat ==
    ASSUME NEW T \in SUBSET Nat, T # {}
    PROVE  \E n \in T : \A m \in T : n <= m
<1> DEFINE R == {ss \in Nat \X Nat : ss[1] < ss[2]}
<1>1. IsWellFoundedOn(R, Nat)
  BY NatLessThanWellFounded DEF OpToRel
<1> HIDE DEF R
<1>2. PICK n \in T : \A m \in T : ~(<<m, n>> \in R)
  BY <1>1, WFMin
<1>3. \A m \in T : ~(m < n)
  BY <1>2 DEF R
<1> QED
  BY <1>3

(* Subsets of a finite set: some have no smaller one among them.            *)
LEMMA LeastSet ==
    ASSUME NEW S, IsFiniteSet(S), NEW Q, Q \subseteq SUBSET S, Q # {}
    PROVE  \E T \in Q : \A U \in Q : ~(U \subseteq T /\ U # T)
<1>1. IsWellFoundedOn(StrictSubsetOrdering(S), SUBSET S)
  BY FS_StrictSubsetOrderingWellFounded, FS_FiniteSubsetsOfFinite
<1>2. PICK T \in Q : \A U \in Q : ~(<<U, T>> \in StrictSubsetOrdering(S))
  BY <1>1, WFMin
<1> QED
  BY <1>2 DEF StrictSubsetOrdering

(* A set of subsets in which every one has a smaller one is empty.          *)
LEMMA NoDescent ==
    ASSUME NEW S, IsFiniteSet(S), NEW Bad, Bad \subseteq SUBSET S,
           \A T \in Bad : \E U \in Bad : U \subseteq T /\ U # T
    PROVE  Bad = {}
BY LeastSet

(* SumFunctionOnSet unfolds.                                                *)
One(S) == CHOOSE x \in S : TRUE
Step(f, g, s) == IF s = {} THEN 0 ELSE f[One(s)] + g[s \ {One(s)}]
IsSum(g, f, S) == g = [s \in SUBSET S |-> Step(f, g, s)]
Sums(f, S) == CHOOSE g : IsSum(g, f, S)

(* The value of the fold the sum is defined by.                             *)
LEMMA SumIs ==
    ASSUME NEW f, NEW S
    PROVE  SumFunctionOnSet(f, S) = Sums(f, S)[S]
BY DEF SumFunctionOnSet, FoldFunctionOnSet, MapThenFoldSet, Sums, IsSum, Step, One

(* The member a fold takes first.                                           *)
LEMMA OneIs == ASSUME NEW S, S # {} PROVE One(S) \in S
BY DEF One

(* There is such a function: by its values on sets of at most n.            *)
LEMMA SumsExist ==
    ASSUME NEW f, NEW S, IsFiniteSet(S)
    PROVE  IsSum(Sums(f, S), f, S)
<1> DEFINE Small(n) == {s \in SUBSET S : Cardinality(s) <= n}
           Bad == {n \in Nat : ~ \E g : g = [s \in Small(n) |-> Step(f, g, s)]}
<1>1. \A s \in SUBSET S : IsFiniteSet(s) /\ Cardinality(s) \in Nat
                          /\ Cardinality(s) <= Cardinality(S)
  BY FS_Subset, FS_CardinalityType
<1>2. 0 \notin Bad
  <2>1. \A s \in Small(0) : s = {}
    BY <1>1, FS_EmptySet
  <2>2. [s \in Small(0) |-> 0] = [s \in Small(0) |-> Step(f, [t \in Small(0) |-> 0], s)]
    BY <2>1 DEF Step
  <2> QED
    BY <2>2
<1>3. ASSUME NEW n \in Nat, n + 1 \in Bad PROVE n \in Bad
  <2> SUFFICES ASSUME NEW g, g = [s \in Small(n) |-> Step(f, g, s)] PROVE FALSE
    OBVIOUS
  <2> DEFINE h == [s \in Small(n + 1) |-> Step(f, g, s)]
  <2>1. \A s \in Small(n + 1) : s # {} => s \ {One(s)} \in Small(n)
    BY <1>1, OneIs, FS_RemoveElement
  <2>2. \A s \in Small(n) : s \in Small(n + 1)
    BY <1>1
  <2>3. \A s \in Small(n) : g[s] = Step(f, g, s) /\ h[s] = g[s]
    BY <2>2
  <2>4. \A s \in Small(n + 1) : Step(f, h, s) = Step(f, g, s)
    <3> SUFFICES ASSUME NEW s \in Small(n + 1) PROVE Step(f, h, s) = Step(f, g, s)
      OBVIOUS
    <3>1. s # {} => h[s \ {One(s)}] = g[s \ {One(s)}]
      BY <2>1, <2>3
    <3> HIDE DEF h
    <3> QED
      BY <3>1 DEF Step
  <2>5. h = [s \in Small(n + 1) |-> Step(f, h, s)]
    BY <2>4
  <2> HIDE DEF h
  <2> QED
    BY <2>5, <1>3
<1>4. Bad = {}
  <2> SUFFICES ASSUME Bad # {} PROVE FALSE
    OBVIOUS
  <2> HIDE DEF Bad
  <2>1. Bad \in SUBSET Nat
    BY DEF Bad
  <2>2. PICK n \in Bad : \A m \in Bad : n <= m
    BY <2>1, LeastNat
  <2>3. n \in Nat /\ n # 0 /\ n - 1 \in Nat /\ (n - 1) + 1 = n
    BY <2>1, <2>2, <1>2
  <2>4. n - 1 \in Bad
    BY <2>3, <2>2, <1>3
  <2> QED
    BY <2>3, <2>4, <2>2
<1>5. \E g : g = [s \in Small(Cardinality(S)) |-> Step(f, g, s)]
  BY <1>4, FS_CardinalityType
<1>6. Small(Cardinality(S)) = SUBSET S
  BY <1>1
<1>7. \E g : IsSum(g, f, S)
  BY <1>5, <1>6 DEF IsSum
<1> QED
  BY <1>7 DEF Sums

LEMMA SumsAt ==
    ASSUME NEW f, NEW S, IsFiniteSet(S), NEW T \in SUBSET S
    PROVE  Sums(f, S)[T] = Step(f, Sums(f, S), T)
<1>1. IsSum(Sums(f, S), f, S)
  BY SumsExist
<1>2. ASSUME NEW g, IsSum(g, f, S) PROVE g[T] = Step(f, g, T)
  BY <1>2 DEF IsSum
<1> QED
  BY <1>1, <1>2

(* Each value is that of a sum of its own.                                  *)
LEMMA SumsAgree ==
    ASSUME NEW f, NEW S, IsFiniteSet(S), NEW T \in SUBSET S
    PROVE  Sums(f, S)[T] = SumFunctionOnSet(f, T)
<1> DEFINE Bad == {V \in SUBSET S : \E U \in SUBSET S : V \subseteq U /\ Sums(f, U)[V] # Sums(f, V)[V]}
<1>1. \A U \in SUBSET S : IsFiniteSet(U)
  BY FS_Subset
<1>2. ASSUME NEW V \in Bad PROVE \E W \in Bad : W \subseteq V /\ W # V
  <2>1. PICK U \in SUBSET S : V \subseteq U /\ Sums(f, U)[V] # Sums(f, V)[V]
    OBVIOUS
  <2> DEFINE W == V \ {One(V)}
  <2>2. Sums(f, U)[V] = Step(f, Sums(f, U), V)
    BY <1>1, <2>1, SumsAt
  <2>3. Sums(f, V)[V] = Step(f, Sums(f, V), V)
    BY <1>1, <2>1, SumsAt
  <2>4. V # {}
    BY <2>1, <2>2, <2>3 DEF Step
  <2>5. Sums(f, U)[W] # Sums(f, V)[W]
    BY <2>1, <2>2, <2>3, <2>4 DEF Step
  <2>6. W \subseteq U /\ W \subseteq V /\ W \in SUBSET S /\ W # V
    BY <2>1, <2>4, OneIs
  <2> HIDE DEF W
  <2>7. W \in Bad
    BY <2>5, <2>6, <2>1
  <2> QED
    BY <2>6, <2>7
<1>3. Bad \subseteq SUBSET S
  OBVIOUS
<1> HIDE DEF Bad
<1>4. Bad = {}
  BY <1>2, <1>3, NoDescent
<1>5. Sums(f, S)[T] = Sums(f, T)[T]
  BY <1>4 DEF Bad
<1> QED
  BY <1>5, SumIs

LEMMA SumOfNone == ASSUME NEW f PROVE SumFunctionOnSet(f, {}) = 0
<1>1. Sums(f, {})[{}] = Step(f, Sums(f, {}), {})
  BY SumsAt, FS_EmptySet
<1>2. Sums(f, {})[{}] = 0
  BY <1>1 DEF Step
<1> QED
  BY <1>2, SumIs

LEMMA SumUnfolds ==
    ASSUME NEW f, NEW S, IsFiniteSet(S), S # {}
    PROVE  SumFunctionOnSet(f, S) = f[One(S)] + SumFunctionOnSet(f, S \ {One(S)})
<1>1. Sums(f, S)[S] = Step(f, Sums(f, S), S)
  BY SumsAt
<1>2. Sums(f, S)[S \ {One(S)}] = SumFunctionOnSet(f, S \ {One(S)})
  BY SumsAgree
<1> QED
  BY <1>1, <1>2, SumIs DEF Step

(* Amounts are natural numbers from here on.                                *)
LEMMA SumIsNat ==
    ASSUME NEW f, NEW S, IsFiniteSet(S), \A x \in S : f[x] \in Nat
    PROVE  SumFunctionOnSet(f, S) \in Nat
<1> DEFINE Bad == {T \in SUBSET S : SumFunctionOnSet(f, T) \notin Nat}
<1>1. ASSUME NEW T \in Bad PROVE \E U \in Bad : U \subseteq T /\ U # T
  <2>1. T \in SUBSET S /\ IsFiniteSet(T) /\ T # {}
    <3>1. T \in SUBSET S /\ IsFiniteSet(T)
      BY FS_Subset
    <3>2. T # {}
      BY SumOfNone
    <3> QED
      BY <3>1, <3>2
  <2> DEFINE U == T \ {One(T)}
  <2>2. One(T) \in T /\ U \in SUBSET S /\ U \subseteq T /\ U # T
    BY <2>1, OneIs
  <2>3. SumFunctionOnSet(f, T) = f[One(T)] + SumFunctionOnSet(f, U)
    BY <2>1, SumUnfolds
  <2>4. U \in Bad
    BY <2>1, <2>2, <2>3
  <2> QED
    BY <2>2, <2>4
<1>2. Bad \subseteq SUBSET S
  OBVIOUS
<1> HIDE DEF Bad
<1>3. Bad = {}
  BY <1>1, <1>2, NoDescent
<1> QED
  BY <1>3 DEF Bad

(* Any member may be taken out first.                                       *)
LEMMA SumTakesOut ==
    ASSUME NEW f, NEW S, IsFiniteSet(S), \A x \in S : f[x] \in Nat, NEW x \in S
    PROVE  SumFunctionOnSet(f, S) = f[x] + SumFunctionOnSet(f, S \ {x})
<1> DEFINE Sum(T) == SumFunctionOnSet(f, T)
           Bad == {T \in SUBSET S : \E z \in T : Sum(T) # f[z] + Sum(T \ {z})}
<1>0. \A T \in SUBSET S : IsFiniteSet(T) /\ Sum(T) \in Nat
  BY FS_Subset, SumIsNat
<1>1. ASSUME NEW T \in Bad PROVE \E U \in Bad : U \subseteq T /\ U # T
  <2> SUFFICES ASSUME ~ \E U \in Bad : U \subseteq T /\ U # T PROVE FALSE
    OBVIOUS
  <2>1. PICK z \in T : Sum(T) # f[z] + Sum(T \ {z})
    OBVIOUS
  <2> DEFINE o == One(T)
  <2>2. T \in SUBSET S /\ o \in T /\ z \in S /\ o \in S
    BY OneIs
  <2>3. Sum(T) = f[o] + Sum(T \ {o})
    BY <1>0, <2>2, SumUnfolds
  <2> HIDE DEF o
  <2>4. z # o
    BY <2>1, <2>3
  <2>5. T \ {o} \notin Bad /\ T \ {z} \notin Bad
    BY <2>2
  <2>6. Sum(T \ {o}) = f[z] + Sum((T \ {o}) \ {z})
    BY <2>2, <2>4, <2>5
  <2>7. Sum(T \ {z}) = f[o] + Sum((T \ {z}) \ {o})
    BY <2>2, <2>4, <2>5
  <2>8. (T \ {o}) \ {z} = (T \ {z}) \ {o} /\ (T \ {o}) \ {z} \in SUBSET S
    BY <2>2
  <2> DEFINE rest == Sum((T \ {o}) \ {z})
  <2>9. rest \in Nat /\ f[o] \in Nat /\ f[z] \in Nat
    BY <2>2, <2>8, <1>0
  <2>10. Sum(T) = f[o] + (f[z] + rest) /\ Sum(T \ {z}) = f[o] + rest
    BY <2>3, <2>6, <2>7, <2>8
  <2> HIDE DEF rest
  <2> QED
    BY <2>1, <2>9, <2>10
<1>2. Bad \subseteq SUBSET S
  OBVIOUS
<1> HIDE DEF Bad
<1>3. Bad = {}
  BY <1>1, <1>2, NoDescent
<1> QED
  BY <1>3 DEF Bad

LEMMA SumsSame ==
    ASSUME NEW f, NEW g, NEW S, IsFiniteSet(S), \A x \in S : f[x] = g[x]
    PROVE  SumFunctionOnSet(f, S) = SumFunctionOnSet(g, S)
<1> DEFINE Bad == {T \in SUBSET S : SumFunctionOnSet(f, T) # SumFunctionOnSet(g, T)}
<1>1. ASSUME NEW T \in Bad PROVE \E U \in Bad : U \subseteq T /\ U # T
  <2>1. T \in SUBSET S /\ IsFiniteSet(T) /\ T # {}
    <3>1. T \in SUBSET S /\ IsFiniteSet(T)
      BY FS_Subset
    <3>2. T # {}
      BY SumOfNone
    <3> QED
      BY <3>1, <3>2
  <2> DEFINE U == T \ {One(T)}
  <2>2. One(T) \in T /\ U \in SUBSET S /\ U \subseteq T /\ U # T
    BY <2>1, OneIs
  <2>3. /\ SumFunctionOnSet(f, T) = f[One(T)] + SumFunctionOnSet(f, U)
        /\ SumFunctionOnSet(g, T) = g[One(T)] + SumFunctionOnSet(g, U)
    BY <2>1, SumUnfolds
  <2>4. U \in Bad
    BY <2>1, <2>2, <2>3
  <2> QED
    BY <2>2, <2>4
<1>2. Bad \subseteq SUBSET S
  OBVIOUS
<1> HIDE DEF Bad
<1>3. Bad = {}
  BY <1>1, <1>2, NoDescent
<1> QED
  BY <1>3 DEF Bad

(* How a sum moves when one member does.                                    *)
At(f, S, x) == IF x \in S THEN f[x] ELSE 0

LEMMA SumOfOneMore ==
    ASSUME NEW f, NEW S, IsFiniteSet(S), \A y \in S : f[y] \in Nat, NEW x
    PROVE  /\ SumFunctionOnSet(f, S) = At(f, S, x) + SumFunctionOnSet(f, S \ {x})
           /\ At(f, S, x) \in Nat /\ SumFunctionOnSet(f, S \ {x}) \in Nat
<1>1. IsFiniteSet(S \ {x}) /\ SumFunctionOnSet(f, S \ {x}) \in Nat
  BY FS_RemoveElement, SumIsNat
<1>2. CASE x \in S
  BY <1>1, <1>2, SumTakesOut DEF At
<1>3. CASE x \notin S
  <2>1. S \ {x} = S
    BY <1>3
  <2> QED
    BY <1>1, <1>3, <2>1 DEF At
<1> QED
  BY <1>2, <1>3

LEMMA SumMoves ==
    ASSUME NEW f, NEW g, NEW S, NEW T, NEW x, IsFiniteSet(S), IsFiniteSet(T),
           S \ {x} = T \ {x}, \A y \in S : f[y] \in Nat, \A y \in T : g[y] \in Nat,
           \A y \in S \ {x} : f[y] = g[y]
    PROVE  SumFunctionOnSet(g, T) = SumFunctionOnSet(f, S) - At(f, S, x) + At(g, T, x)
<1> DEFINE rest == S \ {x}
<1>0. IsFiniteSet(rest) /\ rest = T \ {x} /\ \A y \in rest : f[y] = g[y]
  BY FS_RemoveElement
<1> HIDE DEF rest
<1>4. SumFunctionOnSet(f, rest) = SumFunctionOnSet(g, rest)
  BY <1>0, SumsSame
<1>1. SumFunctionOnSet(f, S \ {x}) = SumFunctionOnSet(g, T \ {x})
  BY <1>0, <1>4 DEF rest
<1>2. /\ SumFunctionOnSet(f, S) = At(f, S, x) + SumFunctionOnSet(f, S \ {x})
      /\ At(f, S, x) \in Nat /\ SumFunctionOnSet(f, S \ {x}) \in Nat
  BY SumOfOneMore
<1>3. /\ SumFunctionOnSet(g, T) = At(g, T, x) + SumFunctionOnSet(g, T \ {x})
      /\ At(g, T, x) \in Nat /\ SumFunctionOnSet(g, T \ {x}) \in Nat
  BY SumOfOneMore
<1> QED
  BY <1>1, <1>2, <1>3

LEMMA SumOfZeros ==
    ASSUME NEW f, NEW S, IsFiniteSet(S), \A x \in S : f[x] = 0
    PROVE  SumFunctionOnSet(f, S) = 0
<1> DEFINE Bad == {T \in SUBSET S : SumFunctionOnSet(f, T) # 0}
<1>1. ASSUME NEW T \in Bad PROVE \E U \in Bad : U \subseteq T /\ U # T
  <2>1. T \in SUBSET S /\ IsFiniteSet(T) /\ T # {}
    <3>1. T \in SUBSET S /\ IsFiniteSet(T)
      BY FS_Subset
    <3>2. T # {}
      BY SumOfNone
    <3> QED
      BY <3>1, <3>2
  <2> DEFINE U == T \ {One(T)}
  <2>2. One(T) \in T /\ U \in SUBSET S /\ U \subseteq T /\ U # T
    BY <2>1, OneIs
  <2>3. SumFunctionOnSet(f, T) = f[One(T)] + SumFunctionOnSet(f, U)
    BY <2>1, SumUnfolds
  <2>4. U \in Bad
    BY <2>1, <2>2, <2>3
  <2> QED
    BY <2>2, <2>4
<1>2. Bad \subseteq SUBSET S
  OBVIOUS
<1> HIDE DEF Bad
<1>3. Bad = {}
  BY <1>1, <1>2, NoDescent
<1> QED
  BY <1>3 DEF Bad

-----------------------------------------------------------------------------
(* The ledger.                                                              *)

(* What a call is on the books for, and until when.                         *)
Agrees(r) ==
    /\ ~r.settled => r.owes = r.hold
    /\ r.pc \in {"calling", "metering"} => ~r.settled
    /\ r.pc \in {"new", "waiting", "ready"} => r.settled /\ r.owes = 0
    /\ up /\ r.pc = "dead" => r.settled
    /\ ~up => r.pc \notin Active

CallsAgree ==
    \A s \in Spender : Agrees(call[s])

Books == HoldsAreReserved /\ EveryCallCountsOnce

(* What one call adds to a seat's reservation, and to its books.            *)
HeldBy(s, c) ==
    IF call[s].campaign = c /\ ~call[s].settled THEN call[s].hold ELSE 0
OwedBy(s, c) == IF call[s].campaign = c THEN call[s].owes ELSE 0

Holds == [s \in Spender |-> call[s].hold]
Owes == [s \in Spender |-> call[s].owes]
Unsettled(c) == {s \in Spender : call[s].campaign = c /\ ~call[s].settled}
Calls(c) == {s \in Spender : call[s].campaign = c}

(* The fields of a call and of a row the ledger uses.                       *)
LEMMA CallFacts ==
    ASSUME TypeOK, NEW s \in Spender
    PROVE  /\ call[s].hold \in Nat /\ call[s].owes \in Nat /\ call[s].cost \in Nat
           /\ call[s].settled \in BOOLEAN
           /\ call[s].pc \in Place
BY DEF TypeOK, Place

(* ... and of a row.                                                        *)
LEMMA RowFacts ==
    ASSUME TypeOK, NEW c \in Campaign
    PROVE  /\ seat[c].budget \in Nat /\ seat[c].used \in Nat /\ seat[c].reserved \in Nat
           /\ seat[c].unknown \in Nat /\ seat[c].overage \in Nat /\ granted[c] \in Nat
           /\ Committed(seat[c]) \in Nat
BY DEF TypeOK, Committed

(* A reservation covers each hold under it.                                 *)
LEMMA HoldIsCovered ==
    ASSUME TypeOK, Books, NEW s \in Spender, NEW c \in Campaign
    PROVE  HeldBy(s, c) \in Nat /\ HeldBy(s, c) <= seat[c].reserved
<1>1. IsFiniteSet(Unsettled(c)) /\ \A x \in Unsettled(c) : Holds[x] \in Nat
  <2>1. Unsettled(c) \in SUBSET Spender
    BY DEF Unsettled
  <2>2. IsFiniteSet(Unsettled(c))
    BY <2>1, CallsAreFinite, FS_Subset
  <2>3. \A x \in Spender : Holds[x] \in Nat
    BY CallFacts DEF Holds
  <2> QED
    BY <2>1, <2>2, <2>3
<1>2. /\ SumFunctionOnSet(Holds, Unsettled(c))
           = At(Holds, Unsettled(c), s) + SumFunctionOnSet(Holds, Unsettled(c) \ {s})
      /\ At(Holds, Unsettled(c), s) \in Nat
      /\ SumFunctionOnSet(Holds, Unsettled(c) \ {s}) \in Nat
  BY <1>1, SumOfOneMore
<1>3. At(Holds, Unsettled(c), s) = HeldBy(s, c)
  BY DEF At, Holds, Unsettled, HeldBy
<1>4. seat[c].reserved = SumFunctionOnSet(Holds, Unsettled(c))
  BY DEF Books, HoldsAreReserved, Holds, Unsettled
<1> QED
  BY <1>2, <1>3, <1>4

(* The books move with the one call that does.                              *)
LEMMA BooksMove ==
    ASSUME TypeOK, TypeOK', Books, NEW s \in Spender,
           \A x \in Spender \ {s} : call'[x] = call[x],
           \A c \in Campaign :
             /\ seat'[c].reserved = seat[c].reserved - HeldBy(s, c) + HeldBy(s, c)'
             /\ Committed(seat'[c]) = Committed(seat[c]) - OwedBy(s, c) + OwedBy(s, c)'
    PROVE  Books'
<1>0. /\ \A x \in Spender : Holds[x] \in Nat /\ Owes[x] \in Nat
      /\ \A x \in Spender : Holds'[x] \in Nat /\ Owes'[x] \in Nat
      /\ \A x \in Spender \ {s} : Holds'[x] = Holds[x] /\ Owes'[x] = Owes[x]
  BY DEF TypeOK, Holds, Owes
<1>1. ASSUME NEW c \in Campaign
      PROVE  SumFunctionOnSet(Holds', Unsettled(c)') = seat'[c].reserved
  <2>1. /\ Unsettled(c) \in SUBSET Spender /\ Unsettled(c)' \in SUBSET Spender
        /\ Unsettled(c) \ {s} = Unsettled(c)' \ {s}
    BY DEF Unsettled
  <2>2. IsFiniteSet(Unsettled(c)) /\ IsFiniteSet(Unsettled(c)')
    BY <2>1, CallsAreFinite, FS_Subset
  <2>3. SumFunctionOnSet(Holds', Unsettled(c)')
          = SumFunctionOnSet(Holds, Unsettled(c)) - At(Holds, Unsettled(c), s)
              + At(Holds', Unsettled(c)', s)
    BY <1>0, <2>1, <2>2, SumMoves
  <2>4. At(Holds, Unsettled(c), s) = HeldBy(s, c) /\ At(Holds', Unsettled(c)', s) = HeldBy(s, c)'
    BY DEF At, Holds, Unsettled, HeldBy
  <2>5. seat[c].reserved = SumFunctionOnSet(Holds, Unsettled(c))
    BY DEF Books, HoldsAreReserved, Holds, Unsettled
  <2> QED
    BY <2>3, <2>4, <2>5
<1>2. ASSUME NEW c \in Campaign
      PROVE  SumFunctionOnSet(Owes', Calls(c)') = Committed(seat'[c])
  <2>1. /\ Calls(c) \in SUBSET Spender /\ Calls(c)' \in SUBSET Spender
        /\ Calls(c) \ {s} = Calls(c)' \ {s}
    BY DEF Calls
  <2>2. IsFiniteSet(Calls(c)) /\ IsFiniteSet(Calls(c)')
    BY <2>1, CallsAreFinite, FS_Subset
  <2>3. SumFunctionOnSet(Owes', Calls(c)')
          = SumFunctionOnSet(Owes, Calls(c)) - At(Owes, Calls(c), s)
              + At(Owes', Calls(c)', s)
    BY <1>0, <2>1, <2>2, SumMoves
  <2>4. At(Owes, Calls(c), s) = OwedBy(s, c) /\ At(Owes', Calls(c)', s) = OwedBy(s, c)'
    BY DEF At, Owes, Calls, OwedBy
  <2>5. Committed(seat[c]) = SumFunctionOnSet(Owes, Calls(c))
    BY DEF Books, EveryCallCountsOnce, Owes, Calls
  <2> QED
    BY <2>3, <2>4, <2>5
<1> QED
  BY <1>1, <1>2 DEF Books, HoldsAreReserved, EveryCallCountsOnce, Holds, Owes, Unsettled, Calls

(* Budgets and the cap, as far as they bound what is granted.               *)
Limits ==
    /\ \A c \in Campaign : seat[c].budget <= granted[c] /\ seat[c].overage <= seat[c].used
    /\ ceiling > 0 => 0 < cap /\ cap <= ceiling

LedgerInv == CallsAgree /\ Books /\ Limits /\ WithinBudget /\ WithinCap

Bounds == Limits /\ WithinBudget /\ WithinCap

TotalOverage == SumFunctionOnSet([c \in Campaign |-> seat[c].overage], Campaign)

(* The totals move with the one row that does.                              *)
LEMMA TotalsMove ==
    ASSUME TypeOK, TypeOK', NEW c \in Campaign, \A d \in Campaign \ {c} : seat'[d] = seat[d]
    PROVE  /\ TotalCommitted' = TotalCommitted - Committed(seat[c]) + Committed(seat'[c])
           /\ TotalOverage' = TotalOverage - seat[c].overage + seat'[c].overage
           /\ TotalCommitted \in Nat /\ TotalOverage \in Nat
<1> DEFINE f == [d \in Campaign |-> Committed(seat[d])]
           g == [d \in Campaign |-> Committed(seat'[d])]
           o == [d \in Campaign |-> seat[d].overage]
           p == [d \in Campaign |-> seat'[d].overage]
<1>1. /\ \A d \in Campaign : f[d] \in Nat /\ g[d] \in Nat /\ o[d] \in Nat /\ p[d] \in Nat
      /\ \A d \in Campaign \ {c} : f[d] = g[d] /\ o[d] = p[d]
  BY DEF TypeOK, Committed
<1>2. /\ f[c] = Committed(seat[c]) /\ g[c] = Committed(seat'[c])
      /\ o[c] = seat[c].overage /\ p[c] = seat'[c].overage
  OBVIOUS
<1>3. TotalCommitted = SumFunctionOnSet(f, Campaign) /\ TotalCommitted' = SumFunctionOnSet(g, Campaign)
  BY DEF TotalCommitted
<1>4. TotalOverage = SumFunctionOnSet(o, Campaign) /\ TotalOverage' = SumFunctionOnSet(p, Campaign)
  BY DEF TotalOverage
<1> HIDE DEF f, g, o, p
<1>5. /\ SumFunctionOnSet(g, Campaign)
           = SumFunctionOnSet(f, Campaign) - At(f, Campaign, c) + At(g, Campaign, c)
      /\ SumFunctionOnSet(p, Campaign)
           = SumFunctionOnSet(o, Campaign) - At(o, Campaign, c) + At(p, Campaign, c)
      /\ SumFunctionOnSet(f, Campaign) \in Nat /\ SumFunctionOnSet(o, Campaign) \in Nat
  BY <1>1, CallsAreFinite, SumMoves, SumIsNat
<1> QED
  BY <1>2, <1>3, <1>4, <1>5 DEF At

(* A seat whose commitments, less its overage, do not grow stays bounded.   *)
LEMMA BoundsStand ==
    ASSUME TypeOK, TypeOK', Bounds, NEW c \in Campaign,
           \A d \in Campaign \ {c} : seat'[d] = seat[d] /\ granted'[d] = granted[d],
           UNCHANGED <<cap, ceiling>>,
           seat'[c].budget <= granted'[c], seat'[c].overage <= seat'[c].used,
           Committed(seat'[c]) <= granted'[c] + seat'[c].overage,
           Committed(seat'[c]) - seat'[c].overage <= Committed(seat[c]) - seat[c].overage
    PROVE  Bounds'
<1>1. Limits'
  BY DEF Bounds, Limits
<1>2. WithinBudget'
  BY DEF Bounds, WithinBudget
<1>3. WithinCap'
  <2>1. /\ TotalCommitted' = TotalCommitted - Committed(seat[c]) + Committed(seat'[c])
        /\ TotalOverage' = TotalOverage - seat[c].overage + seat'[c].overage
        /\ TotalCommitted \in Nat /\ TotalOverage \in Nat
    BY TotalsMove
  <2>2. ceiling > 0 => TotalCommitted <= ceiling + TotalOverage
    BY DEF Bounds, WithinCap, TotalOverage
  <2>3. /\ Committed(seat[c]) \in Nat /\ Committed(seat'[c]) \in Nat /\ ceiling \in Nat
        /\ seat[c].overage \in Nat /\ seat'[c].overage \in Nat
    BY DEF TypeOK, Committed
  <2>4. ceiling > 0 => TotalCommitted' <= ceiling + TotalOverage'
    BY <2>1, <2>2, <2>3
  <2> QED
    BY <2>4 DEF WithinCap, TotalOverage
<1> QED
  BY <1>1, <1>2, <1>3 DEF Bounds

(* A step of one call that touches no amounts.                              *)
LEMMA LedgerStands ==
    ASSUME TypeOK, TypeOK', LedgerInv, NEW s \in Spender,
           \A x \in Spender \ {s} : call'[x] = call[x],
           UNCHANGED <<seat, granted, cap, ceiling, up>>,
           Agrees(call'[s]),
           \A c \in Campaign : HeldBy(s, c)' = HeldBy(s, c) /\ OwedBy(s, c)' = OwedBy(s, c)
    PROVE  LedgerInv'
<1>1. CallsAgree'
  BY DEF LedgerInv, CallsAgree, Agrees
<1>2. Books'
  <2>1. \A c \in Campaign :
          /\ HeldBy(s, c) \in Nat /\ OwedBy(s, c) \in Nat
          /\ seat[c].reserved \in Nat /\ Committed(seat[c]) \in Nat
    BY CallFacts, RowFacts DEF HeldBy, OwedBy
  <2>2. \A c \in Campaign :
          /\ seat'[c].reserved = seat[c].reserved - HeldBy(s, c) + HeldBy(s, c)'
          /\ Committed(seat'[c]) = Committed(seat[c]) - OwedBy(s, c) + OwedBy(s, c)'
    BY <2>1
  <2> QED
    BY <2>2, BooksMove DEF LedgerInv
<1>3. Limits' /\ WithinBudget' /\ WithinCap'
  BY DEF LedgerInv, Limits, WithinBudget, WithinCap, TotalCommitted
<1> QED
  BY <1>1, <1>2, <1>3 DEF LedgerInv

(* A call that starts, waits, is refused or asks the provider.              *)
LEMMA QuietKeepsLedger ==
    ASSUME TypeOK, TypeOK', LedgerInv, NEW s \in Spender,
           \/ \E c \in Campaign : Join(s, c) \/ Begin(s, c)
           \/ Enter(s) \/ Leave(s) \/ Answer(s) \/ MeterFails(s) \/ MarkFails(s)
    PROVE  LedgerInv'
<1>1. /\ call \in [Spender -> CallType] /\ Agrees(call[s])
  BY DEF TypeOK, CallType, Place, LedgerInv, CallsAgree
<1>2. UNCHANGED <<seat, granted, cap, ceiling, up>>
  BY DEF Join, Begin, Enter, Leave, Answer, MeterFails, MarkFails, KeepLedger, KeepServer
<1>3. \A x \in Spender \ {s} : call'[x] = call[x]
  BY <1>1 DEF Join, Begin, Enter, Leave, Answer, MeterFails, MarkFails, Goto
<1>4. /\ call'[s].settled = call[s].settled /\ call'[s].owes = call[s].owes
      /\ call'[s].hold = call[s].hold \/ call[s].settled
      /\ \/ call'[s].campaign = call[s].campaign
         \/ call[s].pc = "new"
      /\ \/ call[s].pc \in {"new", "waiting"} /\ call'[s].pc \in {"waiting", "ready", "leaving"}
         \/ call[s].pc = "leaving" /\ call'[s].pc = "done"
         \/ call[s].pc = "calling" /\ call'[s].pc = "metering"
         \/ call'[s].pc \in {"unknown", "leaving"}
      /\ call[s].pc = "new" => up /\ call'[s].pc \in {"waiting", "ready"}
      /\ call[s].pc \in Active \/ call[s].pc = "new"
  <2> USE <1>1 DEF CallType, Active, Inside
  <2>1. ASSUME NEW c \in Campaign, Join(s, c) PROVE <1>4!:
    BY <2>1 DEF Join
  <2>2. ASSUME NEW c \in Campaign, Begin(s, c) PROVE <1>4!:
    BY <2>2 DEF Begin
  <2>3. CASE Enter(s)
    BY <2>3 DEF Enter
  <2>4. CASE Leave(s)
    BY <2>4 DEF Leave, Over
  <2>5. CASE Answer(s)
    BY <2>5 DEF Answer, Goto
  <2>6. CASE MeterFails(s)
    BY <2>6 DEF MeterFails
  <2>7. CASE MarkFails(s)
    BY <2>7 DEF MarkFails, Goto
  <2> QED
    BY <2>1, <2>2, <2>3, <2>4, <2>5, <2>6, <2>7
<1>5. Agrees(call'[s])
  BY <1>1, <1>4 DEF Agrees, Active, Inside
<1>6. \A c \in Campaign : HeldBy(s, c)' = HeldBy(s, c) /\ OwedBy(s, c)' = OwedBy(s, c)
  BY <1>1, <1>4 DEF Agrees, HeldBy, OwedBy
<1> QED
  BY <1>2, <1>3, <1>5, <1>6, LedgerStands

(* A hold fits into what the seat and the server have left: reading and     *)
(* reserving are one transaction.                                           *)
LEMMA ReserveKeepsLedger ==
    ASSUME TypeOK, TypeOK', LedgerInv, NEW s \in Spender, call[s].campaign \in Campaign,
           Reserve(s)
    PROVE  LedgerInv'
<1> DEFINE c == call[s].campaign
           remaining == BudgetRemainingFor(seat[c])
           open == ServerAvailable(c)
<1>1. /\ call \in [Spender -> CallType] /\ seat \in [Campaign -> RowType]
      /\ Agrees(call[s]) /\ call[s].pc = "ready" /\ call[s].settled /\ call[s].owes = 0
      /\ up /\ c \in Campaign
  BY DEF TypeOK, CallType, Place, RowType, LedgerInv, CallsAgree, Agrees, Reserve, Active, Inside
<1>2. UNCHANGED <<granted, cap, ceiling, up>>
  BY DEF Reserve, KeepServer
<1>3. PICK hold \in 0..MaxRequest :
        /\ \E requested \in 1..MaxRequest : hold = Least(requested, Least(remaining, open))
        /\ \/ hold = 0 /\ Goto(s, "leaving") /\ UNCHANGED seat
           \/ /\ hold > 0
              /\ call' = [call EXCEPT ![s] =
                            [@ EXCEPT !.pc = "calling", !.hold = hold,
                                      !.settled = FALSE, !.owes = hold]]
              /\ seat' = [seat EXCEPT ![c].reserved = @ + hold]
  BY DEF Reserve
<1>4. CASE hold = 0 /\ Goto(s, "leaving") /\ UNCHANGED seat
  <2>1. \A x \in Spender \ {s} : call'[x] = call[x]
    BY <1>1, <1>4 DEF Goto
  <2>2. /\ call'[s].settled = call[s].settled /\ call'[s].owes = call[s].owes
        /\ call'[s].hold = call[s].hold /\ call'[s].campaign = call[s].campaign
        /\ call'[s].pc = "leaving"
    BY <1>1, <1>4 DEF Goto, CallType
  <2>3. Agrees(call'[s])
    BY <1>1, <2>2 DEF Agrees
  <2>4. \A d \in Campaign : HeldBy(s, d)' = HeldBy(s, d) /\ OwedBy(s, d)' = OwedBy(s, d)
    BY <2>2 DEF HeldBy, OwedBy
  <2> QED
    BY <1>2, <1>4, <2>1, <2>3, <2>4, LedgerStands
<1>5. CASE /\ hold > 0
           /\ call' = [call EXCEPT ![s] =
                         [@ EXCEPT !.pc = "calling", !.hold = hold,
                                   !.settled = FALSE, !.owes = hold]]
           /\ seat' = [seat EXCEPT ![c].reserved = @ + hold]
  <2>0. hold \in Nat
    BY AmountsAreNat
  <2>1. /\ \A x \in Spender \ {s} : call'[x] = call[x]
        /\ \A d \in Campaign \ {c} : seat'[d] = seat[d]
    BY <1>1, <1>5
  <2>2. /\ ~call'[s].settled /\ call'[s].owes = hold /\ call'[s].hold = hold
        /\ call'[s].campaign = c /\ call'[s].pc = "calling"
    BY <1>1, <1>5 DEF CallType
  <2>3. /\ seat'[c].budget = seat[c].budget /\ seat'[c].used = seat[c].used
        /\ seat'[c].unknown = seat[c].unknown /\ seat'[c].overage = seat[c].overage
        /\ seat'[c].reserved = seat[c].reserved + hold
    BY <1>1, <1>5 DEF RowType
  <2>4. CallsAgree'
    <3>1. Agrees(call'[s])
      BY <1>1, <2>2 DEF Agrees
    <3> QED
      BY <1>2, <2>1, <3>1 DEF LedgerInv, CallsAgree, Agrees
  <2>5. /\ seat[c].budget \in Nat /\ seat[c].used \in Nat /\ seat[c].reserved \in Nat
        /\ seat[c].unknown \in Nat /\ seat[c].overage \in Nat /\ granted[c] \in Nat
        /\ Committed(seat[c]) \in Nat
    BY <1>1, RowFacts
  <2>6. Committed(seat'[c]) = Committed(seat[c]) + hold
    BY <2>0, <2>3, <2>5 DEF Committed
  <2>7. Books'
    <3>1. ASSUME NEW d \in Campaign
          PROVE  /\ HeldBy(s, d) = 0 /\ OwedBy(s, d) = 0
                 /\ HeldBy(s, d)' = IF d = c THEN hold ELSE 0
                 /\ OwedBy(s, d)' = IF d = c THEN hold ELSE 0
                 /\ seat[d].reserved \in Nat /\ Committed(seat[d]) \in Nat
      BY <1>1, <2>2, RowFacts DEF HeldBy, OwedBy
    <3>2. \A d \in Campaign :
            /\ seat'[d].reserved = seat[d].reserved - HeldBy(s, d) + HeldBy(s, d)'
            /\ Committed(seat'[d]) = Committed(seat[d]) - OwedBy(s, d) + OwedBy(s, d)'
      BY <2>0, <2>1, <2>3, <2>6, <3>1
    <3> QED
      BY <2>1, <3>2, BooksMove DEF LedgerInv
  <2>8. hold <= remaining /\ hold <= open
    <3>1. remaining \in Nat
      BY <2>5, ClampedIsNat DEF BudgetRemainingFor
    <3>2. open \in Nat
      <4>1. TotalCommitted \in Nat
        BY <1>1, <2>1, TotalsMove
      <4>2. cap \in Nat /\ MaxRequest \in Nat
        BY AmountsAreNat DEF TypeOK
      <4> QED
        BY <4>1, <4>2, ClampedIsNat DEF ServerAvailable
    <3> HIDE DEF remaining, open
    <3> QED
      BY <1>3, <2>0, <3>1, <3>2 DEF Least
  <2>9. /\ Committed(seat[c]) + hold <= seat[c].budget
        /\ cap > 0 => TotalCommitted + hold <= cap
    <3>1. TotalCommitted \in Nat /\ cap \in Nat
      BY <1>1, <2>1, TotalsMove DEF TypeOK
    <3> QED
      BY <1>5, <2>0, <2>5, <2>8, <3>1 DEF BudgetRemainingFor, ServerAvailable, Clamped
  <2>10. Limits'
    BY <1>2, <2>1, <2>3 DEF LedgerInv, Limits
  <2>11. WithinBudget'
    <3>1. Committed(seat'[c]) <= granted'[c] + seat'[c].overage
      BY <1>1, <1>2, <2>0, <2>3, <2>5, <2>6, <2>9 DEF LedgerInv, Limits
    <3> QED
      BY <1>2, <2>1, <3>1 DEF LedgerInv, WithinBudget
  <2>12. WithinCap'
    <3>1. /\ TotalCommitted' = TotalCommitted - Committed(seat[c]) + Committed(seat'[c])
          /\ TotalOverage' = TotalOverage - seat[c].overage + seat'[c].overage
          /\ TotalCommitted \in Nat /\ TotalOverage \in Nat
      BY <1>1, <2>1, TotalsMove
    <3>2. ceiling > 0 => 0 < cap /\ cap <= ceiling
      BY DEF LedgerInv, Limits
    <3>3. ceiling > 0 => TotalCommitted' <= ceiling + TotalOverage'
      <4>1. TotalCommitted' = TotalCommitted + hold /\ TotalOverage' = TotalOverage
        BY <2>0, <2>3, <2>5, <2>6, <3>1
      <4>2. ceiling \in Nat /\ cap \in Nat
        BY DEF TypeOK
      <4> QED
        BY <2>0, <2>9, <3>1, <3>2, <4>1, <4>2
    <3> QED
      BY <1>2, <3>3 DEF WithinCap, TotalOverage
  <2> QED
    BY <2>4, <2>7, <2>10, <2>11, <2>12 DEF LedgerInv
<1> QED
  BY <1>3, <1>4, <1>5

(* A measured call trades its hold for its cost, the excess for overage.    *)
LEMMA MeterKeepsLedger ==
    ASSUME TypeOK, TypeOK', LedgerInv, NEW s \in Spender, call[s].campaign \in Campaign,
           MeterTurn(s)
    PROVE  LedgerInv'
<1> DEFINE c == call[s].campaign
           hold == call[s].hold
           cost == call[s].cost
<1>1. /\ call \in [Spender -> CallType] /\ seat \in [Campaign -> RowType]
      /\ call[s].pc = "metering" /\ ~call[s].settled /\ call[s].owes = hold
      /\ up /\ c \in Campaign /\ hold \in Nat /\ cost \in Nat
  BY CallFacts DEF TypeOK, CallType, Place, RowType, LedgerInv, CallsAgree, Agrees,
                   MeterTurn, Active, Inside
<1>2. UNCHANGED <<granted, cap, ceiling, up>>
  BY DEF MeterTurn, KeepServer
<1>3. PICK pc \in {"leaving", "unknown"} :
        call' = [call EXCEPT ![s] = [@ EXCEPT !.pc = pc, !.settled = TRUE,
                                              !.cost = 0, !.owes = cost]]
  BY DEF MeterTurn, Fallbacks
<1>4. seat' = [seat EXCEPT ![c] = Metered(@, hold, cost)]
  BY DEF MeterTurn
<1>5. /\ \A x \in Spender \ {s} : call'[x] = call[x]
      /\ \A d \in Campaign \ {c} : seat'[d] = seat[d]
      /\ seat'[c] = Metered(seat[c], hold, cost)
  BY <1>1, <1>3, <1>4
<1>6. /\ call'[s].settled /\ call'[s].owes = cost /\ call'[s].campaign = c
      /\ call'[s].pc \in {"leaving", "unknown"}
  BY <1>1, <1>3 DEF CallType
<1>7. /\ seat[c].budget \in Nat /\ seat[c].used \in Nat /\ seat[c].reserved \in Nat
      /\ seat[c].unknown \in Nat /\ seat[c].overage \in Nat /\ granted[c] \in Nat
      /\ Committed(seat[c]) \in Nat
  BY <1>1, RowFacts
<1>8. hold <= seat[c].reserved
  <2>1. HeldBy(s, c) <= seat[c].reserved
    BY <1>1, HoldIsCovered DEF LedgerInv
  <2> QED
    BY <1>1, <2>1 DEF HeldBy
<1>9. /\ seat'[c].budget = seat[c].budget /\ seat'[c].used = seat[c].used + cost
      /\ seat'[c].unknown = seat[c].unknown
      /\ seat'[c].overage = seat[c].overage + Overage(hold, cost)
      /\ seat'[c].reserved = seat[c].reserved - hold
  <2>1. Clamped(seat[c].reserved - hold) = seat[c].reserved - hold
    BY <1>1, <1>7, <1>8 DEF Clamped
  <2> QED
    BY <1>1, <1>5, <2>1 DEF Metered, RowType
<1>10. Overage(hold, cost) \in Nat /\ cost - hold <= Overage(hold, cost) /\ Overage(hold, cost) <= cost
  BY <1>1 DEF Overage, Clamped
<1>11. Committed(seat'[c]) = Committed(seat[c]) - hold + cost
  BY <1>1, <1>7, <1>9 DEF Committed
<1>12. CallsAgree'
  <2>1. Agrees(call'[s])
    BY <1>1, <1>6 DEF Agrees
  <2> QED
    BY <1>2, <1>5, <2>1 DEF LedgerInv, CallsAgree, Agrees
<1>13. Books'
  <2>1. ASSUME NEW d \in Campaign
        PROVE  /\ HeldBy(s, d) = (IF d = c THEN hold ELSE 0) /\ HeldBy(s, d)' = 0
               /\ OwedBy(s, d) = (IF d = c THEN hold ELSE 0)
               /\ OwedBy(s, d)' = (IF d = c THEN cost ELSE 0)
               /\ seat[d].reserved \in Nat /\ Committed(seat[d]) \in Nat
    BY <1>1, <1>6, RowFacts DEF HeldBy, OwedBy
  <2>2. \A d \in Campaign :
          /\ seat'[d].reserved = seat[d].reserved - HeldBy(s, d) + HeldBy(s, d)'
          /\ Committed(seat'[d]) = Committed(seat[d]) - OwedBy(s, d) + OwedBy(s, d)'
    BY <1>1, <1>5, <1>9, <1>11, <2>1
  <2> QED
    BY <1>5, <2>2, BooksMove DEF LedgerInv
<1>14. Bounds'
  <2>1. /\ seat[c].budget <= granted[c] /\ seat[c].overage <= seat[c].used
        /\ Committed(seat[c]) <= granted[c] + seat[c].overage
    BY <1>1 DEF LedgerInv, Limits, WithinBudget
  <2>2. /\ seat'[c].budget <= granted'[c] /\ seat'[c].overage <= seat'[c].used
        /\ Committed(seat'[c]) <= granted'[c] + seat'[c].overage
        /\ Committed(seat'[c]) - seat'[c].overage <= Committed(seat[c]) - seat[c].overage
    BY <1>1, <1>2, <1>7, <1>9, <1>10, <1>11, <2>1
  <2> QED
    BY <1>1, <1>2, <1>5, <2>2, BoundsStand DEF LedgerInv, Bounds
<1> QED
  BY <1>12, <1>13, <1>14 DEF LedgerInv, Bounds

(* An unmeasured call trades its hold for as much unknown, and only once.   *)
LEMMA MarkKeepsLedger ==
    ASSUME TypeOK, TypeOK', LedgerInv, NEW s \in Spender, call[s].campaign \in Campaign,
           MarkUnknown(s)
    PROVE  LedgerInv'
<1> DEFINE c == call[s].campaign
           hold == call[s].hold
<1>1. /\ call \in [Spender -> CallType] /\ seat \in [Campaign -> RowType]
      /\ Agrees(call[s]) /\ call[s].pc = "unknown"
      /\ up /\ c \in Campaign /\ hold \in Nat /\ call[s].owes \in Nat
  BY CallFacts DEF TypeOK, CallType, Place, RowType, LedgerInv, CallsAgree, Agrees,
                   MarkUnknown, Active, Inside
<1>2. /\ UNCHANGED <<granted, cap, ceiling, up>>
      /\ call' = [call EXCEPT ![s] = [@ EXCEPT !.pc = "leaving", !.settled = TRUE]]
      /\ seat' = IF call[s].settled THEN seat
                 ELSE [seat EXCEPT ![c] = AsUnknown(@, hold)]
  BY DEF MarkUnknown, KeepServer
<1>3. /\ \A x \in Spender \ {s} : call'[x] = call[x]
      /\ call'[s].settled /\ call'[s].owes = call[s].owes /\ call'[s].campaign = c
      /\ call'[s].pc = "leaving"
  BY <1>1, <1>2 DEF CallType
<1>4. Agrees(call'[s])
  BY <1>1, <1>3 DEF Agrees
<1>5. CASE call[s].settled
  <2>1. \A d \in Campaign : HeldBy(s, d)' = HeldBy(s, d) /\ OwedBy(s, d)' = OwedBy(s, d)
    BY <1>3, <1>5 DEF HeldBy, OwedBy
  <2> QED
    BY <1>2, <1>3, <1>4, <1>5, <2>1, LedgerStands
<1>6. CASE ~call[s].settled
  <2>1. /\ \A d \in Campaign \ {c} : seat'[d] = seat[d]
        /\ seat'[c] = AsUnknown(seat[c], hold) /\ call[s].owes = hold
    BY <1>1, <1>2, <1>6 DEF Agrees
  <2>2. /\ seat[c].budget \in Nat /\ seat[c].used \in Nat /\ seat[c].reserved \in Nat
        /\ seat[c].unknown \in Nat /\ seat[c].overage \in Nat /\ granted[c] \in Nat
        /\ Committed(seat[c]) \in Nat
    BY <1>1, RowFacts
  <2>3. hold <= seat[c].reserved
    <3>1. HeldBy(s, c) <= seat[c].reserved
      BY <1>1, HoldIsCovered DEF LedgerInv
    <3> QED
      BY <1>1, <1>6, <3>1 DEF HeldBy
  <2>4. /\ seat'[c].budget = seat[c].budget /\ seat'[c].used = seat[c].used
        /\ seat'[c].unknown = seat[c].unknown + hold
        /\ seat'[c].overage = seat[c].overage
        /\ seat'[c].reserved = seat[c].reserved - hold
    <3>1. Clamped(seat[c].reserved - hold) = seat[c].reserved - hold
      BY <1>1, <2>2, <2>3 DEF Clamped
    <3> QED
      BY <1>1, <2>1, <3>1 DEF AsUnknown, RowType
  <2>5. Committed(seat'[c]) = Committed(seat[c])
    BY <1>1, <2>2, <2>4 DEF Committed
  <2>6. CallsAgree'
    BY <1>2, <1>3, <1>4 DEF LedgerInv, CallsAgree, Agrees
  <2>7. Books'
    <3>1. ASSUME NEW d \in Campaign
          PROVE  /\ HeldBy(s, d) = (IF d = c THEN hold ELSE 0) /\ HeldBy(s, d)' = 0
                 /\ OwedBy(s, d) \in Nat /\ OwedBy(s, d)' = OwedBy(s, d)
                 /\ seat[d].reserved \in Nat /\ Committed(seat[d]) \in Nat
      BY <1>1, <1>3, <1>6, RowFacts DEF HeldBy, OwedBy
    <3>2. \A d \in Campaign :
            /\ seat'[d].reserved = seat[d].reserved - HeldBy(s, d) + HeldBy(s, d)'
            /\ Committed(seat'[d]) = Committed(seat[d]) - OwedBy(s, d) + OwedBy(s, d)'
      BY <1>1, <2>1, <2>4, <2>5, <3>1
    <3> QED
      BY <1>3, <3>2, BooksMove DEF LedgerInv
  <2>8. Bounds'
    <3>1. /\ seat[c].budget <= granted[c] /\ seat[c].overage <= seat[c].used
          /\ Committed(seat[c]) <= granted[c] + seat[c].overage
      BY <1>1 DEF LedgerInv, Limits, WithinBudget
    <3>2. /\ seat'[c].budget <= granted'[c] /\ seat'[c].overage <= seat'[c].used
          /\ Committed(seat'[c]) <= granted'[c] + seat'[c].overage
          /\ Committed(seat'[c]) - seat'[c].overage <= Committed(seat[c]) - seat[c].overage
      BY <1>2, <2>2, <2>4, <2>5, <3>1
    <3> QED
      BY <1>1, <1>2, <2>1, <3>2, BoundsStand DEF LedgerInv, Bounds
  <2> QED
    BY <2>6, <2>7, <2>8 DEF LedgerInv, Bounds
<1> QED
  BY <1>5, <1>6

(* The sums the books are kept by, in the words above.                      *)
LEMMA BooksAre ==
    /\ HoldsAreReserved <=>
         \A c \in Campaign : seat[c].reserved = SumFunctionOnSet(Holds, Unsettled(c))
    /\ EveryCallCountsOnce <=>
         \A c \in Campaign : Committed(seat[c]) = SumFunctionOnSet(Owes, Calls(c))
BY DEF HoldsAreReserved, EveryCallCountsOnce, Holds, Owes, Unsettled, Calls

(* A seat none of whose calls changed its hold or what it is booked for.    *)
LEMMA SumsStand ==
    ASSUME NEW c \in Campaign,
           \A s \in Spender :
             /\ call'[s].campaign = c <=> call[s].campaign = c
             /\ call[s].campaign = c =>
                  /\ call'[s].owes = call[s].owes
                  /\ ~call'[s].settled <=> ~call[s].settled
                  /\ ~call[s].settled => call'[s].hold = call[s].hold
    PROVE  /\ SumFunctionOnSet(Holds', Unsettled(c)') = SumFunctionOnSet(Holds, Unsettled(c))
           /\ SumFunctionOnSet(Owes', Calls(c)') = SumFunctionOnSet(Owes, Calls(c))
<1>1. Unsettled(c)' = Unsettled(c) /\ Calls(c)' = Calls(c)
  BY DEF Unsettled, Calls
<1>2. /\ Unsettled(c) \in SUBSET Spender /\ Calls(c) \in SUBSET Spender
      /\ \A s \in Unsettled(c) : Holds'[s] = Holds[s]
      /\ \A s \in Calls(c) : Owes'[s] = Owes[s]
  BY DEF Unsettled, Calls, Holds, Owes
<1>3. IsFiniteSet(Unsettled(c)) /\ IsFiniteSet(Calls(c))
  BY <1>2, CallsAreFinite, FS_Subset
<1>4. SumFunctionOnSet(Holds', Unsettled(c)) = SumFunctionOnSet(Holds, Unsettled(c))
  BY <1>2, <1>3, SumsSame
<1>5. SumFunctionOnSet(Owes', Calls(c)) = SumFunctionOnSet(Owes, Calls(c))
  BY <1>2, <1>3, SumsSame
<1> QED
  BY <1>1, <1>4, <1>5

(* Budgets and caps set under running calls.                                *)
LEMMA SettingsKeepLedger ==
    ASSUME TypeOK, TypeOK', LedgerInv,
           \/ \E c \in Campaign : \E n \in Budgets : SetBudget(c, n)
           \/ \E n \in Caps : SetCap(n)
           \/ UNCHANGED vars
    PROVE  LedgerInv'
<1>1. ASSUME NEW c \in Campaign, NEW n \in Budgets, SetBudget(c, n) PROVE LedgerInv'
  <2>1. /\ UNCHANGED <<call, up, cap, ceiling>>
        /\ \A d \in Campaign \ {c} : seat'[d] = seat[d] /\ granted'[d] = granted[d]
        /\ granted'[c] = IF n > granted[c] THEN n ELSE granted[c]
    BY <1>1 DEF SetBudget, TypeOK
  <2>2. \A d \in Campaign :
          /\ seat'[d].used = seat[d].used /\ seat'[d].reserved = seat[d].reserved
          /\ seat'[d].unknown = seat[d].unknown /\ seat'[d].overage = seat[d].overage
          /\ Committed(seat'[d]) = Committed(seat[d])
          /\ d = c => seat'[d].budget = n
    <3>1. \A d \in Campaign :
            /\ seat'[d].used = seat[d].used /\ seat'[d].reserved = seat[d].reserved
            /\ seat'[d].unknown = seat[d].unknown /\ seat'[d].overage = seat[d].overage
            /\ d = c => seat'[d].budget = n
      BY <1>1 DEF SetBudget, TypeOK
    <3> QED
      BY <3>1 DEF Committed
  <2>3. CallsAgree'
    BY <2>1 DEF LedgerInv, CallsAgree, Agrees
  <2>4. Books'
    BY <2>1, <2>2 DEF LedgerInv, Books, HoldsAreReserved, EveryCallCountsOnce
  <2>5. Bounds'
    <3>1. /\ seat[c].budget <= granted[c] /\ seat[c].overage <= seat[c].used
          /\ Committed(seat[c]) <= granted[c] + seat[c].overage
      BY DEF LedgerInv, Limits, WithinBudget
    <3>2. n \in Nat /\ granted[c] \in Nat /\ seat[c].overage \in Nat /\ Committed(seat[c]) \in Nat
          /\ seat[c].used \in Nat
      BY AmountsAreNat, RowFacts
    <3>3. /\ seat'[c].budget <= granted'[c] /\ seat'[c].overage <= seat'[c].used
          /\ Committed(seat'[c]) <= granted'[c] + seat'[c].overage
          /\ Committed(seat'[c]) - seat'[c].overage <= Committed(seat[c]) - seat[c].overage
      BY <2>1, <2>2, <3>1, <3>2
    <3> QED
      BY <2>1, <3>3, BoundsStand DEF LedgerInv, Bounds
  <2> QED
    BY <2>3, <2>4, <2>5 DEF LedgerInv, Bounds
<1>2. ASSUME NEW n \in Caps, SetCap(n) PROVE LedgerInv'
  <2>1. UNCHANGED <<seat, granted, call, up>> /\ cap' = n
    BY <1>2 DEF SetCap, KeepLedger
  <2>2. CallsAgree' /\ Books' /\ WithinBudget'
    BY <2>1 DEF LedgerInv, CallsAgree, Agrees, Books, HoldsAreReserved, EveryCallCountsOnce,
                WithinBudget
  <2>3. ceiling' > 0 => ceiling > 0 /\ ceiling <= ceiling' /\ 0 < n /\ n <= ceiling'
    BY <1>2, AmountsAreNat DEF SetCap, TypeOK
  <2>4. Limits'
    BY <2>1, <2>3 DEF LedgerInv, Limits
  <2>5. WithinCap'
    <3>1. TotalCommitted' = TotalCommitted /\ TotalOverage' = TotalOverage
      BY <2>1 DEF TotalCommitted, TotalOverage
    <3>2. TotalCommitted \in Nat /\ TotalOverage \in Nat
      <4>1. \A c \in Campaign : Committed(seat[c]) \in Nat /\ seat[c].overage \in Nat
        BY RowFacts
      <4>2. SumFunctionOnSet([c \in Campaign |-> Committed(seat[c])], Campaign) \in Nat
        BY <4>1, CallsAreFinite, SumIsNat
      <4>3. SumFunctionOnSet([c \in Campaign |-> seat[c].overage], Campaign) \in Nat
        BY <4>1, CallsAreFinite, SumIsNat
      <4> QED
        BY <4>2, <4>3 DEF TotalCommitted, TotalOverage
    <3>3. ceiling > 0 => TotalCommitted <= ceiling + TotalOverage
      BY DEF LedgerInv, WithinCap, TotalOverage
    <3>4. ceiling \in Nat /\ ceiling' \in Nat
      BY DEF TypeOK
    <3>5. ceiling' > 0 => TotalCommitted' <= ceiling' + TotalOverage'
      <4> SUFFICES ASSUME ceiling' > 0 PROVE TotalCommitted <= ceiling' + TotalOverage
        BY <3>1
      <4>1. ceiling <= ceiling' /\ TotalCommitted <= ceiling + TotalOverage
        BY <2>3, <3>3
      <4>2. \A a, b, t, o \in Nat : a <= b /\ t <= a + o => t <= b + o
        OBVIOUS
      <4> QED
        BY <3>2, <3>4, <4>1, <4>2
    <3> QED
      BY <3>5 DEF WithinCap, TotalOverage
  <2> QED
    BY <2>2, <2>4, <2>5 DEF LedgerInv
<1>3. CASE UNCHANGED vars
  BY <1>3 DEF vars, LedgerInv, CallsAgree, Agrees, Books, HoldsAreReserved,
              EveryCallCountsOnce, Limits, WithinBudget, WithinCap, TotalCommitted
<1> QED
  BY <1>1, <1>2, <1>3

(* Zeroed counters: with no call in flight, nothing on the books is lost.   *)
LEMMA ResetKeepsLedger ==
    ASSUME TypeOK, TypeOK', LedgerInv, "early_reset" \notin Env,
           NEW c \in Campaign, ResetUsage(c)
    PROVE  LedgerInv'
<1>1. /\ UNCHANGED <<up, cap, ceiling>> /\ up /\ InFlight(c) = {}
      /\ \A d \in Campaign \ {c} : seat'[d] = seat[d] /\ granted'[d] = granted[d]
      /\ granted'[c] = seat[c].budget
      /\ \A s \in Spender : call[s].campaign # c => call'[s] = call[s]
  BY DEF ResetUsage, Move, TypeOK
<1>2. /\ seat'[c].used = 0 /\ seat'[c].reserved = 0 /\ seat'[c].unknown = 0
      /\ seat'[c].overage = 0 /\ seat'[c].budget = seat[c].budget
  <2>1. seat \in [Campaign -> RowType] /\ seat[c] \in RowType
    BY DEF TypeOK, RowType
  <2>2. seat'[c] = [seat[c] EXCEPT !.used = 0, !.reserved = 0, !.unknown = 0, !.overage = 0]
    BY <2>1 DEF ResetUsage
  <2> QED
    BY <2>1, <2>2 DEF RowType
<1>3. Committed(seat'[c]) = 0
  BY <1>2 DEF Committed
<1>4. ASSUME NEW s \in Spender, call[s].campaign = c
      PROVE  /\ call'[s].pc = call[s].pc /\ call'[s].campaign = c
             /\ call'[s].settled /\ call'[s].owes = 0
             /\ call[s].pc \notin {"calling", "metering"}
  <2>1. /\ call'[s].pc = call[s].pc /\ call'[s].campaign = c /\ call'[s].owes = 0
        /\ call'[s].settled = (call[s].settled \/ call[s].pc = "done")
    <3>1. call[s] \in CallType
      BY DEF TypeOK, CallType, Place
    <3>2. call'[s] = [call[s] EXCEPT !.owes = 0, !.settled = @ \/ call[s].pc = "done"]
      BY <1>4 DEF ResetUsage
    <3> QED
      BY <1>4, <3>1, <3>2 DEF CallType
  <2>2. call[s].settled \/ call[s].pc \in {"new", "done", "dead"}
    BY <1>1, <1>4, CallFacts DEF InFlight, Place
  <2>3. Agrees(call[s])
    BY DEF LedgerInv, CallsAgree
  <2> QED
    BY <1>1, <2>1, <2>2, <2>3 DEF Agrees
<1>5. CallsAgree'
  <2> SUFFICES ASSUME NEW s \in Spender PROVE Agrees(call'[s])
    BY <1>1 DEF CallsAgree, Agrees
  <2>1. Agrees(call[s])
    BY DEF LedgerInv, CallsAgree
  <2>2. CASE call[s].campaign = c
    BY <1>1, <1>4, <2>1, <2>2 DEF Agrees
  <2> QED
    BY <1>1, <2>1, <2>2
<1>6. Books'
  <2>1. ASSUME NEW d \in Campaign
        PROVE  /\ seat'[d].reserved = SumFunctionOnSet(Holds', Unsettled(d)')
               /\ Committed(seat'[d]) = SumFunctionOnSet(Owes', Calls(d)')
    <3>1. CASE d = c
      <4>1. Unsettled(c)' = {}
        BY <1>1, <1>4 DEF Unsettled
      <4>2. Calls(c)' \in SUBSET Spender /\ \A s \in Calls(c)' : Owes'[s] = 0
        BY <1>1, <1>4 DEF Calls, Owes
      <4>3. IsFiniteSet(Calls(c)')
        BY <4>2, CallsAreFinite, FS_Subset
      <4>4. SumFunctionOnSet(Owes', Calls(c)') = 0
        BY <4>2, <4>3, SumOfZeros
      <4> QED
        BY <1>2, <1>3, <3>1, <4>1, <4>4, SumOfNone
    <3>2. CASE d # c
      <4>1. \A s \in Spender :
              /\ call'[s].campaign = d <=> call[s].campaign = d
              /\ call[s].campaign = d => call'[s] = call[s]
        BY <1>1, <1>4, <3>2
      <4>2. /\ SumFunctionOnSet(Holds', Unsettled(d)') = SumFunctionOnSet(Holds, Unsettled(d))
            /\ SumFunctionOnSet(Owes', Calls(d)') = SumFunctionOnSet(Owes, Calls(d))
        BY <4>1, SumsStand
      <4> QED
        BY <1>1, <3>2, <4>2, BooksAre DEF LedgerInv, Books
    <3> QED
      BY <3>1, <3>2
  <2> QED
    BY <2>1 DEF Books, HoldsAreReserved, EveryCallCountsOnce, Holds, Owes, Unsettled, Calls
<1>7. Bounds'
  <2>1. seat[c].overage <= seat[c].used
    BY DEF LedgerInv, Limits
  <2>2. /\ seat[c].budget \in Nat /\ seat[c].used \in Nat /\ seat[c].overage \in Nat
        /\ seat[c].reserved \in Nat /\ seat[c].unknown \in Nat
    BY RowFacts
  <2>3. /\ seat'[c].budget <= granted'[c] /\ seat'[c].overage <= seat'[c].used
        /\ Committed(seat'[c]) <= granted'[c] + seat'[c].overage
        /\ Committed(seat'[c]) - seat'[c].overage <= Committed(seat[c]) - seat[c].overage
    BY <1>1, <1>2, <1>3, <2>1, <2>2 DEF Committed
  <2> QED
    BY <1>1, <2>3, BoundsStand DEF LedgerInv, Bounds
<1> QED
  BY <1>5, <1>6, <1>7 DEF LedgerInv, Bounds

(* Death leaves the rows and what the dead calls held.                      *)
LEMMA CrashKeepsLedger ==
    ASSUME TypeOK, TypeOK', LedgerInv, Crash
    PROVE  LedgerInv'
<1>1. UNCHANGED <<seat, granted, cap, ceiling>> /\ ~up'
  BY DEF Crash
<1>2. ASSUME NEW s \in Spender
      PROVE  /\ call'[s].campaign = call[s].campaign /\ call'[s].owes = call[s].owes
             /\ call'[s].settled = call[s].settled
             /\ ~call[s].settled => call'[s].hold = call[s].hold
             /\ \/ call'[s].pc = "dead"
                \/ call'[s].pc = call[s].pc /\ call[s].pc \notin Active
  <2>1. call[s] \in CallType
    BY DEF TypeOK, CallType, Place
  <2>2. /\ call[s].pc \in Active => call'[s] = Over(s, "dead")
        /\ call[s].pc \notin Active => call'[s] = call[s]
    BY DEF Crash
  <2>3. /\ Over(s, "dead").campaign = call[s].campaign /\ Over(s, "dead").owes = call[s].owes
        /\ Over(s, "dead").settled = call[s].settled /\ Over(s, "dead").pc = "dead"
        /\ ~call[s].settled => Over(s, "dead").hold = call[s].hold
    BY <2>1 DEF Over, CallType
  <2> QED
    BY <2>2, <2>3
<1>3. CallsAgree'
  BY <1>1, <1>2 DEF LedgerInv, CallsAgree, Agrees, Active, Inside
<1>4. Books'
  <2>1. \A c \in Campaign :
          /\ SumFunctionOnSet(Holds', Unsettled(c)') = SumFunctionOnSet(Holds, Unsettled(c))
          /\ SumFunctionOnSet(Owes', Calls(c)') = SumFunctionOnSet(Owes, Calls(c))
    BY <1>2, SumsStand
  <2>2. \A c \in Campaign :
          /\ seat[c].reserved = SumFunctionOnSet(Holds', Unsettled(c)')
          /\ Committed(seat[c]) = SumFunctionOnSet(Owes', Calls(c)')
    BY <2>1, BooksAre DEF LedgerInv, Books
  <2> QED
    BY <1>1, <2>2 DEF Books, HoldsAreReserved, EveryCallCountsOnce, Holds, Owes, Unsettled, Calls
<1> QED
  BY <1>1, <1>3, <1>4 DEF LedgerInv, Limits, WithinBudget, WithinCap, TotalCommitted

(* The next boot consumes those holds as unknown.                           *)
LEMMA ReclaimKeepsLedger ==
    ASSUME TypeOK, TypeOK', LedgerInv, Reclaim
    PROVE  LedgerInv'
<1>1. UNCHANGED <<granted, cap, ceiling>> /\ ~up /\ up'
  BY DEF Reclaim
<1>2. ASSUME NEW s \in Spender
      PROVE  /\ call'[s].campaign = call[s].campaign /\ call'[s].owes = call[s].owes
             /\ call'[s].settled /\ call'[s].pc = call[s].pc
  BY DEF Reclaim, TypeOK
<1>3. ASSUME NEW c \in Campaign
      PROVE  /\ seat'[c].budget = seat[c].budget /\ seat'[c].used = seat[c].used
             /\ seat'[c].overage = seat[c].overage /\ seat'[c].reserved = 0
             /\ Committed(seat'[c]) = Committed(seat[c])
  <2>1. /\ seat[c].used \in Nat /\ seat[c].reserved \in Nat /\ seat[c].unknown \in Nat
    BY RowFacts
  <2>2. Clamped(seat[c].reserved - seat[c].reserved) = 0
    BY <2>1 DEF Clamped
  <2>3. /\ seat'[c].budget = seat[c].budget /\ seat'[c].used = seat[c].used
        /\ seat'[c].overage = seat[c].overage /\ seat'[c].reserved = 0
        /\ seat'[c].unknown = seat[c].unknown + seat[c].reserved
    <3>1. seat[c] \in RowType
      BY DEF TypeOK, RowType
    <3>2. seat'[c] = [seat[c] EXCEPT !.reserved = 0, !.unknown = @ + seat[c].reserved]
      BY <2>2 DEF Reclaim, AsUnknown
    <3> QED
      BY <3>1, <3>2 DEF RowType
  <2> QED
    BY <2>1, <2>3 DEF Committed
<1>4. CallsAgree'
  BY <1>1, <1>2 DEF LedgerInv, CallsAgree, Agrees, Active, Inside
<1>5. Books'
  <2>1. ASSUME NEW c \in Campaign
        PROVE  /\ seat'[c].reserved = SumFunctionOnSet(Holds', Unsettled(c)')
               /\ Committed(seat'[c]) = SumFunctionOnSet(Owes', Calls(c)')
    <3>1. Unsettled(c)' = {}
      BY <1>2 DEF Unsettled
    <3>2. Calls(c)' = Calls(c)
      BY <1>2 DEF Calls
    <3>3. Owes' = Owes
      BY <1>2 DEF Owes
    <3>4. Committed(seat[c]) = SumFunctionOnSet(Owes, Calls(c))
      BY BooksAre DEF LedgerInv, Books
    <3> QED
      BY <1>3, <3>1, <3>2, <3>3, <3>4, SumOfNone
  <2> QED
    BY <2>1 DEF Books, HoldsAreReserved, EveryCallCountsOnce, Holds, Owes, Unsettled, Calls
<1>6. Limits' /\ WithinBudget'
  BY <1>1, <1>3 DEF LedgerInv, Limits, WithinBudget
<1>7. WithinCap'
  <2>1. TotalCommitted' = TotalCommitted /\ TotalOverage' = TotalOverage
    BY <1>3 DEF TotalCommitted, TotalOverage
  <2> QED
    BY <1>1, <2>1 DEF LedgerInv, WithinCap, TotalOverage
<1> QED
  BY <1>4, <1>5, <1>6, <1>7 DEF LedgerInv

(* No call, nothing on the books.                                           *)
LEMMA InitKeepsLedger == Init => LedgerInv
<1> SUFFICES ASSUME Init PROVE LedgerInv
  OBVIOUS
<1>0. TypeOK
  BY InitTyped
<1>1. \A s \in Spender : /\ call[s].pc = "new" /\ call[s].settled /\ call[s].owes = 0
                         /\ call[s].campaign = NoOne
  BY DEF Init, NewCall
<1>2. PICK budget \in [Campaign -> Budgets] :
        /\ seat = [c \in Campaign |-> [budget |-> budget[c], used |-> 0,
                                       reserved |-> 0, unknown |-> 0, overage |-> 0]]
        /\ granted = budget
  BY DEF Init
<1>3. \A c \in Campaign : /\ seat[c].reserved = 0 /\ seat[c].overage = 0 /\ seat[c].used = 0
                          /\ Committed(seat[c]) = 0 /\ seat[c].budget = granted[c]
                          /\ granted[c] \in Nat
  <2>1. \A c \in Campaign : /\ seat[c].reserved = 0 /\ seat[c].overage = 0 /\ seat[c].used = 0
                            /\ seat[c].unknown = 0 /\ seat[c].budget = granted[c]
    BY <1>2
  <2>2. \A c \in Campaign : Committed(seat[c]) = 0
    BY <2>1 DEF Committed
  <2> QED
    BY <1>0, <2>1, <2>2, RowFacts
<1>4. CallsAgree
  <2>1. up /\ \A s \in Spender : call[s].pc = "new" /\ call[s].settled /\ call[s].owes = 0
    BY <1>1 DEF Init
  <2> QED
    BY <1>1, <2>1 DEF CallsAgree, Agrees, Active, Inside
<1>5. Books
  <2> SUFFICES ASSUME NEW c \in Campaign
               PROVE  /\ SumFunctionOnSet(Holds, Unsettled(c)) = 0
                      /\ SumFunctionOnSet(Owes, Calls(c)) = 0
    BY <1>3, BooksAre DEF Books
  <2>1. Unsettled(c) = {}
    BY <1>1 DEF Unsettled
  <2>2. Calls(c) \in SUBSET Spender /\ \A s \in Calls(c) : Owes[s] = 0
    BY <1>1 DEF Calls, Owes
  <2>3. IsFiniteSet(Calls(c))
    BY <2>2, CallsAreFinite, FS_Subset
  <2> QED
    BY <2>1, <2>2, <2>3, SumOfNone, SumOfZeros
<1>6. Limits /\ WithinBudget
  BY <1>3, AmountsAreNat DEF Init, Limits, WithinBudget
<1>7. WithinCap
  <2>1. \A c \in Campaign : [d \in Campaign |-> Committed(seat[d])][c] = 0
    BY <1>3
  <2>2. \A c \in Campaign : [d \in Campaign |-> seat[d].overage][c] = 0
    BY <1>3
  <2>3. TotalCommitted = 0
    BY <2>1, CallsAreFinite, SumOfZeros DEF TotalCommitted
  <2>4. TotalOverage = 0
    BY <2>2, CallsAreFinite, SumOfZeros DEF TotalOverage
  <2>5. ceiling \in Nat
    BY <1>0 DEF TypeOK
  <2>6. ceiling > 0 => TotalCommitted <= ceiling + TotalOverage
    BY <2>3, <2>4, <2>5
  <2> QED
    BY <2>6 DEF WithinCap, TotalOverage
<1> QED
  BY <1>4, <1>5, <1>6, <1>7 DEF LedgerInv

(* The ledger's invariant is inductive, given the types and the lock's.     *)
LEMMA NextKeepsLedger ==
    ASSUME "early_reset" \notin Env, IInv, IInv', LedgerInv, [Next]_vars
    PROVE  LedgerInv'
<1>1. TypeOK /\ TypeOK' /\ \A s \in Spender : call[s].pc \in Active => call[s].campaign \in Campaign
  BY DEF IInv, LockInv, Placed
<1>2. ASSUME NEW s \in Spender,
             \/ \E c \in Campaign : Join(s, c) \/ Begin(s, c)
             \/ Enter(s) \/ Leave(s) \/ Answer(s) \/ MeterFails(s) \/ MarkFails(s)
      PROVE  LedgerInv'
  BY <1>1, <1>2, QuietKeepsLedger
<1>3. ASSUME NEW s \in Spender, Reserve(s) PROVE LedgerInv'
  BY <1>1, <1>3, ReserveKeepsLedger DEF Reserve, Active, Inside
<1>4. ASSUME NEW s \in Spender, MeterTurn(s) PROVE LedgerInv'
  BY <1>1, <1>4, MeterKeepsLedger DEF MeterTurn, Active, Inside
<1>5. ASSUME NEW s \in Spender, MarkUnknown(s) PROVE LedgerInv'
  BY <1>1, <1>5, MarkKeepsLedger DEF MarkUnknown, Active, Inside
<1>6. ASSUME \/ \E c \in Campaign : \E n \in Budgets : SetBudget(c, n)
             \/ \E n \in Caps : SetCap(n)
             \/ UNCHANGED vars
      PROVE  LedgerInv'
  BY <1>1, <1>6, SettingsKeepLedger
<1>7. ASSUME NEW c \in Campaign, ResetUsage(c) PROVE LedgerInv'
  BY <1>1, <1>7, ResetKeepsLedger
<1>8. CASE Crash
  BY <1>1, <1>8, CrashKeepsLedger
<1>9. CASE Reclaim
  BY <1>1, <1>9, ReclaimKeepsLedger
<1> QED
  BY <1>2, <1>3, <1>4, <1>5, <1>6, <1>7, <1>8, <1>9 DEF Next, Continue

(* ... and holds of the specification.                                      *)
LEMMA LedgerHolds == ASSUME "early_reset" \notin Env PROVE Spec => []LedgerInv
<1>1. Init => LedgerInv
  BY InitKeepsLedger
<1>2. IInv /\ IInv' /\ LedgerInv /\ [Next]_vars => LedgerInv'
  BY NextKeepsLedger
<1> QED
  BY <1>1, <1>2, Inductive, PTL DEF Spec

(* reserveTokenBudget, meterTurn, markReservationUsageUnknown and the boot's*)
(* reclaim together: a seat reserves exactly what its unsettled calls hold. *)
THEOREM ReservationIsTheHolds ==
    ASSUME "early_reset" \notin Env PROVE Spec => []HoldsAreReserved
<1>1. LedgerInv => HoldsAreReserved
  BY DEF LedgerInv, Books
<1> QED
  BY <1>1, LedgerHolds, PTL

(* A seat has committed exactly what its calls cost, hold, or held when     *)
(* nobody could measure them, whichever settlement failed.                  *)
THEOREM CallsAreBookedOnce ==
    ASSUME "early_reset" \notin Env PROVE Spec => []EveryCallCountsOnce
<1>1. LedgerInv => EveryCallCountsOnce
  BY DEF LedgerInv, Books
<1> QED
  BY <1>1, LedgerHolds, PTL

(* A seat never commits more than the budget it was granted and what calls  *)
(* measurably cost beyond their holds.                                      *)
THEOREM SeatStaysWithinBudget ==
    ASSUME "early_reset" \notin Env PROVE Spec => []WithinBudget
<1>1. LedgerInv => WithinBudget
  BY DEF LedgerInv
<1> QED
  BY <1>1, LedgerHolds, PTL

(* All seats together never commit more than the server-wide cap and that   *)
(* excess.                                                                  *)
THEOREM SeatsStayWithinCap ==
    ASSUME "early_reset" \notin Env PROVE Spec => []WithinCap
<1>1. LedgerInv => WithinCap
  BY DEF LedgerInv
<1> QED
  BY <1>1, LedgerHolds, PTL
==============================================================================
