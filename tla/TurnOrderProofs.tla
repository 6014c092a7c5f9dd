-------------------------- MODULE TurnOrderProofs --------------------------
(***************************************************************************)
(* What is proved about TurnOrder for any combatants, initiatives, clicks, *)
(* tries, hits and moves: types, that the turn pointer and the lair slot   *)
(* name who is there, that clicks count once, that the stored index        *)
(* follows the pointer, and what undoing gives back.                       *)
(***************************************************************************)
EXTENDS TurnOrder, FiniteSetTheorems, TLAPS

-----------------------------------------------------------------------------
(* The running order.                                                       *)

(* seq lists ids, each once, by initiative and age.                         *)
IsOrder(seq, ids, rolled) ==
    /\ seq \in Seq(ids)
    /\ \A c \in ids : \E k \in 1..Len(seq) : seq[k] = c
    /\ \A j, k \in 1..Len(seq) : j < k => Precedes(seq[j], seq[k], rolled)

(* Going first is a strict total order.                                     *)
LEMMA PrecedesIsTotal ==
    ASSUME NEW rolled \in [Combatant -> Nat]
    PROVE  /\ \A b, c \in Combatant : Precedes(b, c, rolled) => ~Precedes(c, b, rolled)
           /\ \A b, c \in Combatant : b # c => Precedes(b, c, rolled) \/ Precedes(c, b, rolled)
           /\ \A a, b, c \in Combatant :
                Precedes(a, b, rolled) /\ Precedes(b, c, rolled) => Precedes(a, c, rolled)
BY CombatantsAreIds DEF Precedes

(* Who goes later has more before it.                                       *)
LEMMA LaterHasMoreBefore ==
    ASSUME NEW rolled \in [Combatant -> Nat], NEW ids \in SUBSET Combatant,
           NEW b \in ids, NEW c \in ids, Precedes(b, c, rolled)
    PROVE  /\ Cardinality(Before(b, ids, rolled)) \in Nat
           /\ Cardinality(Before(c, ids, rolled)) \in Nat
           /\ Cardinality(Before(b, ids, rolled)) < Cardinality(Before(c, ids, rolled))
<1> DEFINE B == Before(b, ids, rolled)
           C == Before(c, ids, rolled)
<1>1. IsFiniteSet(ids)
  BY CombatantsAreIds, FS_Subset
<1>2. B \in SUBSET ids /\ C \in SUBSET ids
  BY DEF Before
<1>3. IsFiniteSet(B) /\ IsFiniteSet(C) /\ Cardinality(B) \in Nat /\ Cardinality(C) \in Nat
  BY <1>1, <1>2, FS_Subset, FS_CardinalityType
<1>4. B \subseteq C \ {b} /\ b \in C
  BY PrecedesIsTotal DEF Before
<1> HIDE DEF B, C
<1>5. IsFiniteSet(C \ {b}) /\ Cardinality(C \ {b}) = Cardinality(C) - 1
  BY <1>3, <1>4, FS_RemoveElement
<1>6. Cardinality(B) <= Cardinality(C \ {b})
  BY <1>4, <1>5, FS_Subset
<1>7. Cardinality(B) < Cardinality(C)
  BY <1>3, <1>5, <1>6
<1> QED
  BY <1>3, <1>7 DEF B, C

(* Sorted is the running order of the combatants it is given.               *)
LEMMA SortedIsOrder ==
    ASSUME NEW rolled \in [Combatant -> Nat], NEW ids \in SUBSET Combatant
    PROVE  IsOrder(Sorted(ids, rolled), ids, rolled)
<1> DEFINE n == Cardinality(ids)
           Rank(c) == Cardinality(Before(c, ids, rolled))
           rank == [c \in ids |-> Rank(c)]
           seq == Sorted(ids, rolled)
<1>1. IsFiniteSet(ids) /\ n \in Nat
  BY CombatantsAreIds, FS_Subset, FS_CardinalityType
<1>2. \A c \in ids : Rank(c) \in 0..(n - 1)
  <2> TAKE c \in ids
  <2>1. Before(c, ids, rolled) \in SUBSET (ids \ {c})
    BY PrecedesIsTotal DEF Before
  <2>2. IsFiniteSet(ids \ {c}) /\ Cardinality(ids \ {c}) = n - 1
    BY <1>1, FS_RemoveElement
  <2>3. IsFiniteSet(Before(c, ids, rolled)) /\ Rank(c) <= n - 1
    BY <2>1, <2>2, FS_Subset
  <2>4. Rank(c) \in Nat
    BY <2>3, FS_CardinalityType
  <2> QED
    BY <1>1, <2>3, <2>4
<1>3. \A b, c \in ids : Precedes(b, c, rolled) => Rank(b) < Rank(c)
  BY LaterHasMoreBefore
<1> HIDE DEF Rank, n
<1>4. \A b, c \in ids : Rank(b) = Rank(c) => b = c
  BY <1>1, <1>2, <1>3, PrecedesIsTotal
<1>5. rank \in Injection(ids, 0..(n - 1))
  BY <1>2, <1>4 DEF Injection, IsInjective
<1>6. IsFiniteSet(0..(n - 1)) /\ Cardinality(0..(n - 1)) = n
  BY <1>1, FS_Interval
<1>7. rank \in Surjection(ids, 0..(n - 1))
  BY <1>1, <1>5, <1>6, FS_Injection DEF n
<1>8. \A k \in 1..n : \E c \in ids : Rank(c) = k - 1
  <2>1. \A m \in 0..(n - 1) : \E c \in ids : Rank(c) = m
    BY <1>7 DEF Surjection
  <2> QED
    BY <1>1, <2>1
<1>9. seq = [k \in 1..n |-> CHOOSE c \in ids : Rank(c) = k - 1]
  BY DEF Sorted, Rank, n
<1> HIDE DEF seq
<1>10. \A k \in 1..n : seq[k] \in ids /\ Rank(seq[k]) = k - 1
  BY <1>8, <1>9
<1>11. seq \in Seq(ids) /\ Len(seq) = n
  BY <1>1, <1>9, <1>10
<1>12. ASSUME NEW c \in ids PROVE \E k \in 1..n : seq[k] = c
  <2> DEFINE k == Rank(c) + 1
  <2>1. k \in 1..n /\ Rank(c) = k - 1
    BY <1>1, <1>2
  <2>2. seq[k] = c
    BY <1>4, <1>10, <2>1
  <2> QED
    BY <2>1, <2>2
<1>13. ASSUME NEW j \in 1..n, NEW k \in 1..n, j < k
       PROVE  Precedes(seq[j], seq[k], rolled)
  <2>1. ~(Rank(seq[k]) < Rank(seq[j])) /\ seq[j] # seq[k]
    BY <1>1, <1>10, <1>13
  <2> QED
    BY <1>3, <1>10, <2>1, PrecedesIsTotal
<1>14. IsOrder(seq, ids, rolled)
  BY <1>11, <1>12, <1>13 DEF IsOrder
<1> QED
  BY <1>14 DEF seq

(* Places in a running order.                                               *)
LEMMA OrderPlaces ==
    ASSUME NEW rolled \in [Combatant -> Nat], NEW ids \in SUBSET Combatant,
           NEW seq, IsOrder(seq, ids, rolled)
    PROVE  /\ Len(seq) \in Nat
           /\ ids # {} => Len(seq) # 0
           /\ ToSet(seq) = ids
           /\ \A k \in 1..Len(seq) : seq[k] \in ids
           /\ \A j, k \in 1..Len(seq) : Precedes(seq[j], seq[k], rolled) <=> j < k
           /\ \A c \in ids : Place(seq, c) \in 1..Len(seq) /\ seq[Place(seq, c)] = c
           /\ \A k \in 1..Len(seq) : Place(seq, seq[k]) = k
<1>1. seq \in Seq(ids) /\ Len(seq) \in Nat /\ DOMAIN seq = 1..Len(seq)
  BY DEF IsOrder
<1>2. \A c \in ids : \E k \in 1..Len(seq) : seq[k] = c
  BY DEF IsOrder
<1>3. \A k \in 1..Len(seq) : seq[k] \in ids
  BY <1>1
<1>4. ids # {} => Len(seq) # 0
  BY <1>1, <1>2
<1>5. ToSet(seq) = ids
  BY <1>1, <1>2, <1>3 DEF ToSet
<1>6. \A j, k \in 1..Len(seq) : j < k => Precedes(seq[j], seq[k], rolled)
  BY DEF IsOrder
<1>7. \A j, k \in 1..Len(seq) : Precedes(seq[j], seq[k], rolled) <=> j < k
  <2> SUFFICES ASSUME NEW j \in 1..Len(seq), NEW k \in 1..Len(seq), ~(j < k)
               PROVE  ~Precedes(seq[j], seq[k], rolled)
    BY <1>6
  <2>1. seq[j] \in Combatant /\ seq[k] \in Combatant
    BY <1>3
  <2>2. CASE j = k
    BY <2>1, <2>2, PrecedesIsTotal
  <2>3. CASE k < j
    BY <1>6, <2>1, <2>3, PrecedesIsTotal
  <2> QED
    BY <1>1, <2>2, <2>3
<1>8. \A j, k \in 1..Len(seq) : seq[j] = seq[k] => j = k
  BY <1>1, <1>7
<1>9. \A c \in ids : Place(seq, c) \in 1..Len(seq) /\ seq[Place(seq, c)] = c
  BY <1>2 DEF Place
<1>10. \A k \in 1..Len(seq) : Place(seq, seq[k]) = k
  BY <1>3, <1>8, <1>9
<1> QED
  BY <1>1, <1>3, <1>4, <1>5, <1>7, <1>9, <1>10

(* A set of numbers that has a member has a least one.                      *)
LEMMA LeastIsLeast ==
    ASSUME NEW S \in SUBSET Nat, S # {}
    PROVE  Least(S) \in S /\ \A x \in S : Least(S) <= x
<1> DEFINE R == {ss \in Nat \X Nat : ss[1] < ss[2]}
<1>1. IsWellFoundedOn(R, Nat)
  BY NatLessThanWellFounded DEF OpToRel
<1> HIDE DEF R
<1>2. PICK n \in S : \A m \in S : ~(<<m, n>> \in R)
  BY <1>1, WFMin
<1>3. \A m \in S : ~(m < n)
  BY <1>2 DEF R
<1>4. \A m \in S : n <= m
  BY <1>3
<1> QED
  BY <1>4 DEF Least

(* Going d places round from place k of n.                                  *)
LEMMA Forward ==
    ASSUME NEW n \in Nat \ {0}, NEW k \in 0..n, NEW d \in 1..n
    PROVE  ((k + d - 1) % n) + 1 = IF k + d > n THEN k + d - n ELSE k + d
OBVIOUS

(* Going d places back from place k of n.                                   *)
LEMMA Backward ==
    ASSUME NEW n \in Nat \ {0}, NEW k \in 1..n, NEW d \in 1..n
    PROVE  ((k - d - 1 + n) % n) + 1 = IF k - d < 1 THEN k - d + n ELSE k - d
OBVIOUS

(* Of those who are able, nobody goes after c, before c, between c and d.   *)
NobodyAfter(c, able, rolled) == \A b \in able : ~Precedes(c, b, rolled)
NobodyBefore(c, able, rolled) == \A b \in able : ~Precedes(b, c, rolled)
NobodyBetween(c, d, able, rolled) ==
    \A b \in able : ~(Precedes(c, b, rolled) /\ Precedes(b, d, rolled))

(* t is where the turn goes from c among ids, of whom able can have it: to  *)
(* the first after c, or else to the first of all, in the next round.       *)
AdvanceFound(t, ids, able, rolled, c, round) ==
    /\ t = Turn(t.current, "combatant", NoOne, t.round)
    /\ able = {} => t.current = NoOne /\ t.round = round + 1
    /\ able # {} =>
         /\ t.current \in able
         /\ c \in ids /\ NobodyAfter(c, able, rolled) =>
              t.round = round + 1 /\ NobodyBefore(t.current, able, rolled)
         /\ c \in ids /\ ~NobodyAfter(c, able, rolled) =>
              /\ t.round = round /\ Precedes(c, t.current, rolled)
              /\ NobodyBetween(c, t.current, able, rolled)
         /\ c \notin ids => t.round = round /\ NobodyBefore(t.current, able, rolled)

(* The same backwards: to the last before c, or else to the last of all, in *)
(* the round before.                                                        *)
RetreatFound(t, able, rolled, c, round) ==
    /\ t = Turn(t.current, "combatant", NoOne, t.round)
    /\ able = {} => t.current = NoOne /\ t.round = round
    /\ able # {} =>
         /\ t.current \in able
         /\ NobodyBefore(c, able, rolled) =>
              t.round = LowestRound(round - 1) /\ NobodyAfter(t.current, able, rolled)
         /\ ~NobodyBefore(c, able, rolled) =>
              /\ t.round = round /\ Precedes(t.current, c, rolled)
              /\ NobodyBetween(t.current, c, able, rolled)

(* advanceTurn finds the next one able.                                     *)
LEMMA AdvanceTurnFinds ==
    ASSUME NEW rolled \in [Combatant -> Nat], NEW ids \in SUBSET Combatant,
           NEW out, NEW c, NEW round \in Nat \ {0}
    PROVE  AdvanceFound(AdvanceTurn(Sorted(ids, rolled), out, c, round),
                        ids, ids \ out, rolled, c, round)
<1>0. PICK seq, t : seq = Sorted(ids, rolled) /\ t = AdvanceTurn(seq, out, c, round)
  OBVIOUS
<1> DEFINE n == Len(seq)
           k == IF c \in ids THEN Place(seq, c) ELSE 0
           At(d) == IF k + d > n THEN k + d - n ELSE k + d
           ahead == {d \in 1..n : seq[At(d)] \notin out}
           d == Least(ahead)
<1>1. /\ n \in Nat /\ ToSet(seq) = ids
      /\ \A j \in 1..n : seq[j] \in ids
      /\ \A j, m \in 1..n : Precedes(seq[j], seq[m], rolled) <=> j < m
      /\ \A b \in ids : Place(seq, b) \in 1..n /\ seq[Place(seq, b)] = b
  <2>1. IsOrder(seq, ids, rolled)
    BY <1>0, SortedIsOrder
  <2> QED
    BY <2>1, OrderPlaces
<1>2. k \in 0..n /\ (c \in ids => k \in 1..n /\ seq[k] = c) /\ (c \notin ids => k = 0)
  BY <1>1
<1>3. \A e \in 1..n : ((k + e - 1) % n) + 1 = At(e) /\ At(e) \in 1..n
  <2> TAKE e \in 1..n
  <2>1. n \in Nat \ {0}
    BY <1>1
  <2>2. ((k + e - 1) % n) + 1 = IF k + e > n THEN k + e - n ELSE k + e
    BY <1>2, <2>1, Forward
  <2> HIDE DEF k
  <2>3. At(e) \in 1..n
    BY <1>2, <2>1
  <2> QED
    BY <2>2, <2>3
<1>4. t = IF ahead = {} THEN Turn(NoOne, "combatant", NoOne, round + 1)
          ELSE Turn(seq[At(d)], "combatant", NoOne, IF k + d > n THEN round + 1 ELSE round)
  <2>1. ahead = {e \in 1..n : Able(seq[((k + e - 1) % n) + 1], out)}
    BY <1>3 DEF Able
  <2>2. ahead # {} => d \in 1..n
    <3>1. ahead \in SUBSET Nat /\ ahead \subseteq 1..n
      BY <1>1
    <3> HIDE DEF ahead
    <3> QED
      BY <3>1, LeastIsLeast
  <2> HIDE DEF ahead, d, At, k
  <2>3. k = IF c \in ToSet(seq) THEN Place(seq, c) ELSE 0
    BY <1>1 DEF k
  <2> QED
    BY <1>0, <1>3, <2>1, <2>2, <2>3 DEF AdvanceTurn, d, n
<1> HIDE DEF k
<1>5. \A b \in ids : \E e \in 1..n : At(e) = Place(seq, b) /\ seq[At(e)] = b
  <2> TAKE b \in ids
  <2> DEFINE e == IF Place(seq, b) > k THEN Place(seq, b) - k ELSE Place(seq, b) - k + n
  <2>1. Place(seq, b) \in 1..n /\ seq[Place(seq, b)] = b
    BY <1>1
  <2>2. e \in 1..n
    BY <1>1, <1>2, <2>1
  <2>3. At(e) = Place(seq, b)
    BY <1>1, <1>2, <2>1
  <2> QED
    BY <2>1, <2>2, <2>3
<1>6. ASSUME ids \subseteq out PROVE AdvanceFound(t, ids, ids \ out, rolled, c, round)
  <2>1. ahead = {}
    BY <1>1, <1>3, <1>6
  <2> QED
    BY <1>4, <1>6, <2>1 DEF Turn, AdvanceFound
<1>7. ASSUME ~(ids \subseteq out) PROVE AdvanceFound(t, ids, ids \ out, rolled, c, round)
  <2>1. ahead # {}
    BY <1>5, <1>7
  <2>2. d \in 1..n /\ seq[At(d)] \notin out /\ \A e \in 1..n : seq[At(e)] \notin out => d <= e
    <3>1. ahead \in SUBSET Nat
      BY <1>1
    <3> HIDE DEF ahead
    <3>2. d \in ahead /\ \A e \in ahead : d <= e
      BY <2>1, <3>1, LeastIsLeast
    <3> QED
      BY <3>2 DEF ahead
  <2> HIDE DEF d, ahead
  <2>3. /\ t = Turn(t.current, "combatant", NoOne, t.round)
        /\ t.current = seq[At(d)] /\ t.round = IF k + d > n THEN round + 1 ELSE round
    BY <1>4, <2>1 DEF Turn
  <2>4. t.current \in ids /\ t.current \notin out
    BY <1>1, <1>3, <2>2, <2>3
  <2>5. \A b \in ids \ out : IF k + d > n THEN Place(seq, b) <= k /\ At(d) <= Place(seq, b)
                              ELSE At(d) <= Place(seq, b) \/ Place(seq, b) <= k
    <3> TAKE b \in ids \ out
    <3>1. PICK e \in 1..n : At(e) = Place(seq, b) /\ seq[At(e)] = b
      BY <1>5
    <3>2. d <= e
      BY <2>2, <3>1
    <3> QED
      BY <1>1, <1>2, <2>2, <3>1, <3>2
  <2>6. CASE k + d > n
    <3>1. c \in ids
      BY <1>1, <1>2, <2>2, <2>6
    <3>2. \A b \in ids \ out : ~Precedes(c, b, rolled) /\ ~Precedes(b, t.current, rolled)
      <4> TAKE b \in ids \ out
      <4>1. Place(seq, b) <= k /\ At(d) <= Place(seq, b)
        BY <2>5, <2>6
      <4>2. Place(seq, b) \in 1..n /\ seq[Place(seq, b)] = b /\ k \in 1..n /\ seq[k] = c
        BY <1>1, <1>2, <3>1
      <4>3. At(d) \in 1..n
        BY <1>3, <2>2
      <4> QED
        BY <1>1, <2>3, <4>1, <4>2, <4>3
    <3>3. NobodyAfter(c, ids \ out, rolled) /\ NobodyBefore(t.current, ids \ out, rolled)
      BY <3>2 DEF NobodyAfter, NobodyBefore
    <3> QED
      BY <1>7, <2>3, <2>4, <2>6, <3>1, <3>3 DEF AdvanceFound
  <2>7. CASE ~(k + d > n)
    <3>1. At(d) = k + d /\ At(d) \in 1..n /\ k < At(d)
      BY <1>1, <1>2, <1>3, <2>2, <2>7
    <3>2. c \in ids => Precedes(c, t.current, rolled)
      BY <1>1, <1>2, <2>3, <3>1
    <3>3. ASSUME NEW b \in ids \ out, Precedes(b, t.current, rolled)
          PROVE  c \in ids /\ ~Precedes(c, b, rolled)
      <4>1. Place(seq, b) \in 1..n /\ seq[Place(seq, b)] = b
        BY <1>1
      <4>2. Place(seq, b) < At(d)
        BY <1>1, <2>3, <3>1, <3>3, <4>1
      <4>3. Place(seq, b) <= k
        BY <1>1, <1>2, <2>5, <2>7, <3>1, <4>1, <4>2
      <4>4. c \in ids /\ k \in 1..n /\ seq[k] = c
        BY <1>1, <1>2, <4>1, <4>3
      <4> QED
        BY <1>1, <4>1, <4>3, <4>4
    <3>4. c \in ids => /\ ~NobodyAfter(c, ids \ out, rolled)
                       /\ NobodyBetween(c, t.current, ids \ out, rolled)
      BY <2>4, <3>2, <3>3 DEF NobodyAfter, NobodyBetween
    <3>5. c \notin ids => NobodyBefore(t.current, ids \ out, rolled)
      BY <3>3 DEF NobodyBefore
    <3> QED
      BY <1>7, <2>3, <2>4, <2>7, <3>2, <3>4, <3>5 DEF AdvanceFound
  <2> QED
    BY <2>6, <2>7
<1> QED
  BY <1>0, <1>6, <1>7

(* retreatTurn finds the last one able.                                     *)
LEMMA RetreatTurnFinds ==
    ASSUME NEW rolled \in [Combatant -> Nat], NEW ids \in SUBSET Combatant,
           NEW out, NEW c \in ids, NEW round \in Nat \ {0}
    PROVE  RetreatFound(RetreatTurn(Sorted(ids, rolled), out, c, round),
                        ids \ out, rolled, c, round)
<1>0. PICK seq, t : seq = Sorted(ids, rolled) /\ t = RetreatTurn(seq, out, c, round)
  OBVIOUS
<1> DEFINE n == Len(seq)
           k == Place(seq, c)
           At(d) == IF k - d < 1 THEN k - d + n ELSE k - d
           back == {d \in 1..n : seq[At(d)] \notin out}
           d == Least(back)
<1>1. /\ n \in Nat /\ ToSet(seq) = ids
      /\ \A j \in 1..n : seq[j] \in ids
      /\ \A j, m \in 1..n : Precedes(seq[j], seq[m], rolled) <=> j < m
      /\ \A b \in ids : Place(seq, b) \in 1..n /\ seq[Place(seq, b)] = b
  <2>1. IsOrder(seq, ids, rolled)
    BY <1>0, SortedIsOrder
  <2> QED
    BY <2>1, OrderPlaces
<1>2. k \in 1..n /\ seq[k] = c
  BY <1>1
<1> HIDE DEF k
<1>3. \A e \in 1..n : ((k - e - 1 + n) % n) + 1 = At(e) /\ At(e) \in 1..n
  <2> TAKE e \in 1..n
  <2>1. n \in Nat \ {0}
    BY <1>1
  <2>2. ((k - e - 1 + n) % n) + 1 = IF k - e < 1 THEN k - e + n ELSE k - e
    BY <1>2, <2>1, Backward
  <2>3. At(e) \in 1..n
    BY <1>2, <2>1
  <2> QED
    BY <2>2, <2>3
<1>4. t = IF back = {} THEN Turn(NoOne, "combatant", NoOne, round)
          ELSE Turn(seq[At(d)], "combatant", NoOne,
                    IF k - d < 1 THEN LowestRound(round - 1) ELSE round)
  <2>1. back = {e \in 1..n : Able(seq[((k - e - 1 + n) % n) + 1], out)}
    BY <1>3 DEF Able
  <2>2. back # {} => d \in 1..n
    <3>1. back \in SUBSET Nat /\ back \subseteq 1..n
      BY <1>1
    <3> HIDE DEF back
    <3> QED
      BY <3>1, LeastIsLeast
  <2> HIDE DEF back, d, At
  <2>3. c \in ToSet(seq)
    BY <1>1
  <2> QED
    BY <1>0, <1>3, <2>1, <2>2, <2>3 DEF RetreatTurn, d, n, k
<1>5. \A b \in ids : \E e \in 1..n : At(e) = Place(seq, b) /\ seq[At(e)] = b
  <2> TAKE b \in ids
  <2> DEFINE e == IF Place(seq, b) < k THEN k - Place(seq, b) ELSE k - Place(seq, b) + n
  <2>1. Place(seq, b) \in 1..n /\ seq[Place(seq, b)] = b
    BY <1>1
  <2>2. e \in 1..n
    BY <1>1, <1>2, <2>1
  <2>3. At(e) = Place(seq, b)
    BY <1>1, <1>2, <2>1
  <2> QED
    BY <2>1, <2>2, <2>3
<1>6. ASSUME ids \subseteq out PROVE RetreatFound(t, ids \ out, rolled, c, round)
  <2>1. back = {}
    BY <1>1, <1>3, <1>6
  <2> QED
    BY <1>4, <1>6, <2>1 DEF Turn, RetreatFound
<1>7. ASSUME ~(ids \subseteq out) PROVE RetreatFound(t, ids \ out, rolled, c, round)
  <2>1. back # {}
    BY <1>5, <1>7
  <2>2. d \in 1..n /\ seq[At(d)] \notin out /\ \A e \in 1..n : seq[At(e)] \notin out => d <= e
    <3>1. back \in SUBSET Nat
      BY <1>1
    <3> HIDE DEF back
    <3>2. d \in back /\ \A e \in back : d <= e
      BY <2>1, <3>1, LeastIsLeast
    <3> QED
      BY <3>2 DEF back
  <2> HIDE DEF d, back
  <2>3. /\ t = Turn(t.current, "combatant", NoOne, t.round)
        /\ t.current = seq[At(d)]
        /\ t.round = IF k - d < 1 THEN LowestRound(round - 1) ELSE round
    BY <1>4, <2>1 DEF Turn
  <2>4. t.current \in ids /\ t.current \notin out
    BY <1>1, <1>3, <2>2, <2>3
  <2>5. \A b \in ids \ out : IF k - d < 1 THEN Place(seq, b) >= k /\ At(d) >= Place(seq, b)
                              ELSE At(d) >= Place(seq, b) \/ Place(seq, b) >= k
    <3> TAKE b \in ids \ out
    <3>1. PICK e \in 1..n : At(e) = Place(seq, b) /\ seq[At(e)] = b
      BY <1>5
    <3>2. d <= e
      BY <2>2, <3>1
    <3> QED
      BY <1>1, <1>2, <2>2, <3>1, <3>2
  <2>6. \A b \in ids \ out : Place(seq, b) \in 1..n /\ seq[Place(seq, b)] = b
    BY <1>1
  <2>7. At(d) \in 1..n
    BY <1>3, <2>2
  <2>8. CASE k - d < 1
    <3>1. \A b \in ids \ out : ~Precedes(b, c, rolled) /\ ~Precedes(t.current, b, rolled)
      <4> TAKE b \in ids \ out
      <4>1. Place(seq, b) >= k /\ At(d) >= Place(seq, b)
        BY <2>5, <2>8
      <4> QED
        BY <1>1, <1>2, <2>3, <2>6, <2>7, <4>1
    <3>2. NobodyBefore(c, ids \ out, rolled) /\ NobodyAfter(t.current, ids \ out, rolled)
      BY <3>1 DEF NobodyBefore, NobodyAfter
    <3> QED
      BY <1>7, <2>3, <2>4, <2>8, <3>2 DEF RetreatFound
  <2>9. CASE ~(k - d < 1)
    <3>1. At(d) < k
      BY <1>1, <1>2, <2>2, <2>9
    <3>2. Precedes(t.current, c, rolled)
      BY <1>1, <1>2, <2>3, <2>7, <3>1
    <3>3. ASSUME NEW b \in ids \ out, Precedes(t.current, b, rolled)
          PROVE  ~Precedes(b, c, rolled)
      <4>1. At(d) < Place(seq, b)
        BY <1>1, <2>3, <2>6, <2>7, <3>3
      <4>2. Place(seq, b) >= k
        BY <1>1, <1>2, <2>5, <2>6, <2>7, <2>9, <4>1
      <4> QED
        BY <1>1, <1>2, <2>6, <4>2
    <3>4. /\ ~NobodyBefore(c, ids \ out, rolled)
          /\ NobodyBetween(t.current, c, ids \ out, rolled)
      BY <2>4, <3>2, <3>3 DEF NobodyBefore, NobodyBetween
    <3> QED
      BY <1>7, <2>3, <2>4, <2>9, <3>2, <3>4 DEF RetreatFound
  <2> QED
    BY <2>8, <2>9
<1> QED
  BY <1>0, <1>6, <1>7

(* What a turn undone is to find: whom the turn was taken from.             *)
GoesBack(r, t, ids, able, rolled, c, round) ==
    /\ AdvanceFound(t, ids, able, rolled, c, round)
    /\ RetreatFound(r, able, rolled, t.current, t.round)
    => r = Turn(c, "combatant", NoOne, round)

(* Of a turn that went on from somebody able.                               *)
LEMMA RetreatUndoesAdvance ==
    ASSUME NEW rolled \in [Combatant -> Nat], NEW ids \in SUBSET Combatant,
           NEW able \in SUBSET ids, NEW c \in able, NEW round \in Nat \ {0}, NEW t, NEW r
    PROVE  GoesBack(r, t, ids, able, rolled, c, round)
<1> SUFFICES ASSUME AdvanceFound(t, ids, able, rolled, c, round),
                    RetreatFound(r, able, rolled, t.current, t.round)
             PROVE  r = Turn(c, "combatant", NoOne, round)
  BY DEF GoesBack
<1>1. /\ t.current \in able
      /\ NobodyAfter(c, able, rolled) =>
           t.round = round + 1 /\ NobodyBefore(t.current, able, rolled)
      /\ ~NobodyAfter(c, able, rolled) =>
           /\ t.round = round /\ Precedes(c, t.current, rolled)
           /\ NobodyBetween(c, t.current, able, rolled)
  BY DEF AdvanceFound
<1>2. /\ r = Turn(r.current, "combatant", NoOne, r.round) /\ r.current \in able
      /\ NobodyBefore(t.current, able, rolled) =>
           r.round = LowestRound(t.round - 1) /\ NobodyAfter(r.current, able, rolled)
      /\ ~NobodyBefore(t.current, able, rolled) =>
           /\ r.round = t.round /\ Precedes(r.current, t.current, rolled)
           /\ NobodyBetween(r.current, t.current, able, rolled)
  BY DEF RetreatFound
<1>3. \A b, d \in able : b # d => Precedes(b, d, rolled) \/ Precedes(d, b, rolled)
  BY PrecedesIsTotal
<1>4. CASE NobodyAfter(c, able, rolled)
  <2>1. NobodyBefore(t.current, able, rolled) /\ t.round = round + 1
    BY <1>1, <1>4
  <2>2. r.round = round /\ NobodyAfter(r.current, able, rolled)
    BY <1>2, <2>1 DEF LowestRound
  <2>3. r.current = c
    BY <1>2, <1>3, <1>4, <2>2 DEF NobodyAfter
  <2> QED
    BY <1>2, <2>2, <2>3
<1>5. CASE ~NobodyAfter(c, able, rolled)
  <2>1. /\ t.round = round /\ Precedes(c, t.current, rolled)
        /\ NobodyBetween(c, t.current, able, rolled)
    BY <1>1, <1>5
  <2>2. ~NobodyBefore(t.current, able, rolled)
    BY <2>1 DEF NobodyBefore
  <2>3. /\ r.round = round /\ Precedes(r.current, t.current, rolled)
        /\ NobodyBetween(r.current, t.current, able, rolled)
    BY <1>2, <2>1, <2>2
  <2>4. r.current = c
    BY <1>2, <1>3, <2>1, <2>3 DEF NobodyBetween
  <2> QED
    BY <1>2, <2>3, <2>4
<1> QED
  BY <1>4, <1>5

-----------------------------------------------------------------------------
(* What the turn engine's operators return.                                 *)

(* The turn goes on from e to t: out of the lair slot to whom it waited     *)
(* for, or to the next one able, or into the lair slot that waits for that. *)
GoesOn(t, ids, able, rolled, e) ==
    \/ /\ e.phase = "lair"
       /\ t = Turn(t.current, "combatant", NoOne, e.round)
       /\ IF e.resume = NoOne THEN t.current \in ids ELSE t.current = e.resume
    \/ /\ e.phase # "lair"
       /\ \E b : /\ AdvanceFound(b, ids, able, rolled, e.current, e.round)
                 /\ \/ t = b
                    \/ b.current # NoOne /\ t = Turn(NoOne, "lair", b.current, b.round)

(* advanceEncounterTurn goes on so.                                         *)
LEMMA AdvanceGoesOn ==
    ASSUME init \in [Combatant -> Nat], NEW ids \in SUBSET Combatant, ids # {},
           NEW out, NEW e, e.round \in Nat \ {0}
    PROVE  GoesOn(AdvanceEncounterTurn(Sorted(ids, init), out, e), ids, ids \ out, init, e)
<1>0. PICK seq, t : seq = Sorted(ids, init) /\ t = AdvanceEncounterTurn(seq, out, e)
  OBVIOUS
<1>1. /\ Len(seq) \in Nat /\ Len(seq) # 0
      /\ \A k \in 1..Len(seq) : seq[k] \in ids
  <2>1. IsOrder(seq, ids, init)
    BY <1>0, SortedIsOrder
  <2> QED
    BY <2>1, OrderPlaces
<1>2. PICK b : b = AdvanceTurn(seq, out, e.current, e.round)
  OBVIOUS
<1>3. AdvanceFound(b, ids, ids \ out, init, e.current, e.round)
  BY <1>0, <1>2, AdvanceTurnFinds
<1>4. ASSUME e.phase = "lair" PROVE GoesOn(t, ids, ids \ out, init, e)
  <2> DEFINE lows == {k \in 1..Len(seq) : ~High(seq[k])}
             c == IF e.resume # NoOne THEN e.resume
                  ELSE IF lows # {} THEN seq[Least(lows)] ELSE seq[1]
  <2>1. t = Turn(c, "combatant", NoOne, e.round)
    BY <1>0, <1>4 DEF AdvanceEncounterTurn
  <2>2. lows # {} => Least(lows) \in 1..Len(seq)
    <3>1. lows \in SUBSET Nat /\ lows \subseteq 1..Len(seq)
      BY <1>1
    <3> HIDE DEF lows
    <3> QED
      BY <3>1, LeastIsLeast
  <2> HIDE DEF lows
  <2>3. IF e.resume = NoOne THEN c \in ids ELSE c = e.resume
    BY <1>1, <2>2
  <2> QED
    BY <1>4, <2>1, <2>3 DEF GoesOn, Turn
<1>5. ASSUME e.phase # "lair" PROVE GoesOn(t, ids, ids \ out, init, e)
  <2>1. t = IF HasLair(seq) /\ EntersLairAfter(e.current, seq) /\ b.current # NoOne
            THEN Turn(NoOne, "lair", b.current, b.round) ELSE b
    BY <1>0, <1>2, <1>5 DEF AdvanceEncounterTurn
  <2> QED
    BY <1>3, <1>5, <2>1 DEF GoesOn
<1> QED
  BY <1>0, <1>4, <1>5

(* Where it goes there is somebody, or nobody.                              *)
LEMMA GoesSomewhere ==
    ASSUME NEW rolled, NEW ids \in SUBSET Combatant, NEW able \in SUBSET ids,
           NEW e, e.round \in Nat \ {0}, e.resume \in Someone,
           NEW t, GoesOn(t, ids, able, rolled, e)
    PROVE  /\ t \in Pointers
           /\ {t.current, t.resume} \subseteq ids \cup {e.resume, NoOne}
           /\ e.phase # "lair" => {t.current, t.resume} \subseteq able \cup {NoOne}
           /\ t.phase = "lair" => t.current = NoOne /\ t.resume # NoOne
           /\ t.phase # "lair" => t.resume = NoOne
           /\ t.round \in {e.round, e.round + 1}
<1>1. CASE e.phase = "lair"
  <2>1. /\ t = Turn(t.current, "combatant", NoOne, e.round)
        /\ IF e.resume = NoOne THEN t.current \in ids ELSE t.current = e.resume
    BY <1>1 DEF GoesOn
  <2> QED
    BY <1>1, <2>1 DEF Turn, Pointers, Someone
<1>2. CASE e.phase # "lair"
  <2>1. PICK b : /\ AdvanceFound(b, ids, able, rolled, e.current, e.round)
                 /\ \/ t = b
                    \/ b.current # NoOne /\ t = Turn(NoOne, "lair", b.current, b.round)
    BY <1>2 DEF GoesOn
  <2>2. /\ b = Turn(b.current, "combatant", NoOne, b.round)
        /\ b.current \in able \cup {NoOne}
        /\ b.round \in {e.round, e.round + 1}
    BY <2>1 DEF AdvanceFound
  <2>3. CASE t = b
    BY <1>2, <2>2, <2>3 DEF Turn, Pointers, Someone
  <2>4. CASE b.current # NoOne /\ t = Turn(NoOne, "lair", b.current, b.round)
    BY <1>2, <2>2, <2>4 DEF Turn, Pointers, Someone
  <2> QED
    BY <2>1, <2>3, <2>4
<1> QED
  BY <1>1, <1>2

(* So it does when it goes back.                                            *)
LEMMA RetreatGoesSomewhere ==
    ASSUME init \in [Combatant -> Nat], NEW ids \in SUBSET Combatant, ids # {},
           NEW out, NEW e, e.round \in Nat \ {0}, e.current \in Someone,
           NEW t, t = RetreatEncounterTurn(Sorted(ids, init), out, e)
    PROVE  /\ t \in Pointers
           /\ {t.current, t.resume} \subseteq ids \cup {e.current, NoOne}
           /\ t.phase = "lair" => t.current = NoOne /\ t.resume = e.current /\ e.phase # "lair"
           /\ t.phase # "lair" => t.resume = NoOne
           /\ t.round <= e.round
<1>0. PICK seq : seq = Sorted(ids, init)
  OBVIOUS
<1>1. /\ Len(seq) \in Nat /\ Len(seq) # 0 /\ ToSet(seq) = ids
      /\ \A k \in 1..Len(seq) : seq[k] \in ids
      /\ \A c \in ids : Place(seq, c) \in 1..Len(seq)
  <2>1. IsOrder(seq, ids, init)
    BY <1>0, SortedIsOrder
  <2> QED
    BY <2>1, OrderPlaces
<1>2. /\ \A m \in Nat : LowestRound(m) \in Nat \ {0}
      /\ LowestRound(e.round - 1) <= e.round
  BY DEF LowestRound
<1>3. CASE e.phase = "lair"
  <2> DEFINE resume == IF e.resume # NoOne THEN e.resume ELSE seq[1]
             k == IF resume \in ToSet(seq) THEN Place(seq, resume) ELSE 1
  <2>1. k \in 1..Len(seq)
    BY <1>1
  <2>2. t = IF k > 1 THEN Turn(seq[k - 1], "combatant", NoOne, e.round)
            ELSE Turn(seq[Len(seq)], "combatant", NoOne, LowestRound(e.round - 1))
    BY <1>0, <1>3 DEF RetreatEncounterTurn
  <2> HIDE DEF k
  <2>3. CASE k > 1
    <3>1. seq[k - 1] \in ids
      BY <1>1, <2>1, <2>3
    <3> QED
      BY <2>2, <2>3, <3>1 DEF Turn, Pointers, Someone
  <2>4. CASE ~(k > 1)
    <3>1. Len(seq) \in 1..Len(seq) /\ e.round - 1 \in Nat
      BY <1>1
    <3>2. seq[Len(seq)] \in ids /\ LowestRound(e.round - 1) \in Nat \ {0}
      BY <1>1, <1>2, <3>1
    <3>3. PICK m : m = LowestRound(e.round - 1)
      OBVIOUS
    <3>4. t = Turn(seq[Len(seq)], "combatant", NoOne, m) /\ m \in Nat \ {0} /\ m <= e.round
      BY <1>2, <2>2, <2>4, <3>2, <3>3
    <3> QED
      BY <1>3, <3>2, <3>4 DEF Turn, Pointers, Someone
  <2> QED
    BY <2>3, <2>4
<1>4. CASE e.phase # "lair"
  <2>1. PICK b : b = RetreatTurn(seq, out, e.current, e.round)
    OBVIOUS
  <2>2. b = Turn(b.current, "combatant", NoOne, b.round) /\ b.current \in ids \cup {NoOne}
        /\ b.round \in Nat \ {0} /\ b.round <= e.round
    <3>1. CASE e.current \in ids
      <4>1. RetreatFound(b, ids \ out, init, e.current, e.round)
        BY <1>0, <2>1, <3>1, RetreatTurnFinds
      <4>2. /\ b = Turn(b.current, "combatant", NoOne, b.round)
            /\ b.current \in ids \cup {NoOne}
            /\ b.round \in {e.round, LowestRound(e.round - 1)}
        BY <4>1 DEF RetreatFound
      <4> QED
        BY <1>2, <4>2
    <3>2. CASE e.current \notin ids
      <4>1. b = Turn(seq[1], "combatant", NoOne, e.round)
        BY <1>1, <2>1, <3>2 DEF RetreatTurn
      <4> QED
        BY <1>1, <4>1 DEF Turn
    <3> QED
      BY <3>1, <3>2
  <2>3. t = IF HasLair(seq) /\ EntersLairAfter(b.current, seq)
            THEN Turn(NoOne, "lair", e.current, b.round) ELSE b
    BY <1>0, <1>4, <2>1 DEF RetreatEncounterTurn
  <2>4. CASE t = b
    BY <2>2, <2>4 DEF Turn, Pointers, Someone
  <2>5. CASE t = Turn(NoOne, "lair", e.current, b.round)
    BY <1>4, <2>2, <2>5 DEF Turn, Pointers, Someone
  <2> QED
    BY <2>3, <2>4, <2>5
<1> QED
  BY <1>3, <1>4

(* An index is a number.                                                    *)
LEMMA IndexIsNat ==
    ASSUME NEW rolled \in [Combatant -> Nat], NEW ids \in SUBSET Combatant, NEW c
    PROVE  IndexFor(Sorted(ids, rolled), c) \in Nat
<1>1. PICK seq : seq = Sorted(ids, rolled)
  OBVIOUS
<1>2. IsOrder(seq, ids, rolled)
  BY <1>1, SortedIsOrder
<1>3. /\ Len(seq) \in Nat /\ ToSet(seq) = ids
      /\ \A b \in ids : Place(seq, b) \in 1..Len(seq)
  BY <1>2, OrderPlaces
<1>4. IndexFor(seq, c) \in Nat
  BY <1>3 DEF IndexFor
<1> QED
  BY <1>1, <1>4

-----------------------------------------------------------------------------
(* Types, and that pointers name who is there.                              *)

(* What an undo of the last removal would point to is there, or comes back. *)
ReceiptNames ==
    receipt.who # NoOne =>
      /\ {receipt.before.current, receipt.before.resume} \subseteq roster \cup {receipt.who, NoOne}
      /\ receipt.before.phase = "lair" => receipt.before.current = NoOne

BaseInv == TypeOK /\ PointerIsThere /\ ReceiptNames

(* Initiatives are numbers and combatants are somebody.                     *)
LEMMA BaseFacts ==
    ASSUME TypeOK
    PROVE  /\ init \in [Combatant -> Nat] /\ roster \in SUBSET Combatant
           /\ NoOne \notin Combatant /\ MaxTimer \in Nat
           /\ enc.round \in Nat \ {0} /\ enc.current \in Someone /\ enc.resume \in Someone
           /\ enc.phase \in {"combatant", "lair"}
           /\ enc.version \in Nat /\ enc.stateVersion \in Nat /\ enc.index \in Nat
<1>1. Rolls \cup {0} \subseteq Nat /\ MaxTimer \in Nat
  BY BoundsAreNat
<1>2. init \in [Combatant -> Rolls \cup {0}] /\ enc \in Encounters /\ roster \in SUBSET Combatant
  BY DEF TypeOK
<1>3. init \in [Combatant -> Nat]
  BY <1>1, <1>2
<1>4. NoOne \notin Combatant
  BY CombatantsAreIds DEF NoOne
<1> QED
  BY <1>1, <1>2, <1>3, <1>4 DEF Encounters

(* Steering changes the pointer and the index.                              *)
IsSteered(s, e, t, n) ==
    /\ s \in Encounters /\ Pointer(s) = t /\ s.index = n
    /\ s.current = t.current /\ s.phase = t.phase /\ s.resume = t.resume
    /\ s.round = t.round /\ s.version = e.version /\ s.stateVersion = e.stateVersion

(* Steered is what it says.                                                 *)
LEMMA SteeredIs ==
    ASSUME NEW e \in Encounters, NEW t \in Pointers, NEW n \in Nat
    PROVE  IsSteered(Steered(e, t, n), e, t, n)
<1>0. PICK s : s = Steered(e, t, n)
  OBVIOUS
<1>1. /\ s.current = t.current /\ s.phase = t.phase /\ s.resume = t.resume
      /\ s.round = t.round /\ s.version = e.version /\ s.stateVersion = e.stateVersion
      /\ s.index = n /\ s \in Encounters
  BY <1>0 DEF Steered, Encounters, Pointers
<1>2. t = Turn(t.current, t.phase, t.resume, t.round)
  BY DEF Pointers, Turn
<1> QED
  BY <1>0, <1>1, <1>2 DEF Pointer, IsSteered

(* The pointer of a row is a pointer.                                       *)
LEMMA PointerIs ==
    ASSUME NEW e \in Encounters
    PROVE  /\ Pointer(e) \in Pointers
           /\ Pointer(e).current = e.current /\ Pointer(e).phase = e.phase
           /\ Pointer(e).resume = e.resume /\ Pointer(e).round = e.round
BY DEF Pointer, Turn, Encounters, Pointers

(* Ticks keep timers timers.                                                *)
LEMMA TicksAreTimed ==
    ASSUME MaxTimer \in Nat, NEW tm \in Timers, NEW c \in Someone
    PROVE  EndTick(tm, c) \in Timers /\ StartTick(tm, c) \in Timers
<1>1. \A n \in 0..MaxTimer : Sooner(n) \in 0..MaxTimer
  BY DEF Sooner
<1>2. CASE c = NoOne
  BY <1>2 DEF EndTick, StartTick
<1>3. CASE c # NoOne
  <2>1. c \in Combatant /\ tm[c] \in Timer
    BY <1>3 DEF Someone, Timers
  <2>2. [tm[c] EXCEPT !.atEnd = Sooner(tm[c].atEnd)] \in Timer
    BY <1>1, <2>1 DEF Timer
  <2>3. [tm[c] EXCEPT !.atStart = Sooner(tm[c].atStart)] \in Timer
    BY <1>1, <2>1 DEF Timer
  <2>4. EndTick(tm, c) = [tm EXCEPT ![c] = [tm[c] EXCEPT !.atEnd = Sooner(tm[c].atEnd)]]
    BY <1>3, <2>1 DEF EndTick, Timers
  <2>5. StartTick(tm, c) = [tm EXCEPT ![c] = [tm[c] EXCEPT !.atStart = Sooner(tm[c].atStart)]]
    BY <1>3, <2>1 DEF StartTick, Timers
  <2> QED
    BY <2>1, <2>2, <2>3, <2>4, <2>5 DEF Timers
<1> QED
  BY <1>2, <1>3

(* So does putting back what a tick took.                                   *)
LEMMA PutBackIsTimed ==
    ASSUME roster \in SUBSET Combatant, NEW tm \in Timers, NEW tick \in Snapshots
    PROVE  PutBack(tm, tick) \in Timers
<1> DEFINE e == tick.ending.who
           s == tick.starting.who
           ended == IF e \in roster /\ tick.ending.was > 0 /\ tm[e].atEnd = tick.ending.was - 1
                    THEN [tm EXCEPT ![e].atEnd = tick.ending.was] ELSE tm
<1>1. tick.ending.was \in 0..MaxTimer /\ tick.starting.was \in 0..MaxTimer
  BY DEF Snapshots, Deltas
<1>2. ASSUME NEW f \in Timers, NEW c \in roster
      PROVE  /\ [f EXCEPT ![c].atEnd = tick.ending.was] \in Timers
             /\ [f EXCEPT ![c].atStart = tick.starting.was] \in Timers
  <2>1. c \in Combatant /\ f[c] \in Timer
    BY DEF Timers
  <2>2. [f[c] EXCEPT !.atEnd = tick.ending.was] \in Timer
    BY <1>1, <2>1 DEF Timer
  <2>3. [f[c] EXCEPT !.atStart = tick.starting.was] \in Timer
    BY <1>1, <2>1 DEF Timer
  <2> QED
    BY <2>1, <2>2, <2>3 DEF Timers
<1>3. ended \in Timers
  BY <1>2
<1>4. PutBack(tm, tick) \in {ended, [ended EXCEPT ![s].atStart = tick.starting.was]}
      /\ (s \notin roster => PutBack(tm, tick) = ended)
  BY DEF PutBack
<1> HIDE DEF ended, s
<1> QED
  BY <1>2, <1>3, <1>4

(* The last of a sequence and what is before it.                            *)
LEMMA FrontAndLast ==
    ASSUME NEW S, NEW q \in Seq(S), q # <<>>
    PROVE  Front(q) \in Seq(S) /\ Last(q) \in S
<1>1. Len(q) \in Nat \ {0}
  OBVIOUS
<1>2. Last(q) \in S
  BY <1>1 DEF Last
<1>3. Front(q) \in Seq(S)
  BY <1>1 DEF Front
<1> QED
  BY <1>2, <1>3

(* Nothing remembered and no receipt are well formed.                       *)
LEMMA NothingIsTyped ==
    /\ NoTimer \in Timer /\ Nothing.pointer \in Pointers
    /\ Nothing \in [kind : {"nothing", "advance", "removal"}, pointer : Pointers,
                    timers : Timers, roster : SUBSET Combatant]
<1>1. MaxTimer \in Nat
  BY BoundsAreNat
<1>2. NoTimer \in Timer /\ [c \in Combatant |-> NoTimer] \in Timers
  BY <1>1 DEF Timers, Timer, NoTimer
<1>3. Turn(NoOne, "combatant", NoOne, 1) \in Pointers
  BY DEF Turn, Pointers, Someone
<1> QED
  BY <1>2, <1>3 DEF Nothing

(* No receipt is a receipt of nobody.                                       *)
LEMMA NoReceiptIsTyped ==
    ASSUME NEW rows \in SUBSET Combatant
    PROVE  /\ NoReceipt.who = NoOne
           /\ NoReceipt \in [who : Someone \ rows, before : Pointers,
                             after : Encounters \cup {<<>>}, started : Deltas, timers : Timer]
<1>1. NoOne \in Someone \ rows /\ MaxTimer \in Nat
  BY CombatantsAreIds, BoundsAreNat DEF Someone, NoOne
<1>2. Delta(NoOne, 0) \in Deltas
  BY <1>1 DEF Delta, Deltas
<1> QED
  BY <1>1, <1>2, NothingIsTyped DEF NoReceipt

(* A fight starts well typed, and its pointer names somebody there.         *)
LEMMA BaseInit ==
    ASSUME Init
    PROVE  BaseInv
<1>1. roster \in SUBSET Combatant /\ roster # {} /\ NoOne \notin Combatant
  BY CombatantsAreIds, GroupsAreCombatants DEF Init, NoOne
<1>2. init \in [Combatant -> Rolls \cup {0}] /\ init \in [Combatant -> Nat]
  <2>1. Rolls \cup {0} \subseteq Nat /\ init \in [Combatant -> Rolls \cup {0}]
    BY BoundsAreNat DEF Init
  <2> QED
    BY <2>1
<1>3. PICK seq : seq = Sorted(roster, init)
  OBVIOUS
<1>4. seq[1] \in roster
  <2>1. IsOrder(seq, roster, init)
    BY <1>1, <1>2, <1>3, SortedIsOrder
  <2>2. Len(seq) \in Nat /\ Len(seq) # 0 /\ \A k \in 1..Len(seq) : seq[k] \in roster
    BY <1>1, <1>2, <2>1, OrderPlaces
  <2> QED
    BY <2>2
<1>5. MaxTimer \in Nat
  BY BoundsAreNat
<1>6. \E leads \in BOOLEAN :
        /\ enc = [current |-> IF leads THEN NoOne ELSE seq[1], index |-> 0,
                  phase |-> IF leads THEN "lair" ELSE "combatant",
                  resume |-> IF leads THEN seq[1] ELSE NoOne,
                  round |-> 1, version |-> 1, stateVersion |-> 0]
        /\ acted = IF leads THEN {} ELSE {seq[1]}
  BY <1>3 DEF Init
<1>7. /\ enc \in Encounters /\ acted \subseteq Combatant
      /\ {enc.current, enc.resume} \subseteq roster \cup {NoOne}
      /\ enc.phase = "lair" => enc.current = NoOne
      /\ enc.phase = "lair" => enc.resume # NoOne
  BY <1>1, <1>4, <1>6 DEF Encounters, Someone
<1>8. timers \in Timers
  BY <1>5 DEF Init, Timers, Timer
<1>9. receipt = NoReceipt /\ prior = Nothing
  BY DEF Init
<1>11. prior \in [kind : {"nothing", "advance", "removal"}, pointer : Pointers,
                  timers : Timers, roster : SUBSET Combatant]
  BY <1>9, NothingIsTyped
<1>12. /\ receipt \in [who : Someone \ roster, before : Pointers, after : Encounters \cup {<<>>},
                       started : Deltas, timers : Timer]
       /\ receipt.who = NoOne
  BY <1>1, <1>9, NoReceiptIsTyped
<1>13. intent \in [Intent -> Requests]
  BY DEF Init, Idle, Requests, Someone
<1>14. ticks \in Seq(Snapshots)
  BY DEF Init
<1>15. /\ down \subseteq Combatant /\ claims \subseteq Intent
       /\ reindex \in [due : BOOLEAN, current : Someone]
       /\ spent \in [hits : Nat, moves : Nat, undos : Nat] /\ moved \in [Intent -> Nat]
       /\ ready \subseteq Combatant
  BY <1>1 DEF Init, Someone
<1>16. TypeOK
  BY <1>1, <1>2, <1>7, <1>8, <1>11, <1>12, <1>13, <1>14, <1>15 DEF TypeOK
<1> QED
  BY <1>7, <1>12, <1>16 DEF BaseInv, PointerIsThere, ReceiptNames

(* An answered request is a request.                                        *)
LEMMA AnswersAreRequests ==
    ASSUME intent \in [Intent -> Requests], NEW i \in Intent, NEW a \in {"ok", "refused"},
           Answer(i, a)
    PROVE  intent' \in [Intent -> Requests]
<1>1. intent[i] \in Requests /\ NoOne \in Someone
  BY DEF Someone
<1> QED
  BY <1>1 DEF Answer, Requests

(* A client's click, another try and an answer without effect touch nothing *)
(* but what that client knows.                                              *)
ClientStep(i) == Click(i) \/ Resend(i) \/ Replay(i) \/ Refuse(i)

(* So clients keep types and pointers.                                      *)
LEMMA ClientsKeepBase ==
    ASSUME BaseInv, NEW i \in Intent, ClientStep(i)
    PROVE  BaseInv'
<1>1. UNCHANGED <<roster, init, down, receipt, timers, enc, ticks, claims, reindex, spent,
                  moved, prior, ready, acted>>
  BY DEF ClientStep, Click, Resend, Replay, Refuse, KeepRoster
<1>2. intent' \in [Intent -> Requests]
  <2>1. intent \in [Intent -> Requests] /\ enc.current \in Someone /\ NoOne \in Someone
    BY DEF BaseInv, TypeOK, Encounters, Someone
  <2>2. intent[i] \in Requests
    BY <2>1
  <2>3. CASE Click(i)
    <3>1. PICK c \in {NoOne, enc.current} :
            intent' = [intent EXCEPT ![i] = [Idle EXCEPT !.pc = "sent", !.expects = c, !.tries = 1]]
      BY <2>3 DEF Click
    <3>2. [Idle EXCEPT !.pc = "sent", !.expects = c, !.tries = 1] \in Requests
      BY <2>1 DEF Idle, Requests
    <3> QED
      BY <2>1, <3>1, <3>2
  <2>4. CASE Resend(i)
    BY <2>1, <2>2, <2>4 DEF Resend, Requests
  <2>5. CASE Replay(i)
    BY <2>1, <2>2, <2>5, AnswersAreRequests DEF Replay
  <2>6. CASE Refuse(i)
    BY <2>1, <2>2, <2>6, AnswersAreRequests DEF Refuse
  <2> QED
    BY <2>3, <2>4, <2>5, <2>6 DEF ClientStep
<1> QED
  BY <1>1, <1>2 DEF BaseInv, TypeOK, PointerIsThere, ReceiptNames

(* What AdvanceCurrentTurn does, with the turn it moves to named.           *)
Ending == IF enc.phase = "combatant" /\ enc.current \in roster THEN enc.current ELSE NoOne
Starting(t) == IF t.current \in roster THEN t.current ELSE NoOne
Ticked(t) == StartTick(EndTick(timers, Ending), Starting(t))
TickOf(t) ==
    [to |-> t,
     ending |-> Delta(Ending, IF Ending = NoOne THEN 0 ELSE timers[Ending].atEnd),
     starting |-> Delta(Starting(t), IF Starting(t) = NoOne THEN 0
                                     ELSE EndTick(timers, Ending)[Starting(t)].atStart)]

Advances(i, t) ==
    /\ t = AdvanceEncounterTurn(Sorted(roster, init), down, enc)
    /\ GoesOn(t, roster, roster \ down, init, enc)
    /\ intent[i].pc = "sent" /\ i \notin claims /\ roster # {}
    /\ timers' = Ticked(t)
    /\ enc' \in Encounters /\ Pointer(enc') = t
    /\ enc'.current = t.current /\ enc'.phase = t.phase /\ enc'.resume = t.resume
    /\ enc'.round = t.round
    /\ enc'.version = enc.version + 1 /\ enc'.stateVersion = enc.stateVersion
    /\ enc'.index = IndexFor(Sorted(roster, init), IF t.phase = "lair" THEN Ending ELSE t.current)
    /\ ticks' = IF {Ending, Starting(t)} = {NoOne} THEN ticks ELSE Append(ticks, TickOf(t))
    /\ claims' = claims \cup {i} /\ Answer(i, "ok")
    /\ moved' = [moved EXCEPT ![i] = moved[i] + 1]
    /\ prior' = Remember("advance") /\ Witness(t, roster)
    /\ UNCHANGED <<roster, init, down, receipt, reindex, spent>>

(* AdvanceCurrentTurn does that.                                            *)
LEMMA AdvanceIs ==
    ASSUME BaseInv, NEW i \in Intent, AdvanceCurrentTurn(i)
    PROVE  \E t \in Pointers : Advances(i, t)
<1>1. /\ init \in [Combatant -> Nat] /\ roster \in SUBSET Combatant /\ enc \in Encounters
      /\ enc.round \in Nat \ {0} /\ enc.resume \in Someone /\ enc.version \in Nat
      /\ moved \in [Intent -> Nat]
  BY BaseFacts DEF BaseInv, TypeOK
<1>2. PICK t : t = AdvanceEncounterTurn(Sorted(roster, init), down, enc)
  OBVIOUS
<1>3. roster # {} /\ intent[i].pc = "sent" /\ i \notin claims
  BY DEF AdvanceCurrentTurn
<1>4. GoesOn(t, roster, roster \ down, init, enc)
  BY <1>1, <1>2, <1>3, AdvanceGoesOn
<1>5. t \in Pointers
  BY <1>1, <1>4, GoesSomewhere
<1>6. PICK n : n = IndexFor(Sorted(roster, init), IF t.phase = "lair" THEN Ending ELSE t.current)
  OBVIOUS
<1>7. n \in Nat
  BY <1>1, <1>6, IndexIsNat
<1>8. PICK s : s = Steered(enc, t, n)
  OBVIOUS
<1>9. enc' = [s EXCEPT !.version = s.version + 1]
  BY <1>2, <1>6, <1>8 DEF AdvanceCurrentTurn, Ending
<1>10. /\ s \in Encounters /\ Pointer(s) = t /\ s.index = n
       /\ s.current = t.current /\ s.phase = t.phase /\ s.resume = t.resume
       /\ s.round = t.round /\ s.version = enc.version /\ s.stateVersion = enc.stateVersion
  <2>1. IsSteered(s, enc, t, n)
    BY <1>1, <1>5, <1>7, <1>8, SteeredIs
  <2> QED
    BY <2>1 DEF IsSteered
<1>11. /\ enc' \in Encounters /\ Pointer(enc') = t /\ enc'.index = n
       /\ enc'.current = t.current /\ enc'.phase = t.phase /\ enc'.resume = t.resume
       /\ enc'.round = t.round
       /\ enc'.version = enc.version + 1 /\ enc'.stateVersion = enc.stateVersion
  BY <1>1, <1>9, <1>10 DEF Encounters, Pointer
<1>12. /\ timers' = Ticked(t)
       /\ ticks' = IF {Ending, Starting(t)} = {NoOne} THEN ticks ELSE Append(ticks, TickOf(t))
  BY <1>2 DEF AdvanceCurrentTurn, Ending, Starting, Ticked, TickOf
<1>13. /\ claims' = claims \cup {i} /\ Answer(i, "ok")
       /\ moved' = [moved EXCEPT ![i] = moved[i] + 1]
       /\ prior' = Remember("advance") /\ Witness(t, roster)
       /\ UNCHANGED <<roster, init, down, receipt, reindex, spent>>
  BY <1>1, <1>2 DEF AdvanceCurrentTurn, RecordEncounterOp, KeepRoster
<1> QED
  BY <1>2, <1>3, <1>4, <1>5, <1>6, <1>11, <1>12, <1>13 DEF Advances

(* What is spent is counted.                                                *)
LEMMA SpendIsTyped ==
    ASSUME TypeOK, NEW what \in {"hits", "moves", "undos"}, Spend(what)
    PROVE  spent' \in [hits : Nat, moves : Nat, undos : Nat]
<1>1. spent \in [hits : Nat, moves : Nat, undos : Nat]
  BY DEF TypeOK
<1>2. CASE what = "hits"
  <2>1. spent' = [spent EXCEPT !.hits = spent.hits + 1]
    BY <1>2 DEF Spend
  <2> QED
    BY <1>1, <2>1
<1>3. CASE what = "moves"
  <2>1. spent' = [spent EXCEPT !.moves = spent.moves + 1]
    BY <1>3 DEF Spend
  <2> QED
    BY <1>1, <2>1
<1>4. CASE what = "undos"
  <2>1. spent' = [spent EXCEPT !.undos = spent.undos + 1]
    BY <1>4 DEF Spend
  <2> QED
    BY <1>1, <2>1
<1> QED
  BY <1>2, <1>3, <1>4

(* The ghosts of a moved turn keep their types.                             *)
LEMMA GhostsAreTyped ==
    ASSUME TypeOK, NEW kind \in {"advance", "removal"}, prior' = Remember(kind),
           NEW t, t.current \in Someone, NEW rows \in SUBSET Combatant, Witness(t, rows)
    PROVE  /\ prior' \in [kind : {"nothing", "advance", "removal"}, pointer : Pointers,
                          timers : Timers, roster : SUBSET Combatant]
           /\ ready' \subseteq Combatant /\ acted' \subseteq Combatant
<1>1. Pointer(enc) \in Pointers /\ timers \in Timers /\ roster \in SUBSET Combatant
  BY PointerIs DEF TypeOK
<1>2. ready \subseteq Combatant /\ acted \subseteq Combatant
  BY DEF TypeOK
<1> QED
  BY <1>1, <1>2 DEF Remember, Witness, Someone

(* A turn taken leads to somebody who is there.                             *)
LEMMA AdvanceKeepsBase ==
    ASSUME BaseInv, NEW i \in Intent, AdvanceCurrentTurn(i)
    PROVE  BaseInv'
<1>1. PICK t \in Pointers : Advances(i, t)
  BY AdvanceIs
<1>2. /\ roster \in SUBSET Combatant /\ MaxTimer \in Nat /\ NoOne \notin Combatant
      /\ enc.round \in Nat \ {0} /\ enc.resume \in Someone
      /\ {enc.current, enc.resume} \subseteq roster \cup {NoOne}
  BY BaseFacts DEF BaseInv, PointerIsThere
<1>3. GoesOn(t, roster, roster \ down, init, enc)
  BY <1>1 DEF Advances
<1>4. /\ {t.current, t.resume} \subseteq roster \cup {NoOne}
      /\ t.phase = "lair" => t.current = NoOne
  BY <1>2, <1>3, GoesSomewhere
<1>5. PointerIsThere'
  BY <1>1, <1>4 DEF Advances, PointerIsThere
<1>6. Ending \in Someone /\ Starting(t) \in Someone
  BY <1>2 DEF Ending, Starting, Someone
<1>7. EndTick(timers, Ending) \in Timers /\ timers' \in Timers
  BY <1>1, <1>2, <1>6, TicksAreTimed DEF Advances, Ticked, BaseInv, TypeOK
<1>8. TickOf(t) \in Snapshots
  <2>1. \A f \in Timers, c \in Someone : c # NoOne => f[c].atEnd \in 0..MaxTimer
                                                   /\ f[c].atStart \in 0..MaxTimer
    BY DEF Timers, Timer, Someone
  <2>2. timers \in Timers
    BY DEF BaseInv, TypeOK
  <2>3. PICK was, now \in 0..MaxTimer :
          TickOf(t) = [to |-> t, ending |-> Delta(Ending, was), starting |-> Delta(Starting(t), now)]
    BY <1>2, <1>6, <1>7, <2>1, <2>2 DEF TickOf
  <2>4. Delta(Ending, was) \in Deltas /\ Delta(Starting(t), now) \in Deltas
    BY <1>6 DEF Delta, Deltas
  <2> QED
    BY <2>3, <2>4 DEF Snapshots
<1>9. ticks' \in Seq(Snapshots)
  BY <1>1, <1>8 DEF Advances, BaseInv, TypeOK
<1>10. /\ prior' \in [kind : {"nothing", "advance", "removal"}, pointer : Pointers,
                      timers : Timers, roster : SUBSET Combatant]
       /\ ready' \subseteq Combatant /\ acted' \subseteq Combatant
  <2>1. prior' = Remember("advance") /\ Witness(t, roster) /\ t.current \in Someone
    BY <1>1, <1>2, <1>4 DEF Advances, Someone
  <2> QED
    BY <1>2, <2>1, GhostsAreTyped DEF BaseInv
<1>11. intent' \in [Intent -> Requests] /\ claims' \subseteq Intent /\ moved' \in [Intent -> Nat]
  BY <1>1, AnswersAreRequests DEF Advances, BaseInv, TypeOK
<1>12. enc' \in Encounters /\ UNCHANGED <<roster, init, down, receipt, reindex, spent>>
  BY <1>1 DEF Advances
<1> QED
  BY <1>5, <1>7, <1>9, <1>10, <1>11, <1>12 DEF BaseInv, TypeOK, ReceiptNames

(* What UndoTurn does, with the turn it goes back to named.                 *)
Undone(t) ==
    /\ t = RetreatEncounterTurn(Sorted(roster, init), down, enc)
    /\ {t.current, t.resume} \subseteq roster \cup {NoOne}
    /\ t.phase = "lair" => t.current = NoOne /\ t.resume = enc.current /\ enc.phase # "lair"
    /\ t.phase # "lair" => t.resume = NoOne
    /\ t.round <= enc.round
    /\ enc' \in Encounters /\ Pointer(enc') = t
    /\ enc'.current = t.current /\ enc'.phase = t.phase /\ enc'.resume = t.resume
    /\ enc'.round = t.round
    /\ enc'.version = enc.version + 1 /\ enc'.stateVersion = enc.stateVersion
    /\ t.phase # "lair" => enc'.index = IndexFor(Sorted(roster, init), t.current)
    /\ IF ticks # <<>> /\ Fits(NewestTick, t)
       THEN timers' = PutBack(timers, NewestTick) /\ ticks' = Front(ticks)
       ELSE UNCHANGED <<timers, ticks>>
    /\ Spend("undos") /\ prior' = Nothing /\ ready' = {} /\ acted' = {}
    /\ UNCHANGED <<roster, init, down, receipt, claims, intent, moved, reindex>>

(* UndoTurn does that.                                                      *)
LEMMA UndoTurnIs ==
    ASSUME BaseInv, UndoTurn
    PROVE  \E t \in Pointers : Undone(t)
<1>1. /\ init \in [Combatant -> Nat] /\ roster \in SUBSET Combatant /\ enc \in Encounters
      /\ enc.round \in Nat \ {0} /\ enc.current \in Someone /\ enc.version \in Nat
      /\ {enc.current, enc.resume} \subseteq roster \cup {NoOne} /\ roster # {}
  BY BaseFacts DEF BaseInv, TypeOK, PointerIsThere, UndoTurn
<1>2. PICK t : t = RetreatEncounterTurn(Sorted(roster, init), down, enc)
  OBVIOUS
<1>3. /\ t \in Pointers /\ {t.current, t.resume} \subseteq roster \cup {NoOne}
      /\ t.phase = "lair" => t.current = NoOne /\ t.resume = enc.current /\ enc.phase # "lair"
      /\ t.phase # "lair" => t.resume = NoOne
      /\ t.round <= enc.round
  BY <1>1, <1>2, RetreatGoesSomewhere
<1>4. PICK n : /\ enc' = [Steered(enc, t, n) EXCEPT !.version = @ + 1]
               /\ n \in Nat
               /\ t.phase # "lair" => n = IndexFor(Sorted(roster, init), t.current)
  <2>1. \E at : /\ enc' = [Steered(enc, t, IndexFor(Sorted(roster, init), at)) EXCEPT
                             !.version = @ + 1]
                /\ t.phase # "lair" => at = t.current
    BY <1>2 DEF UndoTurn
  <2> QED
    BY <1>1, <2>1, IndexIsNat
<1>5. PICK s : s = Steered(enc, t, n)
  OBVIOUS
<1>6. /\ s \in Encounters /\ Pointer(s) = t /\ s.index = n
      /\ s.current = t.current /\ s.phase = t.phase /\ s.resume = t.resume
      /\ s.round = t.round /\ s.version = enc.version /\ s.stateVersion = enc.stateVersion
  <2>1. IsSteered(s, enc, t, n)
    BY <1>1, <1>3, <1>4, <1>5, SteeredIs
  <2> QED
    BY <2>1 DEF IsSteered
<1>7. enc' = [s EXCEPT !.version = enc.version + 1]
  BY <1>4, <1>5, <1>6
<1>8. /\ enc' \in Encounters /\ Pointer(enc') = t /\ enc'.index = n
      /\ enc'.current = t.current /\ enc'.phase = t.phase
      /\ enc'.resume = t.resume /\ enc'.round = t.round
      /\ enc'.version = enc.version + 1 /\ enc'.stateVersion = enc.stateVersion
  BY <1>1, <1>6, <1>7 DEF Encounters, Pointer
<1>9. IF ticks # <<>> /\ Fits(NewestTick, t)
      THEN timers' = PutBack(timers, NewestTick) /\ ticks' = Front(ticks)
      ELSE UNCHANGED <<timers, ticks>>
  BY <1>2 DEF UndoTurn
<1>10. /\ Spend("undos") /\ prior' = Nothing /\ ready' = {} /\ acted' = {}
       /\ UNCHANGED <<roster, init, down, receipt, claims, intent, moved, reindex>>
  BY DEF UndoTurn, KeepRoster, KeepClients, Forget
<1> QED
  BY <1>2, <1>3, <1>4, <1>8, <1>9, <1>10 DEF Undone

(* An undone turn leaves pointers to who is there.                          *)
LEMMA UndoTurnKeepsBase ==
    ASSUME BaseInv, UndoTurn
    PROVE  BaseInv'
<1>1. PICK t \in Pointers : Undone(t)
  BY UndoTurnIs
<1>2. PointerIsThere'
  BY <1>1 DEF PointerIsThere, Undone
<1>3. timers' \in Timers /\ ticks' \in Seq(Snapshots)
  <2>1. timers \in Timers /\ ticks \in Seq(Snapshots) /\ roster \in SUBSET Combatant
    BY DEF BaseInv, TypeOK
  <2>2. CASE UNCHANGED <<timers, ticks>>
    BY <2>1, <2>2
  <2>3. CASE ticks # <<>> /\ timers' = PutBack(timers, NewestTick) /\ ticks' = Front(ticks)
    <3>1. NewestTick \in Snapshots /\ Front(ticks) \in Seq(Snapshots)
      BY <2>1, <2>3, FrontAndLast DEF NewestTick
    <3> QED
      BY <2>1, <2>3, <3>1, PutBackIsTimed
  <2> QED
    BY <1>1, <2>2, <2>3 DEF Undone
<1>4. /\ UNCHANGED <<roster, init, down, receipt, claims, intent, moved, reindex>>
      /\ prior' = Nothing /\ ready' = {} /\ acted' = {}
      /\ spent' \in [hits : Nat, moves : Nat, undos : Nat]
  BY <1>1, SpendIsTyped DEF Undone, BaseInv
<1>5. prior' \in [kind : {"nothing", "advance", "removal"}, pointer : Pointers,
                  timers : Timers, roster : SUBSET Combatant]
  BY <1>4, NothingIsTyped
<1>6. enc' \in Encounters
  BY <1>1 DEF Undone
<1> QED
  BY <1>2, <1>3, <1>4, <1>5, <1>6 DEF BaseInv, TypeOK, ReceiptNames

(* An HP write, a joining, an initiative and its index leave the pointer.   *)
LEMMA WritesKeepBase ==
    ASSUME BaseInv,
           \/ \E c \in Combatant : HpWrite(c) \/ AddCombatant(c)
           \/ \E c \in Combatant, n \in Rolls \cup {0} : SetInitiative(c, n)
           \/ Reindex \/ ReceiptExpires
    PROVE  BaseInv'
<1>1. /\ init \in [Combatant -> Nat] /\ roster \in SUBSET Combatant /\ enc \in Encounters
      /\ TypeOK
  BY BaseFacts DEF BaseInv, TypeOK
<1>2. Nothing \in [kind : {"nothing", "advance", "removal"}, pointer : Pointers,
                   timers : Timers, roster : SUBSET Combatant]
  BY NothingIsTyped
<1>3. ASSUME NEW c \in Combatant, HpWrite(c) PROVE BaseInv'
  <2>1. /\ enc' \in Encounters /\ enc'.current = enc.current /\ enc'.resume = enc.resume
        /\ enc'.phase = enc.phase
    BY <1>1, <1>3 DEF HpWrite, Encounters
  <2>2. down' \subseteq Combatant /\ ready' \subseteq Combatant
    BY <1>1, <1>3 DEF HpWrite, TypeOK
  <2>3. spent' \in [hits : Nat, moves : Nat, undos : Nat] /\ prior' = Nothing
    BY <1>1, <1>3, SpendIsTyped DEF HpWrite, Forget
  <2>4. UNCHANGED <<roster, init, timers, ticks, receipt, reindex, acted, claims, intent, moved>>
    BY <1>3 DEF HpWrite, KeepClients
  <2> QED
    BY <1>2, <2>1, <2>2, <2>3, <2>4 DEF BaseInv, TypeOK, PointerIsThere, ReceiptNames
<1>4. ASSUME NEW c \in Combatant, AddCombatant(c) PROVE BaseInv'
  <2>1. roster' = roster \cup {c} /\ roster' \in SUBSET Combatant /\ c # receipt.who
    BY <1>1, <1>4 DEF AddCombatant
  <2>2. init' \in [Combatant -> Rolls \cup {0}] /\ init' \in [Combatant -> Nat]
    BY <1>1, <1>4 DEF AddCombatant, TypeOK
  <2>3. PICK n \in Nat : enc' = [enc EXCEPT !.stateVersion = enc.stateVersion + 1, !.index = n]
    <3>1. PICK n : /\ n = IndexFor(Sorted(roster', init'), enc.current)
                   /\ enc' = [enc EXCEPT !.stateVersion = enc.stateVersion + 1, !.index = n]
      BY <1>4 DEF AddCombatant
    <3>2. n \in Nat
      BY <2>1, <2>2, <3>1, IndexIsNat
    <3> QED
      BY <3>1, <3>2
  <2>4. /\ enc' \in Encounters /\ enc'.current = enc.current /\ enc'.resume = enc.resume
        /\ enc'.phase = enc.phase
    <3>1. enc.stateVersion \in Nat /\ enc.stateVersion + 1 \in Nat /\ n \in Nat
      BY <1>1, <2>3 DEF Encounters
    <3>2. PICK v \in Nat : enc' = [enc EXCEPT !.stateVersion = v, !.index = n]
      BY <2>3, <3>1
    <3> QED
      BY <1>1, <3>1, <3>2 DEF Encounters
  <2>5. spent' \in [hits : Nat, moves : Nat, undos : Nat] /\ prior' = Nothing
    BY <1>1, <1>4, SpendIsTyped DEF AddCombatant, Forget
  <2>6. UNCHANGED <<down, timers, ticks, receipt, reindex, ready, acted, claims, intent, moved>>
    BY <1>4 DEF AddCombatant, KeepClients
  <2>7. receipt' \in [who : Someone \ roster', before : Pointers, after : Encounters \cup {<<>>},
                      started : Deltas, timers : Timer]
    BY <1>1, <2>1, <2>6 DEF TypeOK
  <2> QED
    BY <1>2, <2>1, <2>2, <2>4, <2>5, <2>6, <2>7 DEF BaseInv, TypeOK, PointerIsThere, ReceiptNames
<1>5. ASSUME NEW c \in Combatant, NEW n \in Rolls \cup {0}, SetInitiative(c, n) PROVE BaseInv'
  <2>0. enc.current \in Someone
    BY <1>1, BaseFacts
  <2>1. /\ enc' \in Encounters /\ enc'.current = enc.current /\ enc'.resume = enc.resume
        /\ enc'.phase = enc.phase
    <3>1. enc' = [enc EXCEPT !.stateVersion = enc.stateVersion + 1]
      BY <1>5 DEF SetInitiative
    <3> QED
      BY <1>1, <3>1 DEF Encounters
  <2>2. /\ init' \in [Combatant -> Rolls \cup {0}] /\ ready' \subseteq Combatant
        /\ reindex' \in [due : BOOLEAN, current : Someone]
    BY <1>1, <1>5, <2>0 DEF SetInitiative, TypeOK
  <2>3. spent' \in [hits : Nat, moves : Nat, undos : Nat] /\ prior' = Nothing
    BY <1>1, <1>5, SpendIsTyped DEF SetInitiative, Forget
  <2>4. UNCHANGED <<roster, down, timers, ticks, receipt, acted, claims, intent, moved>>
    BY <1>5 DEF SetInitiative, KeepClients
  <2> QED
    BY <1>2, <2>1, <2>2, <2>3, <2>4 DEF BaseInv, TypeOK, PointerIsThere, ReceiptNames
<1>6. ASSUME Reindex PROVE BaseInv'
  <2>1. PICK n : n = IndexFor(Sorted(roster, init), reindex.current)
    OBVIOUS
  <2>2. n \in Nat
    BY <1>1, <2>1, IndexIsNat
  <2>3. enc' = [enc EXCEPT !.index = n]
    BY <1>6, <2>1 DEF Reindex
  <2>4. /\ enc' \in Encounters /\ enc'.current = enc.current /\ enc'.resume = enc.resume
        /\ enc'.phase = enc.phase
    BY <1>1, <2>2, <2>3 DEF Encounters
  <2>5. /\ UNCHANGED <<roster, init, down, receipt, claims, intent, moved, timers, ticks, spent,
                       ready, acted>>
        /\ prior' \in {prior, Nothing} /\ reindex' \in [due : BOOLEAN, current : Someone]
    BY <1>6 DEF Reindex, KeepRoster, KeepClients, Someone
  <2> QED
    BY <1>1, <1>2, <2>4, <2>5 DEF BaseInv, TypeOK, PointerIsThere, ReceiptNames
<1>7. ASSUME ReceiptExpires PROVE BaseInv'
  <2>1. /\ receipt' = NoReceipt
        /\ UNCHANGED <<roster, init, down, timers, enc, ticks, reindex, spent, prior, ready, acted,
                       claims, intent, moved>>
    BY <1>7 DEF ReceiptExpires, KeepClients
  <2>2. receipt'.who = NoOne /\ receipt' \in [who : Someone \ roster, before : Pointers,
                  after : Encounters \cup {<<>>}, started : Deltas, timers : Timer]
    BY <1>1, <2>1, NoReceiptIsTyped
  <2> QED
    BY <2>1, <2>2 DEF BaseInv, TypeOK, PointerIsThere, ReceiptNames
<1> QED
  BY <1>3, <1>4, <1>5, <1>6, <1>7

(* What RemoveCombatant does, with the turn it leaves named: the current    *)
(* one's turn passes on, a lair slot that waits for c waits for the next,   *)
(* and other pointers stay.                                                 *)
Staying(c) == roster \ (down \cup {c})
Freed(c) == IF enc.resume = c THEN NoOne ELSE enc.resume

LeavesTo(c, t) ==
    \/ /\ enc.current = c
       /\ \E e \in Encounters : /\ e.current = c /\ e.phase = enc.phase
                                /\ e.round = enc.round /\ e.resume = Freed(c)
                                /\ GoesOn(t, roster, Staying(c), init, e)
    \/ /\ enc.current # c /\ enc.phase = "lair" /\ enc.resume = c
       /\ \E b : /\ AdvanceFound(b, roster, Staying(c), init, c, enc.round)
                 /\ t = Turn(enc.current, IF b.current = NoOne THEN "combatant" ELSE "lair",
                             b.current, enc.round)
    \/ /\ enc.current # c /\ ~(enc.phase = "lair" /\ enc.resume = c)
       /\ t = Turn(enc.current, enc.phase, Freed(c), enc.round)

Started(c, t) == IF enc.current = c /\ t.current \in roster \ {c} THEN t.current ELSE NoOne
ReceiptOf(c, t, after) ==
    [who |-> c, before |-> Pointer(enc), after |-> after,
     started |-> Delta(Started(c, t), IF Started(c, t) = NoOne THEN 0
                                      ELSE timers[Started(c, t)].atStart),
     timers |-> timers[c]]

Removes(c, t) ==
    /\ c \in roster /\ LeavesTo(c, t) /\ roster' = roster \ {c}
    /\ enc' \in Encounters /\ Pointer(enc') = t
    /\ enc'.current = t.current /\ enc'.phase = t.phase /\ enc'.resume = t.resume
    /\ enc'.round = t.round
    /\ enc'.version = IF enc.current = c THEN enc.version + 1 ELSE enc.version
    /\ enc'.stateVersion = enc.stateVersion + 1
    /\ enc'.index = IndexFor(Sorted(roster', init), t.current)
    /\ timers' = StartTick([timers EXCEPT ![c] = NoTimer], Started(c, t))
    /\ receipt' = ReceiptOf(c, t, enc')
    /\ Spend("moves") /\ prior' = Remember("removal") /\ Witness(t, roster')
    /\ UNCHANGED <<init, down, ticks, reindex, claims, intent, moved>>

(* The pointer after a removal is such a one.                               *)
LEMMA AfterRemovalLeavesTo ==
    ASSUME BaseInv, NEW c \in roster
    PROVE  /\ AfterRemoval(c, Sorted(roster, init)) \in Pointers
           /\ LeavesTo(c, AfterRemoval(c, Sorted(roster, init)))
<1>1. /\ init \in [Combatant -> Nat] /\ roster \in SUBSET Combatant /\ enc \in Encounters
      /\ enc.round \in Nat \ {0} /\ enc.resume \in Someone /\ enc.current \in Someone
      /\ enc.phase \in {"combatant", "lair"}
      /\ NoOne \notin Combatant /\ roster # {}
  BY BaseFacts DEF BaseInv, TypeOK
<1>2. PICK seq, t, out : /\ seq = Sorted(roster, init) /\ t = AfterRemoval(c, seq)
                         /\ out = down \cup {c}
  OBVIOUS
<1>3. Staying(c) = roster \ out
  BY <1>2 DEF Staying
<1>4. PICK b : b = AdvanceTurn(seq, out, c, enc.round)
  OBVIOUS
<1>5. AdvanceFound(b, roster, Staying(c), init, c, enc.round)
  BY <1>1, <1>2, <1>3, <1>4, AdvanceTurnFinds
<1>6. PICK e : e = IF enc.resume = c THEN [enc EXCEPT !.resume = NoOne] ELSE enc
  OBVIOUS
<1>7. /\ e \in Encounters /\ e.current = enc.current /\ e.phase = enc.phase
      /\ e.round = enc.round /\ e.resume = Freed(c)
  BY <1>1, <1>6 DEF Encounters, Freed, Someone
<1>8. t = IF enc.current = c THEN AdvanceEncounterTurn(seq, out, e)
          ELSE IF enc.phase = "lair" /\ enc.resume = c
          THEN Turn(enc.current, IF b.current = NoOne THEN "combatant" ELSE "lair",
                    b.current, enc.round)
          ELSE Pointer(e)
  BY <1>2, <1>4, <1>6 DEF AfterRemoval
<1>9. CASE enc.current = c
  <2>1. GoesOn(t, roster, Staying(c), init, e)
    BY <1>1, <1>2, <1>3, <1>7, <1>8, <1>9, AdvanceGoesOn
  <2>2. Staying(c) \in SUBSET roster /\ e.resume \in Someone /\ e.round \in Nat \ {0}
    BY <1>1, <1>7 DEF Staying, Freed, Someone
  <2>3. t \in Pointers
    BY <1>1, <2>1, <2>2, GoesSomewhere
  <2> QED
    BY <1>2, <1>7, <1>9, <2>1, <2>3 DEF LeavesTo
<1>10. CASE enc.current # c /\ enc.phase = "lair" /\ enc.resume = c
  <2>1. t = Turn(enc.current, IF b.current = NoOne THEN "combatant" ELSE "lair",
                 b.current, enc.round)
    BY <1>8, <1>10
  <2>2. b.current \in Someone
    <3>1. b.current \in Staying(c) \cup {NoOne}
      BY <1>5 DEF AdvanceFound
    <3> QED
      BY <1>1, <3>1 DEF Staying, Someone
  <2>3. t \in Pointers
    BY <1>1, <2>1, <2>2 DEF Turn, Pointers
  <2> QED
    BY <1>2, <1>5, <1>10, <2>1, <2>3 DEF LeavesTo
<1>11. CASE enc.current # c /\ ~(enc.phase = "lair" /\ enc.resume = c)
  <2>1. t = Pointer(e)
    BY <1>8, <1>11
  <2>2. t = Turn(enc.current, enc.phase, Freed(c), enc.round)
    BY <1>7, <2>1 DEF Pointer
  <2> QED
    BY <1>2, <1>7, <1>11, <2>1, <2>2, PointerIs DEF LeavesTo
<1> QED
  BY <1>9, <1>10, <1>11

(* RemoveCombatant does that.                                               *)
LEMMA RemovalIs ==
    ASSUME BaseInv, NEW c \in Combatant, RemoveCombatant(c)
    PROVE  \E t \in Pointers : Removes(c, t)
<1>1. /\ init \in [Combatant -> Nat] /\ roster \in SUBSET Combatant /\ enc \in Encounters
      /\ enc.version \in Nat /\ enc.stateVersion \in Nat
  BY BaseFacts DEF BaseInv, TypeOK
<1>2. PICK t : t = AfterRemoval(c, Sorted(roster, init))
  OBVIOUS
<1>3. c \in roster /\ roster' = roster \ {c} /\ UNCHANGED init
  BY DEF RemoveCombatant
<1>4. t \in Pointers /\ LeavesTo(c, t)
  BY <1>2, <1>3, AfterRemovalLeavesTo
<1>5. PICK n : n = IndexFor(Sorted(roster \ {c}, init), t.current)
  OBVIOUS
<1>6. n \in Nat
  BY <1>1, <1>5, IndexIsNat
<1>7. PICK s : s = Steered(enc, t, n)
  OBVIOUS
<1>8. IsSteered(s, enc, t, n)
  BY <1>1, <1>4, <1>6, <1>7, SteeredIs
<1>9. enc' = [s EXCEPT !.version = IF enc.current = c THEN s.version + 1 ELSE s.version,
                       !.stateVersion = s.stateVersion + 1]
  <2>1. enc' = [Steered(enc, t, n) EXCEPT
                  !.version = IF enc.current = c THEN @ + 1 ELSE @, !.stateVersion = @ + 1]
    BY <1>2, <1>5 DEF RemoveCombatant
  <2> QED
    BY <1>7, <2>1
<1>10. /\ enc' \in Encounters /\ Pointer(enc') = t /\ enc'.index = n
       /\ enc'.current = t.current /\ enc'.phase = t.phase /\ enc'.resume = t.resume
       /\ enc'.round = t.round
       /\ enc'.version = IF enc.current = c THEN enc.version + 1 ELSE enc.version
       /\ enc'.stateVersion = enc.stateVersion + 1
  <2>1. /\ s \in Encounters /\ Pointer(s) = t /\ s.index = n
        /\ s.current = t.current /\ s.phase = t.phase /\ s.resume = t.resume
        /\ s.round = t.round /\ s.version = enc.version /\ s.stateVersion = enc.stateVersion
    BY <1>8 DEF IsSteered
  <2>2. PICK v, w : /\ v = IF enc.current = c THEN enc.version + 1 ELSE enc.version
                    /\ w = enc.stateVersion + 1
    OBVIOUS
  <2>3. v \in Nat /\ w \in Nat
    BY <1>1, <2>2
  <2>4. enc' = [s EXCEPT !.version = v, !.stateVersion = w]
    BY <1>9, <2>1, <2>2
  <2> QED
    BY <2>1, <2>2, <2>3, <2>4 DEF Encounters, Pointer
<1>11. /\ timers' = StartTick([timers EXCEPT ![c] = NoTimer], Started(c, t))
       /\ receipt' = ReceiptOf(c, t, enc')
  BY <1>2 DEF RemoveCombatant, Started, ReceiptOf
<1>12. /\ Spend("moves") /\ prior' = Remember("removal") /\ Witness(t, roster')
       /\ UNCHANGED <<init, down, ticks, reindex, claims, intent, moved>>
  BY <1>2, <1>3 DEF RemoveCombatant, KeepClients
<1> QED
  BY <1>3, <1>4, <1>5, <1>10, <1>11, <1>12 DEF Removes

(* Where a removal leaves the turn, c is not.                               *)
LEMMA LeavesToOthers ==
    ASSUME BaseInv, NEW c \in roster, NEW t, LeavesTo(c, t)
    PROVE  /\ {t.current, t.resume} \subseteq (roster \ {c}) \cup {NoOne}
           /\ t.phase = "lair" => t.current = NoOne
           /\ t.phase = "lair" /\ LairSlotWaits => t.resume # NoOne
<1>1. /\ roster \in SUBSET Combatant /\ NoOne \notin Combatant
      /\ {enc.current, enc.resume} \subseteq roster \cup {NoOne}
      /\ enc.phase = "lair" => enc.current = NoOne
      /\ enc.round \in Nat \ {0} /\ enc.phase \in {"combatant", "lair"}
      /\ enc.resume \in Someone
  BY BaseFacts DEF BaseInv, PointerIsThere
<1>2. Staying(c) \in SUBSET (roster \ {c}) /\ Freed(c) \in (roster \ {c}) \cup {NoOne}
  BY <1>1 DEF Staying, Freed
<1>3. CASE enc.current = c
  <2>1. PICK e \in Encounters : /\ e.current = c /\ e.phase = enc.phase
                                /\ e.round = enc.round /\ e.resume = Freed(c)
                                /\ GoesOn(t, roster, Staying(c), init, e)
    BY <1>3 DEF LeavesTo
  <2>2. /\ e.phase # "lair" /\ e.round \in Nat \ {0} /\ e.resume \in Someone
        /\ Staying(c) \in SUBSET roster
    BY <1>1, <1>2, <1>3, <2>1 DEF Someone
  <2>3. /\ {t.current, t.resume} \subseteq Staying(c) \cup {NoOne}
        /\ t.phase = "lair" => t.current = NoOne /\ t.resume # NoOne
    BY <1>1, <2>1, <2>2, GoesSomewhere
  <2> QED
    BY <1>2, <2>3
<1>4. CASE enc.current # c /\ enc.phase = "lair" /\ enc.resume = c
  <2>1. PICK b : /\ AdvanceFound(b, roster, Staying(c), init, c, enc.round)
                 /\ t = Turn(enc.current, IF b.current = NoOne THEN "combatant" ELSE "lair",
                             b.current, enc.round)
    BY <1>4 DEF LeavesTo
  <2>2. b.current \in Staying(c) \cup {NoOne}
    BY <2>1 DEF AdvanceFound
  <2>3. t.current = NoOne /\ t.resume = b.current /\ (t.phase = "lair" => b.current # NoOne)
    BY <1>1, <1>4, <2>1 DEF Turn
  <2> QED
    BY <1>2, <2>2, <2>3
<1>5. CASE enc.current # c /\ ~(enc.phase = "lair" /\ enc.resume = c)
  <2>1. t = Turn(enc.current, enc.phase, Freed(c), enc.round)
    BY <1>5 DEF LeavesTo
  <2>2. t.current = enc.current /\ t.phase = enc.phase /\ t.resume = Freed(c)
    BY <2>1 DEF Turn
  <2> QED
    BY <1>1, <1>2, <1>5, <2>2 DEF Freed, LairSlotWaits
<1> QED
  BY <1>3, <1>4, <1>5

(* A removal leaves no pointer to whom it removed.                          *)
LEMMA RemovalKeepsBase ==
    ASSUME BaseInv, NEW c \in Combatant, RemoveCombatant(c)
    PROVE  BaseInv'
<1>1. PICK t \in Pointers : Removes(c, t)
  BY RemovalIs
<1>2. /\ roster \in SUBSET Combatant /\ NoOne \notin Combatant /\ MaxTimer \in Nat
      /\ enc \in Encounters /\ timers \in Timers /\ TypeOK
  BY BaseFacts DEF BaseInv, TypeOK
<1>3. /\ c \in roster /\ roster' = roster \ {c} /\ LeavesTo(c, t)
      /\ enc' \in Encounters /\ enc'.current = t.current /\ enc'.phase = t.phase
      /\ enc'.resume = t.resume
      /\ UNCHANGED <<init, down, ticks, reindex, claims, intent, moved>>
  BY <1>1 DEF Removes
<1>4. /\ {t.current, t.resume} \subseteq (roster \ {c}) \cup {NoOne}
      /\ t.phase = "lair" => t.current = NoOne
  BY <1>3, LeavesToOthers
<1>5. PointerIsThere'
  BY <1>3, <1>4 DEF PointerIsThere
<1>6. Started(c, t) \in Someone
  BY <1>2, <1>4 DEF Started, Someone
<1>7. timers' \in Timers
  <2>1. [timers EXCEPT ![c] = NoTimer] \in Timers
    BY <1>2, NothingIsTyped DEF Timers
  <2> QED
    BY <1>1, <1>2, <1>6, <2>1, TicksAreTimed DEF Removes
<1>8. /\ receipt' \in [who : Someone \ roster', before : Pointers, after : Encounters \cup {<<>>},
                       started : Deltas, timers : Timer]
      /\ receipt'.who = c /\ receipt'.after = enc' /\ receipt'.before = Pointer(enc)
  <2>1. receipt' = ReceiptOf(c, t, enc')
    BY <1>1 DEF Removes
  <2>2. PICK was : was = IF Started(c, t) = NoOne THEN 0 ELSE timers[Started(c, t)].atStart
    OBVIOUS
  <2>3. was \in 0..MaxTimer
    BY <1>2, <1>6, <2>2 DEF Timers, Timer, Someone
  <2>4. Delta(Started(c, t), was) \in Deltas
    BY <1>6, <2>3 DEF Delta, Deltas
  <2>5. receipt' = [who |-> c, before |-> Pointer(enc), after |-> enc',
                    started |-> Delta(Started(c, t), was), timers |-> timers[c]]
    BY <2>1, <2>2 DEF ReceiptOf
  <2>6. c \in Someone \ roster' /\ Pointer(enc) \in Pointers /\ timers[c] \in Timer
    BY <1>2, <1>3, PointerIs DEF Someone, Timers
  <2> QED
    BY <1>3, <2>4, <2>5, <2>6
<1>9. ReceiptNames'
  <2>1. Pointer(enc).current = enc.current /\ Pointer(enc).phase = enc.phase
        /\ Pointer(enc).resume = enc.resume
    BY <1>2, PointerIs
  <2>2. /\ {enc.current, enc.resume} \subseteq roster \cup {NoOne}
        /\ enc.phase = "lair" => enc.current = NoOne
    BY DEF BaseInv, PointerIsThere
  <2> QED
    BY <1>3, <1>8, <2>1, <2>2 DEF ReceiptNames
<1>10. /\ prior' \in [kind : {"nothing", "advance", "removal"}, pointer : Pointers,
                      timers : Timers, roster : SUBSET Combatant]
       /\ ready' \subseteq Combatant /\ acted' \subseteq Combatant
  <2>1. /\ prior' = Remember("removal") /\ Witness(t, roster') /\ t.current \in Someone
        /\ roster' \in SUBSET Combatant
    BY <1>1, <1>2, <1>3 DEF Removes, Pointers
  <2> QED
    BY <1>2, <2>1, GhostsAreTyped
<1>11. spent' \in [hits : Nat, moves : Nat, undos : Nat]
  BY <1>1, <1>2, SpendIsTyped DEF Removes
<1>12. TypeOK'
  BY <1>2, <1>3, <1>7, <1>8, <1>10, <1>11 DEF TypeOK
<1> QED
  BY <1>5, <1>9, <1>12 DEF BaseInv

(* What UndoRemoveCombatant does: it turns the pointer back if the          *)
(* encounter is as the removal left it, and else moves its index only, and  *)
(* perhaps whom a lair slot waits for.                                      *)
BackTimers == [timers EXCEPT ![receipt.who] = receipt.timers]
BackResume ==
    IF receipt.before.resume = receipt.who /\ enc.resume = receipt.after.resume
    THEN receipt.who ELSE enc.resume

TurnsBack ==
    /\ enc = receipt.after
    /\ Pointer(enc') = receipt.before /\ enc'.current = receipt.before.current
    /\ enc'.phase = receipt.before.phase /\ enc'.resume = receipt.before.resume
    /\ enc'.round = receipt.before.round
    /\ enc'.version = IF receipt.before.current = enc.current THEN enc.version
                      ELSE enc.version + 1
    /\ enc'.index = IndexFor(Sorted(roster', init), receipt.before.current)
    /\ timers' = IF receipt.started.who = NoOne THEN BackTimers
                 ELSE [BackTimers EXCEPT ![receipt.started.who].atStart = receipt.started.was]
    /\ ready' = {} /\ acted' = {}

PutsBack ==
    /\ enc # receipt.after
    /\ enc'.current = enc.current /\ enc'.phase = enc.phase /\ enc'.round = enc.round
    /\ enc'.resume = BackResume /\ enc'.version = enc.version
    /\ enc'.index = IndexFor(Sorted(roster', init), enc.current)
    /\ timers' = BackTimers /\ UNCHANGED <<ready, acted>>

Undoes ==
    /\ receipt.who \in Combatant \ roster /\ roster' = roster \cup {receipt.who}
    /\ receipt' = NoReceipt /\ prior' = Nothing
    /\ "stale_resume" \in Env \/ BackResume = enc.resume \/ enc.version = receipt.after.version
    /\ enc' \in Encounters /\ enc'.stateVersion = enc.stateVersion + 1
    /\ TurnsBack \/ PutsBack
    /\ UNCHANGED <<init, down, ticks, reindex, spent, claims, intent, moved>>

(* UndoRemoveCombatant does that.                                           *)
LEMMA UndoIs ==
    ASSUME BaseInv, UndoRemoveCombatant
    PROVE  Undoes
<1>1. /\ init \in [Combatant -> Nat] /\ roster \in SUBSET Combatant /\ enc \in Encounters
      /\ enc.version \in Nat /\ enc.stateVersion \in Nat
  BY BaseFacts DEF BaseInv, TypeOK
<1>2. /\ receipt.who \in Someone \ roster /\ receipt.before \in Pointers /\ receipt.who # NoOne
      /\ receipt' = NoReceipt /\ roster' = roster \cup {receipt.who} /\ prior' = Nothing
      /\ UNCHANGED <<init, down, ticks, reindex, spent, claims, intent, moved>>
  BY DEF BaseInv, TypeOK, UndoRemoveCombatant, Forget, KeepClients
<1>3. receipt.who \in Combatant \ roster /\ roster' \in SUBSET Combatant
  BY <1>1, <1>2 DEF Someone
<1>4. "stale_resume" \in Env \/ BackResume = enc.resume \/ enc.version = receipt.after.version
  BY DEF UndoRemoveCombatant, BackResume
<1>5. BackResume \in Someone /\ enc.stateVersion + 1 \in Nat
  BY <1>1, <1>2, BaseFacts DEF BackResume, BaseInv
<1>6. ASSUME enc = receipt.after PROVE enc' \in Encounters /\ TurnsBack
                                       /\ enc'.stateVersion = enc.stateVersion + 1
  <2>1. PICK n, s, v, w :
          /\ n = IndexFor(Sorted(roster', init), receipt.before.current)
          /\ s = Steered(enc, receipt.before, n)
          /\ v = (IF receipt.before.current = enc.current THEN enc.version ELSE enc.version + 1)
          /\ w = enc.stateVersion + 1
    OBVIOUS
  <2>2. n \in Nat /\ v \in Nat /\ w \in Nat
    BY <1>1, <1>3, <2>1, IndexIsNat
  <2>3. IsSteered(s, enc, receipt.before, n)
    BY <1>1, <1>2, <2>1, <2>2, SteeredIs
  <2>4. /\ s \in Encounters /\ Pointer(s) = receipt.before /\ s.index = n
        /\ s.current = receipt.before.current /\ s.phase = receipt.before.phase
        /\ s.resume = receipt.before.resume /\ s.round = receipt.before.round
        /\ s.version = enc.version /\ s.stateVersion = enc.stateVersion
    BY <2>3 DEF IsSteered
  <2>5. enc' = [s EXCEPT !.stateVersion = w, !.version = v]
    <3>1. enc' = [Steered(enc, receipt.before, n) EXCEPT
                    !.stateVersion = @ + 1,
                    !.version = IF receipt.before.current = enc.current THEN @ ELSE @ + 1]
      BY <1>2, <1>6, <2>1 DEF UndoRemoveCombatant, Untouched
    <3>2. enc' = [s EXCEPT !.stateVersion = s.stateVersion + 1,
                    !.version = IF receipt.before.current = enc.current THEN s.version
                                ELSE s.version + 1]
      BY <2>1, <3>1
    <3> QED
      BY <2>1, <2>4, <3>2
  <2>6. /\ enc' \in Encounters /\ Pointer(enc') = receipt.before /\ enc'.index = n
        /\ enc'.current = receipt.before.current /\ enc'.phase = receipt.before.phase
        /\ enc'.resume = receipt.before.resume /\ enc'.round = receipt.before.round
        /\ enc'.version = v /\ enc'.stateVersion = w
    BY <2>2, <2>4, <2>5 DEF Encounters, Pointer
  <2>7. /\ timers' = IF receipt.started.who = NoOne THEN BackTimers
                     ELSE [BackTimers EXCEPT ![receipt.started.who].atStart = receipt.started.was]
        /\ ready' = {} /\ acted' = {}
    BY <1>6 DEF UndoRemoveCombatant, Untouched, BackTimers
  <2> QED
    BY <1>6, <2>1, <2>6, <2>7 DEF TurnsBack
<1>7. ASSUME enc # receipt.after PROVE enc' \in Encounters /\ PutsBack
                                       /\ enc'.stateVersion = enc.stateVersion + 1
  <2>1. PICK n, w, c : /\ n = IndexFor(Sorted(roster', init), enc.current)
                       /\ w = enc.stateVersion + 1 /\ c = BackResume
    OBVIOUS
  <2>2. n \in Nat /\ w \in Nat /\ c \in Someone
    BY <1>1, <1>3, <1>5, <2>1, IndexIsNat
  <2>3. enc' = [enc EXCEPT !.index = n, !.resume = c, !.stateVersion = w]
    BY <1>2, <1>7, <2>1 DEF UndoRemoveCombatant, Untouched, BackResume
  <2>4. /\ enc' \in Encounters /\ enc'.current = enc.current /\ enc'.phase = enc.phase
        /\ enc'.round = enc.round /\ enc'.resume = c /\ enc'.version = enc.version
        /\ enc'.index = n /\ enc'.stateVersion = w
    BY <1>1, <2>2, <2>3 DEF Encounters
  <2>5. timers' = BackTimers /\ UNCHANGED <<ready, acted>>
    BY <1>7 DEF UndoRemoveCombatant, Untouched, BackTimers
  <2> QED
    BY <1>7, <2>1, <2>4, <2>5 DEF PutsBack
<1> QED
  BY <1>2, <1>3, <1>4, <1>6, <1>7 DEF Undoes

(* Undoing a removal leaves pointers to who is there.                       *)
LEMMA UndoRemovalKeepsBase ==
    ASSUME BaseInv, UndoRemoveCombatant
    PROVE  BaseInv'
<1>1. Undoes
  BY UndoIs
<1>2. /\ TypeOK /\ roster \in SUBSET Combatant /\ NoOne \notin Combatant
      /\ receipt.who \in Combatant \ roster /\ roster' = roster \cup {receipt.who}
      /\ receipt.before \in Pointers /\ receipt.timers \in Timer
      /\ receipt.started \in Deltas /\ timers \in Timers
  BY <1>1, BaseFacts DEF BaseInv, TypeOK, Undoes
<1>3. enc' \in Encounters /\ receipt' = NoReceipt /\ prior' = Nothing
  BY <1>1 DEF Undoes
<1>4. BackTimers \in Timers
  BY <1>2 DEF BackTimers, Timers
<1>5. timers' \in Timers
  <2>1. ASSUME receipt.started.who # NoOne
        PROVE  [BackTimers EXCEPT ![receipt.started.who].atStart = receipt.started.was] \in Timers
    <3>1. receipt.started.who \in Combatant /\ receipt.started.was \in 0..MaxTimer
      BY <1>2, <2>1 DEF Deltas, Someone
    <3>2. BackTimers[receipt.started.who] \in Timer
      BY <1>4, <3>1 DEF Timers
    <3>3. [BackTimers[receipt.started.who] EXCEPT !.atStart = receipt.started.was] \in Timer
      BY <3>1, <3>2 DEF Timer
    <3> QED
      BY <1>4, <3>1, <3>3 DEF Timers
  <2> QED
    BY <1>1, <1>4, <2>1 DEF Undoes, TurnsBack, PutsBack
<1>6. /\ {enc'.current, enc'.resume} \subseteq roster' \cup {NoOne}
      /\ enc'.phase = "lair" => enc'.current = NoOne
  <2>1. CASE TurnsBack
    BY <1>2, <2>1 DEF TurnsBack, BaseInv, ReceiptNames
  <2>2. CASE PutsBack
    BY <1>2, <2>2 DEF PutsBack, BackResume, BaseInv, PointerIsThere
  <2> QED
    BY <1>1, <2>1, <2>2 DEF Undoes
<1>7. ready' \subseteq Combatant /\ acted' \subseteq Combatant
  BY <1>1, <1>2 DEF Undoes, TurnsBack, PutsBack, TypeOK
<1>8. /\ receipt'.who = NoOne
      /\ receipt' \in [who : Someone \ roster', before : Pointers, after : Encounters \cup {<<>>},
                       started : Deltas, timers : Timer]
  <2>1. roster' \in SUBSET Combatant
    BY <1>2
  <2> QED
    BY <1>3, <2>1, NoReceiptIsTyped
<1>9. prior' \in [kind : {"nothing", "advance", "removal"}, pointer : Pointers,
                  timers : Timers, roster : SUBSET Combatant]
  BY <1>3, NothingIsTyped
<1>10. UNCHANGED <<init, down, ticks, reindex, spent, claims, intent, moved>>
  BY <1>1 DEF Undoes
<1>11. TypeOK'
  BY <1>2, <1>3, <1>5, <1>7, <1>8, <1>9, <1>10 DEF TypeOK
<1> QED
  BY <1>6, <1>8, <1>11 DEF BaseInv, PointerIsThere, ReceiptNames

(* Every step keeps types and pointers.                                     *)
LEMMA BaseStep ==
    ASSUME BaseInv, [Next]_vars
    PROVE  BaseInv'
<1>1. CASE UNCHANGED vars
  BY <1>1 DEF vars, BaseInv, TypeOK, PointerIsThere, ReceiptNames
<1>2. ASSUME NEW i \in Intent, ClientStep(i) PROVE BaseInv'
  BY <1>2, ClientsKeepBase
<1>3. ASSUME NEW i \in Intent, AdvanceCurrentTurn(i) PROVE BaseInv'
  BY <1>3, AdvanceKeepsBase
<1>4. ASSUME NEW c \in Combatant, RemoveCombatant(c) PROVE BaseInv'
  BY <1>4, RemovalKeepsBase
<1> QED
  BY <1>1, <1>2, <1>3, <1>4, UndoTurnKeepsBase, UndoRemovalKeepsBase, WritesKeepBase
  DEF Next, ClientStep

(* So they are kept for ever.                                               *)
LEMMA BaseHolds == Spec => []BaseInv
<1>1. Init => BaseInv
  BY BaseInit
<1>2. BaseInv /\ [Next]_vars => BaseInv'
  BY BaseStep
<1> QED
  BY <1>1, <1>2, PTL DEF Spec

(* The state of a fight is well typed, whatever happens in it.              *)
THEOREM TypeCorrect == Spec => []TypeOK
<1>1. BaseInv => TypeOK
  BY DEF BaseInv
<1> QED
  BY <1>1, BaseHolds, PTL

(* Whoever leaves, joins or goes down, and however turns are undone, the    *)
(* turn pointer names somebody of the roster or nobody, and a lair slot's   *)
(* turn is nobody's.                                                        *)
THEOREM PointersAreThere == Spec => []PointerIsThere
<1>1. BaseInv => PointerIsThere
  BY DEF BaseInv
<1> QED
  BY <1>1, BaseHolds, PTL

-----------------------------------------------------------------------------
(* The lair slot waits for somebody.                                        *)

(* The lair slot does, and so does one that undoing a removal would restore. *)
WaitInv ==
    /\ LairSlotWaits
    /\ receipt.who # NoOne /\ receipt.before.phase = "lair" => receipt.before.resume # NoOne

(* The turn is somebody's or the lair's, and not lost with everybody down.  *)
TurnIsTaken == enc.current # NoOne \/ enc.phase = "lair"

(* Every step but undoing nobody's turn keeps that.                         *)
LEMMA WaitStep ==
    ASSUME BaseInv, WaitInv, [Next]_vars, UndoTurn => TurnIsTaken
    PROVE  WaitInv'
<1>1. CASE UNCHANGED vars
  BY <1>1 DEF vars, WaitInv, LairSlotWaits
<1>2. ASSUME NEW i \in Intent, ClientStep(i) PROVE WaitInv'
  BY <1>2 DEF ClientStep, Click, Resend, Replay, Refuse, KeepRoster, WaitInv, LairSlotWaits
<1>3. ASSUME NEW i \in Intent, AdvanceCurrentTurn(i) PROVE WaitInv'
  <2>1. PICK t \in Pointers : Advances(i, t)
    BY <1>3, AdvanceIs
  <2>2. /\ roster \in SUBSET Combatant /\ roster \ down \in SUBSET roster
        /\ enc.round \in Nat \ {0} /\ enc.resume \in Someone
        /\ GoesOn(t, roster, roster \ down, init, enc)
    BY <2>1, BaseFacts DEF BaseInv, Advances
  <2>3. t.phase = "lair" => t.resume # NoOne
    BY <2>2, GoesSomewhere
  <2> QED
    BY <2>1, <2>3 DEF Advances, WaitInv, LairSlotWaits
<1>4. ASSUME NEW c \in Combatant, RemoveCombatant(c) PROVE WaitInv'
  <2>1. PICK t \in Pointers : Removes(c, t)
    BY <1>4, RemovalIs
  <2>2. t.phase = "lair" => t.resume # NoOne
    BY <2>1, LeavesToOthers DEF Removes, WaitInv
  <2>3. /\ receipt'.before = Pointer(enc)
        /\ Pointer(enc).phase = enc.phase /\ Pointer(enc).resume = enc.resume
    BY <2>1, PointerIs DEF Removes, ReceiptOf, BaseInv, TypeOK
  <2> QED
    BY <2>1, <2>2, <2>3 DEF Removes, WaitInv, LairSlotWaits
<1>5. ASSUME UndoRemoveCombatant PROVE WaitInv'
  <2>1. Undoes
    BY <1>5, UndoIs
  <2>2. /\ receipt.who # NoOne /\ receipt'.who = NoOne
        /\ enc'.phase = "lair" => enc'.resume # NoOne
    <3>1. receipt.who # NoOne
      BY <2>1, BaseFacts DEF Undoes, BaseInv
    <3>2. ASSUME TurnsBack PROVE enc'.phase = "lair" => enc'.resume # NoOne
      BY <3>1, <3>2 DEF TurnsBack, WaitInv
    <3>3. ASSUME PutsBack PROVE enc'.phase = "lair" => enc'.resume # NoOne
      BY <3>1, <3>3 DEF PutsBack, BackResume, WaitInv, LairSlotWaits
    <3>4. receipt'.who = NoOne
      BY <2>1 DEF Undoes, NoReceipt
    <3> QED
      BY <2>1, <3>1, <3>2, <3>3, <3>4 DEF Undoes
  <2> QED
    BY <2>2 DEF WaitInv, LairSlotWaits
<1>6. ASSUME \/ \E c \in Combatant : HpWrite(c) \/ AddCombatant(c)
             \/ \E c \in Combatant, n \in Rolls \cup {0} : SetInitiative(c, n)
             \/ Reindex
      PROVE  WaitInv'
  <2>1. enc'.phase = enc.phase /\ enc'.resume = enc.resume /\ receipt' = receipt
    <3>1. enc \in Encounters
      BY DEF BaseInv, TypeOK
    <3> QED
      BY <1>6, <3>1 DEF HpWrite, AddCombatant, SetInitiative, Reindex, KeepRoster, Encounters
  <2> QED
    BY <2>1 DEF WaitInv, LairSlotWaits
<1>7. ASSUME ReceiptExpires PROVE WaitInv'
  BY <1>7 DEF ReceiptExpires, NoReceipt, WaitInv, LairSlotWaits
<1>8. ASSUME UndoTurn PROVE WaitInv'
  <2>1. PICK t \in Pointers : Undone(t)
    BY <1>8, UndoTurnIs
  <2>2. t.phase = "lair" => t.resume # NoOne
    BY <1>8, <2>1 DEF Undone, TurnIsTaken
  <2> QED
    BY <2>1, <2>2 DEF Undone, WaitInv, LairSlotWaits
<1> QED
  BY <1>1, <1>2, <1>3, <1>4, <1>5, <1>6, <1>7, <1>8 DEF Next, ClientStep

(* Unless a turn is undone that is nobody's, everybody being down, the lair *)
(* slot also waits for somebody: the pointer as a whole names the roster.   *)
THEOREM PointersNameTheRoster ==
    Spec /\ [][UndoTurn => TurnIsTaken]_vars => []PointerNamesTheRoster
<1>1. Init => WaitInv
  <2> SUFFICES ASSUME Init PROVE WaitInv
    OBVIOUS
  <2>1. init \in [Combatant -> Nat] /\ roster \in SUBSET Combatant /\ roster # {}
        /\ NoOne \notin Combatant
    <3>1. roster # {}
      BY GroupsAreCombatants DEF Init
    <3> QED
      BY <3>1, BaseInit, BaseFacts DEF BaseInv
  <2>2. PICK seq : seq = Sorted(roster, init)
    OBVIOUS
  <2>3. IsOrder(seq, roster, init)
    BY <2>1, <2>2, SortedIsOrder
  <2>4. Len(seq) \in Nat /\ Len(seq) # 0 /\ \A k \in 1..Len(seq) : seq[k] \in roster
    BY <2>1, <2>3, OrderPlaces
  <2>5. seq[1] # NoOne
    BY <2>1, <2>4
  <2>6. enc.phase = "lair" => enc.resume = seq[1]
    BY <2>2 DEF Init
  <2>7. receipt.who = NoOne
    BY DEF Init, NoReceipt
  <2> QED
    BY <2>5, <2>6, <2>7 DEF WaitInv, LairSlotWaits
<1>2. BaseInv /\ WaitInv /\ [Next]_vars /\ [UndoTurn => TurnIsTaken]_vars => WaitInv'
  <2> SUFFICES ASSUME BaseInv, WaitInv, [Next]_vars, [UndoTurn => TurnIsTaken]_vars
               PROVE  WaitInv'
    OBVIOUS
  <2>1. CASE UndoTurn => TurnIsTaken
    BY <2>1, WaitStep
  <2>2. CASE UNCHANGED vars
    BY <2>2 DEF vars, WaitInv, LairSlotWaits
  <2> QED
    BY <2>1, <2>2
<1>3. BaseInv /\ WaitInv => PointerNamesTheRoster
  BY DEF BaseInv, WaitInv, PointerNamesTheRoster
<1> QED
  BY <1>1, <1>2, <1>3, BaseHolds, PTL DEF Spec

-----------------------------------------------------------------------------
(* Clicks.                                                                  *)

(* The claims are the clicks that moved the turn; who was told "ok" moved   *)
(* it, and who was refused did not.                                         *)
ClaimInv ==
    \A i \in Intent :
      /\ moved[i] = IF i \in claims THEN 1 ELSE 0
      /\ intent[i].answer = "ok" => i \in claims
      /\ intent[i].answer = "refused" => i \notin claims

(* An answer is the client's it is sent to.                                 *)
LEMMA AnswerIsSent ==
    ASSUME intent \in [Intent -> Requests], NEW i \in Intent, NEW a, Answer(i, a)
    PROVE  /\ intent'[i].answer = a
           /\ \A j \in Intent \ {i} : intent'[j] = intent[j]
BY DEF Answer, Requests

(* Only the click that moves the turn is claimed, and no answer lies.       *)
LEMMA ClaimStep ==
    ASSUME TypeOK, ClaimInv, [Next]_vars
    PROVE  ClaimInv'
<1>0. /\ intent \in [Intent -> Requests] /\ moved \in [Intent -> Nat]
  BY DEF TypeOK
<1>1. ASSUME UNCHANGED <<claims, moved, intent>> PROVE ClaimInv'
  BY <1>1 DEF ClaimInv
<1>2. ASSUME NEW i \in Intent, ClientStep(i) PROVE ClaimInv'
  <2>1. UNCHANGED <<claims, moved>>
    BY <1>2 DEF ClientStep, Click, Resend, Replay, Refuse
  <2>2. \A j \in Intent : \/ intent'[j].answer = intent[j].answer
                          \/ intent'[j].answer = "none"
                          \/ intent'[j].answer = "ok" /\ j \in claims
                          \/ intent'[j].answer = "refused" /\ j \notin claims
    <3>1. CASE Click(i)
      <4>1. PICK c \in {NoOne, enc.current} :
              intent' = [intent EXCEPT ![i] = [Idle EXCEPT !.pc = "sent", !.expects = c, !.tries = 1]]
        BY <3>1 DEF Click
      <4>2. [Idle EXCEPT !.pc = "sent", !.expects = c, !.tries = 1].answer = "none"
        BY DEF Idle
      <4> QED
        BY <1>0, <4>1, <4>2
    <3>2. CASE Resend(i)
      BY <1>0, <3>2 DEF Resend, Requests
    <3>3. CASE Replay(i)
      BY <1>0, <3>3, AnswerIsSent DEF Replay
    <3>4. CASE Refuse(i)
      BY <1>0, <3>4, AnswerIsSent DEF Refuse
    <3> QED
      BY <1>2, <3>1, <3>2, <3>3, <3>4 DEF ClientStep
  <2> QED
    BY <2>1, <2>2 DEF ClaimInv
<1>3. ASSUME NEW i \in Intent, AdvanceCurrentTurn(i) PROVE ClaimInv'
  <2>1. /\ i \notin claims /\ claims' = claims \cup {i}
        /\ moved' = [moved EXCEPT ![i] = moved[i] + 1] /\ Answer(i, "ok")
    BY <1>0, <1>3 DEF AdvanceCurrentTurn, RecordEncounterOp
  <2>2. /\ intent'[i].answer = "ok" /\ \A j \in Intent \ {i} : intent'[j] = intent[j]
    BY <1>0, <2>1, AnswerIsSent
  <2>3. moved'[i] = 1 /\ \A j \in Intent \ {i} : moved'[j] = moved[j]
    BY <1>0, <2>1 DEF ClaimInv
  <2> QED
    BY <2>1, <2>2, <2>3 DEF ClaimInv
<1>4. ASSUME ~\E i \in Intent : ClientStep(i) \/ AdvanceCurrentTurn(i)
      PROVE  UNCHANGED <<claims, moved, intent>>
  <2>1. CASE UNCHANGED vars
    BY <2>1 DEF vars
  <2>2. CASE \/ \E c \in Combatant : HpWrite(c) \/ AddCombatant(c) \/ RemoveCombatant(c)
             \/ \E c \in Combatant, n \in Rolls \cup {0} : SetInitiative(c, n)
             \/ UndoTurn \/ Reindex \/ UndoRemoveCombatant \/ ReceiptExpires
    BY <2>2 DEF HpWrite, AddCombatant, RemoveCombatant, SetInitiative, UndoTurn, Reindex,
                UndoRemoveCombatant, ReceiptExpires, KeepClients
  <2> QED
    BY <1>4, <2>1, <2>2 DEF Next, ClientStep
<1> QED
  BY <1>1, <1>2, <1>3, <1>4

(* A click moves the turn at most once, however often it is sent, and the   *)
(* answer its client has tells whether it did.                              *)
THEOREM ClicksCountOnce == Spec => []IntentsCountOnce
<1>1. Init => ClaimInv
  BY DEF Init, Idle, ClaimInv
<1>2. TypeOK /\ ClaimInv /\ [Next]_vars => ClaimInv'
  BY ClaimStep
<1>3. ClaimInv => IntentsCountOnce
  BY DEF ClaimInv, IntentsCountOnce
<1> QED
  BY <1>1, <1>2, <1>3, TypeCorrect, PTL DEF Spec

-----------------------------------------------------------------------------
(* The stored index.                                                        *)

IndexInv == IndexFollowsPointer /\ ~reindex.due

(* A fight starts with the first of the running order.                      *)
LEMMA IndexInit ==
    ASSUME Init
    PROVE  IndexInv
<1>1. init \in [Combatant -> Nat] /\ roster \in SUBSET Combatant /\ NoOne \notin Combatant
  BY BaseInit, BaseFacts DEF BaseInv
<1>2. roster # {}
  BY GroupsAreCombatants DEF Init
<1>3. PICK seq : seq = Sorted(roster, init)
  OBVIOUS
<1>4. IsOrder(seq, roster, init)
  BY <1>1, <1>3, SortedIsOrder
<1>5. /\ Len(seq) \in Nat /\ Len(seq) # 0 /\ ToSet(seq) = roster
      /\ \A k \in 1..Len(seq) : seq[k] \in roster
      /\ \A k \in 1..Len(seq) : Place(seq, seq[k]) = k
  BY <1>1, <1>2, <1>4, OrderPlaces
<1>6. seq[1] \in ToSet(seq) /\ Place(seq, seq[1]) = 1
  BY <1>5
<1>7. IndexFor(seq, seq[1]) = 0
  BY <1>6 DEF IndexFor
<1>8. enc.index = 0 /\ enc.current \in {NoOne, seq[1]} /\ ~reindex.due
  BY <1>3 DEF Init
<1> QED
  BY <1>3, <1>7, <1>8 DEF IndexInv, IndexFollowsPointer

(* Whatever moves the pointer or the order recomputes the index.            *)
LEMMA IndexStep ==
    ASSUME "initiative" \notin Env, BaseInv, BaseInv', IndexInv, [Next]_vars
    PROVE  IndexInv'
<1>1. /\ enc \in Encounters /\ \A c \in Combatant : \A n : ~SetInitiative(c, n)
      /\ enc.phase \in {"combatant", "lair"} /\ ~Reindex
  BY BaseFacts DEF BaseInv, TypeOK, SetInitiative, IndexInv, Reindex
<1>2. ASSUME UNCHANGED <<enc, roster, init, reindex>> PROVE IndexInv'
  BY <1>2 DEF IndexInv, IndexFollowsPointer
<1>3. ASSUME NEW i \in Intent, ClientStep(i) PROVE IndexInv'
  BY <1>2, <1>3 DEF ClientStep, Click, Resend, Replay, Refuse, KeepRoster
<1>4. ASSUME NEW i \in Intent, AdvanceCurrentTurn(i) PROVE IndexInv'
  <2>1. PICK t \in Pointers : Advances(i, t)
    BY <1>4, AdvanceIs
  <2>2. t.current # NoOne => t.phase # "lair"
    BY <2>1 DEF Advances, BaseInv, PointerIsThere
  <2> QED
    BY <2>1, <2>2 DEF Advances, IndexInv, IndexFollowsPointer
<1>5. ASSUME NEW c \in Combatant, RemoveCombatant(c) PROVE IndexInv'
  <2>1. PICK t \in Pointers : Removes(c, t)
    BY <1>5, RemovalIs
  <2> QED
    BY <2>1 DEF Removes, IndexInv, IndexFollowsPointer
<1>6. ASSUME NEW c \in Combatant, AddCombatant(c) PROVE IndexInv'
  <2>1. PICK n, v : /\ n = IndexFor(Sorted(roster', init'), enc.current)
                    /\ v = enc.stateVersion + 1
                    /\ enc' = [enc EXCEPT !.stateVersion = v, !.index = n]
    BY <1>6 DEF AddCombatant
  <2>2. enc'.index = n /\ enc'.current = enc.current
    BY <1>1, <2>1 DEF Encounters
  <2> QED
    BY <1>6, <2>1, <2>2 DEF AddCombatant, IndexInv, IndexFollowsPointer
<1>7. ASSUME NEW c \in Combatant, HpWrite(c) PROVE IndexInv'
  <2>1. enc'.index = enc.index /\ enc'.current = enc.current
    BY <1>1, <1>7 DEF HpWrite, Encounters
  <2> QED
    BY <1>7, <2>1 DEF HpWrite, IndexInv, IndexFollowsPointer
<1>8. ASSUME UndoTurn PROVE IndexInv'
  <2>1. PICK t \in Pointers : Undone(t)
    BY <1>8, UndoTurnIs
  <2> QED
    BY <2>1 DEF Undone, IndexInv, IndexFollowsPointer
<1>9. ASSUME UndoRemoveCombatant PROVE IndexInv'
  <2>1. Undoes
    BY <1>9, UndoIs
  <2>2. enc'.index = IndexFor(Sorted(roster', init'), enc'.current)
    BY <2>1 DEF Undoes, TurnsBack, PutsBack
  <2> QED
    BY <2>1, <2>2 DEF Undoes, IndexInv, IndexFollowsPointer
<1>10. ASSUME ReceiptExpires \/ UNCHANGED vars PROVE IndexInv'
  BY <1>2, <1>10 DEF ReceiptExpires, vars
<1> QED
  BY <1>1, <1>3, <1>4, <1>5, <1>6, <1>7, <1>8, <1>9, <1>10 DEF Next, ClientStep

(* As long as no initiative is written, the stored turn index stays that of *)
(* the combatant the pointer names, through turns taken and undone and      *)
(* combatants that join, leave and come back.                               *)
THEOREM TheIndexFollows ==
    ASSUME "initiative" \notin Env
    PROVE  Spec => []IndexFollowsPointer
<1>1. Init => IndexInv
  BY IndexInit
<1>2. BaseInv /\ BaseInv' /\ IndexInv /\ [Next]_vars => IndexInv'
  BY IndexStep
<1>3. IndexInv => IndexFollowsPointer
  BY DEF IndexInv
<1> QED
  BY <1>1, <1>2, <1>3, BaseHolds, PTL DEF Spec

-----------------------------------------------------------------------------
(* Undoing a removal.                                                       *)

(* Since its removal the encounter's versions have only gone up; straight   *)
(* after it the receipt tells what there was before, and any later change   *)
(* of the encounter shows.                                                  *)
NothingSince ==
    /\ enc = receipt.after /\ prior.pointer = receipt.before
    /\ prior.roster = roster \cup {receipt.who}
    /\ receipt.started.who # receipt.who
    /\ timers = StartTick([prior.timers EXCEPT ![receipt.who] = NoTimer], receipt.started.who)
    /\ receipt.timers = prior.timers[receipt.who]
    /\ receipt.started.who # NoOne =>
         receipt.started.was = prior.timers[receipt.started.who].atStart

SomethingSince ==
    \/ enc.version > receipt.after.version
    \/ enc.stateVersion > receipt.after.stateVersion
    \/ enc.index # receipt.after.index /\ ~reindex.due

ExactInv ==
    receipt.who # NoOne =>
      /\ enc.version >= receipt.after.version
      /\ enc.stateVersion >= receipt.after.stateVersion
      /\ IF prior.kind = "removal" THEN NothingSince ELSE SomethingSince

(* A removal's receipt tells what there was.                                *)
LEMMA RemovalIsRemembered ==
    ASSUME BaseInv, NEW c \in Combatant, RemoveCombatant(c)
    PROVE  ExactInv'
<1>1. PICK t \in Pointers : Removes(c, t)
  BY RemovalIs
<1>2. /\ c \in roster /\ roster' = roster \ {c} /\ LeavesTo(c, t)
      /\ timers' = StartTick([timers EXCEPT ![c] = NoTimer], Started(c, t))
      /\ receipt' = ReceiptOf(c, t, enc') /\ prior' = Remember("removal")
  BY <1>1 DEF Removes
<1>3. prior' = [kind |-> "removal", pointer |-> Pointer(enc), timers |-> timers, roster |-> roster]
  BY <1>2 DEF Remember
<1>4. PICK was : /\ was = IF Started(c, t) = NoOne THEN 0 ELSE timers[Started(c, t)].atStart
                 /\ receipt' = [who |-> c, before |-> Pointer(enc), after |-> enc',
                                started |-> Delta(Started(c, t), was), timers |-> timers[c]]
  BY <1>2 DEF ReceiptOf
<1>5. /\ receipt'.who = c /\ receipt'.before = Pointer(enc) /\ receipt'.after = enc'
      /\ receipt'.started.who = Started(c, t) /\ receipt'.started.was = was
      /\ receipt'.timers = timers[c]
  BY <1>4 DEF Delta
<1>6. c # NoOne /\ Started(c, t) # c
  BY <1>2, BaseFacts DEF Started, BaseInv
<1>7. roster = roster' \cup {c}
  BY <1>2
<1>8. NothingSince'
  <2>1. /\ prior'.pointer = Pointer(enc) /\ prior'.timers = timers /\ prior'.roster = roster
    BY <1>3
  <2> QED
    BY <1>2, <1>4, <1>5, <1>6, <1>7, <2>1 DEF NothingSince
<1>9. enc' \in Encounters
  BY <1>1 DEF Removes
<1> QED
  BY <1>3, <1>5, <1>8, <1>9 DEF ExactInv, Encounters

(* After every step the receipt tells what there was or that something has  *)
(* happened.                                                                *)
LEMMA ExactStep ==
    ASSUME BaseInv, ExactInv, [Next]_vars
    PROVE  ExactInv'
<1>0. /\ enc \in Encounters /\ enc.version \in Nat /\ enc.stateVersion \in Nat
      /\ receipt.who # NoOne => /\ receipt.after.version \in Nat
                                /\ receipt.after.stateVersion \in Nat
      /\ Nothing.kind = "nothing" /\ NoReceipt.who = NoOne
  BY BaseFacts DEF BaseInv, TypeOK, Encounters, Nothing, NoReceipt
<1>1. ASSUME UNCHANGED <<enc, receipt, prior, roster, timers, reindex>> PROVE ExactInv'
  BY <1>1 DEF ExactInv, NothingSince, SomethingSince
<1>2. ASSUME NEW i \in Intent, ClientStep(i) PROVE ExactInv'
  BY <1>1, <1>2 DEF ClientStep, Click, Resend, Replay, Refuse, KeepRoster
<1>3. ASSUME receipt' = receipt, prior' \in {Nothing, Remember("advance")},
             \/ enc'.version = enc.version + 1 /\ enc'.stateVersion = enc.stateVersion
             \/ enc'.version = enc.version /\ enc'.stateVersion = enc.stateVersion + 1
      PROVE  ExactInv'
  <2>1. prior'.kind # "removal"
    BY <1>0, <1>3 DEF Remember
  <2> QED
    BY <1>0, <1>3, <2>1 DEF ExactInv, SomethingSince
<1>4. ASSUME NEW i \in Intent, AdvanceCurrentTurn(i) PROVE ExactInv'
  <2>1. PICK t \in Pointers : Advances(i, t)
    BY <1>4, AdvanceIs
  <2> QED
    BY <1>3, <2>1 DEF Advances
<1>5. ASSUME UndoTurn PROVE ExactInv'
  <2>1. PICK t \in Pointers : Undone(t)
    BY <1>5, UndoTurnIs
  <2> QED
    BY <1>3, <2>1 DEF Undone
<1>6. ASSUME \/ \E c \in Combatant : HpWrite(c) \/ AddCombatant(c)
             \/ \E c \in Combatant, n \in Rolls \cup {0} : SetInitiative(c, n)
      PROVE  ExactInv'
  <2>1. /\ receipt' = receipt /\ prior' = Nothing
        /\ enc'.version = enc.version /\ enc'.stateVersion = enc.stateVersion + 1
    BY <1>0, <1>6 DEF HpWrite, AddCombatant, SetInitiative, Forget, Encounters
  <2> QED
    BY <1>3, <2>1
<1>7. ASSUME NEW c \in Combatant, RemoveCombatant(c) PROVE ExactInv'
  BY <1>7, RemovalIsRemembered
<1>8. ASSUME Reindex PROVE ExactInv'
  <2>1. PICK n : /\ n = IndexFor(Sorted(roster, init), reindex.current)
                 /\ enc' = [enc EXCEPT !.index = n]
    BY <1>8 DEF Reindex
  <2>2. /\ reindex.due /\ ~reindex'.due /\ receipt' = receipt
        /\ prior' = IF enc' = enc THEN prior ELSE Nothing
        /\ UNCHANGED <<roster, timers>>
    BY <1>8 DEF Reindex, KeepRoster
  <2>3. /\ enc'.version = enc.version /\ enc'.stateVersion = enc.stateVersion
        /\ enc'.index = n
    BY <1>0, <2>1 DEF Encounters
  <2>4. CASE enc' = enc
    BY <2>2, <2>4 DEF ExactInv, NothingSince, SomethingSince
  <2>5. CASE enc' # enc
    <3>1. prior'.kind # "removal"
      BY <1>0, <2>2, <2>5
    <3>2. enc'.index # enc.index
      BY <1>0, <2>1, <2>3, <2>5 DEF Encounters
    <3>3. ASSUME receipt.who # NoOne PROVE SomethingSince'
      <4>1. CASE prior.kind = "removal"
        BY <2>2, <2>3, <3>2, <3>3, <4>1 DEF ExactInv, NothingSince, SomethingSince
      <4>2. CASE prior.kind # "removal"
        BY <2>2, <2>3, <3>3, <4>2 DEF ExactInv, SomethingSince
      <4> QED
        BY <4>1, <4>2
    <3> QED
      BY <2>2, <2>3, <3>1, <3>3 DEF ExactInv
  <2> QED
    BY <2>4, <2>5
<1>9. ASSUME receipt' = NoReceipt PROVE ExactInv'
  BY <1>0, <1>9 DEF ExactInv
<1>10. ASSUME UndoRemoveCombatant \/ ReceiptExpires PROVE ExactInv'
  BY <1>9, <1>10 DEF UndoRemoveCombatant, ReceiptExpires
<1>11. CASE UNCHANGED vars
  BY <1>1, <1>11 DEF vars
<1> QED
  BY <1>2, <1>4, <1>5, <1>6, <1>7, <1>8, <1>10, <1>11 DEF Next, ClientStep

(* What a removal and the tick it started took from the timers comes back.  *)
Restored(tm, c, timer, s, was) ==
    LET back == [tm EXCEPT ![c] = timer]
    IN  IF s = NoOne THEN back ELSE [back EXCEPT ![s].atStart = was]

(* They do.                                                                 *)
LEMMA TimersComeBack ==
    ASSUME NEW P \in Timers, NEW c \in Combatant, NEW s \in Someone, s # c,
           NEW was, s # NoOne => was = P[s].atStart
    PROVE  Restored(StartTick([P EXCEPT ![c] = NoTimer], s), c, P[c], s, was) = P
<1>0. PICK tm, back : /\ tm = StartTick([P EXCEPT ![c] = NoTimer], s)
                      /\ back = [tm EXCEPT ![c] = P[c]]
  OBVIOUS
<1>1. \A d \in Combatant : P[d] \in Timer
  BY DEF Timers
<1>2. DOMAIN P = Combatant
  BY DEF Timers
<1>3. CASE s = NoOne
  <2>1. back = P
    BY <1>0, <1>2, <1>3 DEF StartTick, Timers
  <2> QED
    BY <1>0, <1>3, <2>1 DEF Restored
<1>4. CASE s # NoOne
  <2>1. s \in Combatant
    BY <1>4 DEF Someone
  <2>2. PICK u : u = [P[s] EXCEPT !.atStart = Sooner(P[s].atStart)]
    OBVIOUS
  <2>3. tm = [[P EXCEPT ![c] = NoTimer] EXCEPT ![s] = u]
    BY <1>0, <1>2, <1>4, <2>1, <2>2 DEF StartTick
  <2>4. back = [P EXCEPT ![s] = u]
    BY <1>0, <1>2, <2>1, <2>3 DEF Timers
  <2>5. [u EXCEPT !.atStart = P[s].atStart] = P[s]
    BY <1>1, <2>1, <2>2 DEF Timer
  <2>6. [back EXCEPT ![s].atStart = was] = P
    BY <1>2, <1>4, <2>1, <2>4, <2>5 DEF Timers
  <2> QED
    BY <1>0, <1>4, <2>6 DEF Restored
<1> QED
  BY <1>3, <1>4

(* Undoing a removal at once brings back the turn, the roster and every     *)
(* timer; undoing it after anything else has happened leaves the turn where *)
(* it has gone.                                                             *)
THEOREM RemovalUndosAreExact == Spec => RemovalUndoIsExact
<1>1. Init => ExactInv
  BY DEF Init, NoReceipt, ExactInv
<1>2. BaseInv /\ ExactInv /\ [Next]_vars => ExactInv'
  BY ExactStep
<1>3. ASSUME BaseInv, ExactInv, UndoRemoveCombatant
      PROVE  IF prior.kind = "removal"
             THEN /\ Pointer(enc') = prior.pointer /\ roster' = prior.roster
                  /\ timers' = prior.timers
             ELSE /\ enc'.current = enc.current /\ enc'.round = enc.round
                  /\ enc'.phase = enc.phase
  <2>1. Undoes /\ receipt.who # NoOne
    BY <1>3, UndoIs DEF UndoRemoveCombatant
  <2>2. CASE prior.kind = "removal"
    <3>1. NothingSince
      BY <1>3, <2>1, <2>2 DEF ExactInv
    <3>2. TurnsBack
      BY <2>1, <3>1 DEF Undoes, NothingSince, PutsBack
    <3>3. Pointer(enc') = prior.pointer /\ roster' = prior.roster
      BY <2>1, <3>1, <3>2 DEF Undoes, NothingSince, TurnsBack
    <3>4. prior.timers \in Timers /\ receipt.started.who \in Someone
          /\ receipt.who \in Combatant
      BY <1>3, <2>1 DEF BaseInv, TypeOK, Deltas, Undoes
    <3>5. BackTimers = [timers EXCEPT ![receipt.who] = prior.timers[receipt.who]]
      BY <3>1 DEF BackTimers, NothingSince
    <3>6. timers' = Restored(timers, receipt.who, prior.timers[receipt.who],
                             receipt.started.who, receipt.started.was)
      BY <3>2, <3>5 DEF TurnsBack, Restored
    <3>7. timers' = prior.timers
      <4>1. PICK P, c, s, was : /\ P = prior.timers /\ c = receipt.who
                                /\ s = receipt.started.who /\ was = receipt.started.was
        OBVIOUS
      <4>2. /\ P \in Timers /\ c \in Combatant /\ s \in Someone /\ s # c
            /\ s # NoOne => was = P[s].atStart
        BY <3>1, <3>4, <4>1 DEF NothingSince
      <4>3. Restored(StartTick([P EXCEPT ![c] = NoTimer], s), c, P[c], s, was) = P
        BY <4>2, TimersComeBack
      <4>4. timers = StartTick([P EXCEPT ![c] = NoTimer], s)
        BY <3>1, <4>1 DEF NothingSince
      <4> QED
        BY <3>6, <4>1, <4>3, <4>4
    <3> QED
      BY <2>2, <3>3, <3>7
  <2>3. CASE prior.kind # "removal"
    <3>1. enc # receipt.after
      <4>1. SomethingSince
        BY <1>3, <2>1, <2>3 DEF ExactInv
      <4>2. enc.version \in Nat /\ enc.stateVersion \in Nat
        BY <1>3, BaseFacts DEF BaseInv
      <4> QED
        BY <4>1, <4>2 DEF SomethingSince
    <3>2. PutsBack
      BY <2>1, <3>1 DEF Undoes, TurnsBack
    <3> QED
      BY <2>3, <3>2 DEF PutsBack
  <2> QED
    BY <2>2, <2>3
<1> QED
  BY <1>1, <1>2, <1>3, BaseHolds, PTL DEF Spec, RemovalUndoIsExact

-----------------------------------------------------------------------------
(* Whom a lair slot waits for, and nobody else.                             *)

(* Somebody's turn waits for nobody; so did the turn before a removal, in   *)
(* no later a round.  While the versions are as the removal left them, so   *)
(* is the pointer.                                                          *)
ResumeInv ==
    /\ enc.phase # "lair" /\ enc.current # NoOne => enc.resume = NoOne
    /\ receipt.who # NoOne =>
         /\ receipt.before.phase # "lair" /\ receipt.before.current # NoOne =>
              receipt.before.resume = NoOne
         /\ receipt.before.resume = receipt.who => receipt.after.current = NoOne
         /\ receipt.before.round <= receipt.after.round
         /\ enc.version >= receipt.after.version
         /\ enc.version = receipt.after.version =>
              enc.current = receipt.after.current /\ enc.phase = receipt.after.phase

(* A removal leaves it so.                                                  *)
LEMMA RemovalKeepsResume ==
    ASSUME BaseInv, ResumeInv, NEW c \in Combatant, RemoveCombatant(c)
    PROVE  ResumeInv'
<1>1. PICK t \in Pointers : Removes(c, t)
  BY RemovalIs
<1>2. /\ c \in roster /\ c # NoOne /\ LeavesTo(c, t) /\ receipt' = ReceiptOf(c, t, enc')
      /\ enc' \in Encounters /\ enc'.current = t.current /\ enc'.phase = t.phase
      /\ enc'.resume = t.resume /\ enc \in Encounters
      /\ roster \in SUBSET Combatant /\ enc.round \in Nat \ {0} /\ enc.resume \in Someone
      /\ enc.phase = "lair" => enc.current = NoOne
  BY <1>1, BaseFacts DEF Removes, BaseInv, TypeOK, PointerIsThere
<1>3. /\ receipt'.who = c /\ receipt'.after = enc'
      /\ receipt'.before.current = enc.current /\ receipt'.before.phase = enc.phase
      /\ receipt'.before.resume = enc.resume /\ receipt'.before.round = enc.round
      /\ enc'.round = t.round
  BY <1>1, <1>2, PointerIs DEF ReceiptOf, Removes
<1>4. /\ t.phase # "lair" /\ t.current # NoOne => t.resume = NoOne
      /\ enc.current # c => t.current = enc.current
      /\ enc.round <= t.round
  <2>1. CASE enc.current = c
    <3>1. PICK e \in Encounters : /\ e.current = c /\ e.phase = enc.phase
                                  /\ e.round = enc.round /\ e.resume = Freed(c)
                                  /\ GoesOn(t, roster, Staying(c), init, e)
      BY <1>2, <2>1 DEF LeavesTo
    <3>2. e.round \in Nat \ {0} /\ e.resume \in Someone /\ Staying(c) \in SUBSET roster
      BY <1>2, <3>1 DEF Freed, Someone, Staying
    <3>3. /\ t.phase # "lair" => t.resume = NoOne
          /\ t.round \in {e.round, e.round + 1}
      BY <1>2, <3>1, <3>2, GoesSomewhere
    <3> QED
      BY <2>1, <3>1, <3>2, <3>3
  <2>2. CASE enc.current # c /\ enc.phase = "lair" /\ enc.resume = c
    <3>1. \E b : t = Turn(enc.current, IF b.current = NoOne THEN "combatant" ELSE "lair",
                          b.current, enc.round)
      BY <1>2, <2>2 DEF LeavesTo
    <3>2. t.current = enc.current /\ t.round = enc.round
      BY <3>1 DEF Turn
    <3> QED
      BY <1>2, <2>2, <3>2
  <2>3. CASE enc.current # c /\ ~(enc.phase = "lair" /\ enc.resume = c)
    <3>1. t = Turn(enc.current, enc.phase, Freed(c), enc.round)
      BY <1>2, <2>3 DEF LeavesTo
    <3>2. /\ t.current = enc.current /\ t.phase = enc.phase /\ t.resume = Freed(c)
          /\ t.round = enc.round
      BY <3>1 DEF Turn
    <3> QED
      BY <1>2, <2>3, <3>2 DEF Freed, ResumeInv
  <2> QED
    BY <2>1, <2>2, <2>3
<1>5. enc.resume = c => t.current = NoOne
  BY <1>2, <1>4 DEF ResumeInv
<1>6. enc'.version \in Nat
  BY <1>2 DEF Encounters
<1> QED
  BY <1>2, <1>3, <1>4, <1>5, <1>6 DEF ResumeInv

(* So does every step, if a removal undone late leaves a later slot alone.  *)
LEMMA ResumeStep ==
    ASSUME "stale_resume" \notin Env, BaseInv, ResumeInv, [Next]_vars
    PROVE  ResumeInv'
<1>0. /\ enc \in Encounters /\ enc.version \in Nat /\ NoReceipt.who = NoOne
      /\ receipt.who # NoOne => receipt.after.version \in Nat
      /\ enc.round \in Nat \ {0} /\ enc.resume \in Someone
      /\ roster \in SUBSET Combatant /\ roster \ down \in SUBSET roster
  BY BaseFacts DEF BaseInv, TypeOK, Encounters, NoReceipt
<1>1. ASSUME UNCHANGED <<enc, receipt>> PROVE ResumeInv'
  BY <1>1 DEF ResumeInv
<1>2. ASSUME NEW i \in Intent, ClientStep(i) PROVE ResumeInv'
  BY <1>1, <1>2 DEF ClientStep, Click, Resend, Replay, Refuse, KeepRoster
<1>3. ASSUME enc'.phase # "lair" => enc'.resume = NoOne,
             enc'.version = enc.version + 1, receipt' = receipt
      PROVE  ResumeInv'
  BY <1>0, <1>3 DEF ResumeInv
<1>4. ASSUME NEW i \in Intent, AdvanceCurrentTurn(i) PROVE ResumeInv'
  <2>1. PICK t \in Pointers : Advances(i, t)
    BY <1>4, AdvanceIs
  <2>2. GoesOn(t, roster, roster \ down, init, enc)
    BY <2>1 DEF Advances
  <2>3. t.phase # "lair" => t.resume = NoOne
    BY <1>0, <2>2, GoesSomewhere
  <2> QED
    BY <1>3, <2>1, <2>3 DEF Advances
<1>5. ASSUME UndoTurn PROVE ResumeInv'
  <2>1. PICK t \in Pointers : Undone(t)
    BY <1>5, UndoTurnIs
  <2> QED
    BY <1>3, <2>1 DEF Undone
<1>6. ASSUME \/ \E c \in Combatant : HpWrite(c) \/ AddCombatant(c)
             \/ \E c \in Combatant, n \in Rolls \cup {0} : SetInitiative(c, n)
             \/ Reindex
      PROVE  ResumeInv'
  <2>1. /\ receipt' = receipt /\ enc'.current = enc.current /\ enc'.phase = enc.phase
        /\ enc'.resume = enc.resume /\ enc'.version = enc.version
    BY <1>0, <1>6 DEF HpWrite, AddCombatant, SetInitiative, Reindex, KeepRoster, Encounters
  <2> QED
    BY <2>1 DEF ResumeInv
<1>7. ASSUME NEW c \in Combatant, RemoveCombatant(c) PROVE ResumeInv'
  BY <1>7, RemovalKeepsResume
<1>8. ASSUME UndoRemoveCombatant PROVE ResumeInv'
  <2>1. Undoes /\ receipt'.who = NoOne /\ receipt.who # NoOne
    BY <1>0, <1>8, UndoIs DEF UndoRemoveCombatant
  <2>2. ASSUME TurnsBack PROVE enc'.phase # "lair" /\ enc'.current # NoOne => enc'.resume = NoOne
    BY <2>1, <2>2 DEF TurnsBack, ResumeInv
  <2>3. ASSUME PutsBack PROVE enc'.phase # "lair" /\ enc'.current # NoOne => enc'.resume = NoOne
    <3>1. CASE BackResume = enc.resume
      BY <2>3, <3>1 DEF PutsBack, ResumeInv
    <3>2. CASE BackResume # enc.resume
      <4>1. receipt.before.resume = receipt.who /\ enc.version = receipt.after.version
        BY <2>1, <3>2 DEF Undoes, BackResume
      <4>2. enc.current = NoOne
        BY <2>1, <4>1 DEF ResumeInv
      <4> QED
        BY <2>3, <4>2 DEF PutsBack
    <3> QED
      BY <3>1, <3>2
  <2>4. enc'.phase # "lair" /\ enc'.current # NoOne => enc'.resume = NoOne
    BY <2>1, <2>2, <2>3 DEF Undoes
  <2> QED
    BY <2>1, <2>4 DEF ResumeInv
<1>9. ASSUME ReceiptExpires PROVE ResumeInv'
  BY <1>0, <1>9 DEF ReceiptExpires, ResumeInv
<1>10. CASE UNCHANGED vars
  BY <1>1, <1>10 DEF vars
<1> QED
  BY <1>2, <1>4, <1>5, <1>6, <1>7, <1>8, <1>9, <1>10 DEF Next, ClientStep

(* So it is for ever.                                                       *)
LEMMA ResumeHolds ==
    ASSUME "stale_resume" \notin Env
    PROVE  Spec => []ResumeInv
<1>1. Init => ResumeInv
  BY DEF Init, NoReceipt, ResumeInv
<1>2. BaseInv /\ ResumeInv /\ [Next]_vars => ResumeInv'
  BY ResumeStep
<1> QED
  BY <1>1, <1>2, BaseHolds, PTL DEF Spec

-----------------------------------------------------------------------------
(* Undoing a turn.                                                          *)

(* Straight after the turn went from somebody to somebody, with no lair     *)
(* slot between them: how it went there and what the newest tick says.      *)
EntersLair(c, seq, rolled) ==
    /\ HasLair(seq) /\ c \in ToSet(seq) /\ rolled[c] >= LairCount
    /\ Place(seq, c) = Len(seq) \/ ~(rolled[seq[Place(seq, c) + 1]] >= LairCount)

TurnWent ==
    LET p == prior.pointer
        c == prior.pointer.current
        s == enc.current
        ended == EndTick(prior.timers, c)
    IN  /\ p.phase = "combatant" /\ p.resume = NoOne
        /\ AdvanceFound(Pointer(enc), roster, roster \ down, init, c, p.round)
        /\ ~EntersLair(c, Sorted(roster, init), init)
        /\ timers = StartTick(ended, s) /\ ticks # <<>>
        /\ NewestTick = [to |-> Pointer(enc), ending |-> Delta(c, prior.timers[c].atEnd),
                         starting |-> Delta(s, ended[s].atStart)]

WentInv ==
    prior.kind = "advance" /\ prior.pointer.current \in roster /\ enc.current # NoOne => TurnWent

(* The turn goes from somebody to somebody past no lair slot.               *)
LEMMA GoesPastNoLair ==
    ASSUME init \in [Combatant -> Nat], NEW ids \in SUBSET Combatant,
           NEW out, NEW e, e.round \in Nat \ {0}, e.phase # "lair",
           NEW t, t = AdvanceEncounterTurn(Sorted(ids, init), out, e), t.current # NoOne
    PROVE  /\ AdvanceFound(t, ids, ids \ out, init, e.current, e.round)
           /\ ~EntersLair(e.current, Sorted(ids, init), init)
<1>1. PICK seq, b : seq = Sorted(ids, init) /\ b = AdvanceTurn(seq, out, e.current, e.round)
  OBVIOUS
<1>2. AdvanceFound(b, ids, ids \ out, init, e.current, e.round)
  BY <1>1, AdvanceTurnFinds
<1>3. EntersLair(e.current, seq, init) <=> HasLair(seq) /\ EntersLairAfter(e.current, seq)
  BY DEF EntersLair, EntersLairAfter, High
<1>4. t = IF EntersLair(e.current, seq, init) /\ b.current # NoOne
          THEN Turn(NoOne, "lair", b.current, b.round) ELSE b
  BY <1>1, <1>3 DEF AdvanceEncounterTurn
<1>5. ~(EntersLair(e.current, seq, init) /\ b.current # NoOne)
  BY <1>4 DEF Turn
<1> QED
  BY <1>1, <1>2, <1>4, <1>5

(* The last of what was appended to.                                        *)
LEMMA LastOfAppend ==
    ASSUME NEW S, NEW q \in Seq(S), NEW x \in S
    PROVE  Append(q, x) # <<>> /\ Last(Append(q, x)) = x
BY DEF Last

(* A turn taken is remembered so.                                           *)
LEMMA AdvanceIsRemembered ==
    ASSUME BaseInv, BaseInv', ResumeInv, NEW i \in Intent, AdvanceCurrentTurn(i)
    PROVE  WentInv'
<1>1. PICK t \in Pointers : Advances(i, t)
  BY AdvanceIs
<1>2. /\ enc \in Encounters /\ roster \in SUBSET Combatant /\ NoOne \notin Combatant
      /\ enc.phase \in {"combatant", "lair"}
      /\ enc.phase = "lair" => enc.current = NoOne
  BY BaseFacts DEF BaseInv, TypeOK, PointerIsThere
<1>3. /\ prior' = [kind |-> "advance", pointer |-> Pointer(enc), timers |-> timers,
                   roster |-> roster]
      /\ Pointer(enc').current = enc'.current /\ enc'.current = t.current /\ Pointer(enc') = t
      /\ UNCHANGED <<roster, init, down>>
  BY <1>1, PointerIs DEF Advances, Remember
<1>4. /\ prior'.pointer = Pointer(enc) /\ prior'.pointer.current = enc.current
      /\ prior'.pointer.phase = enc.phase /\ prior'.pointer.resume = enc.resume
      /\ prior'.timers = timers
  BY <1>2, <1>3, PointerIs
<1>5. SUFFICES ASSUME enc.current \in roster, t.current # NoOne
               PROVE  TurnWent'
  BY <1>3, <1>4 DEF WentInv
<1>6. enc.phase = "combatant" /\ enc.resume = NoOne /\ enc.current # NoOne
  BY <1>2, <1>5 DEF ResumeInv
<1>7. /\ AdvanceFound(Pointer(enc'), roster', roster' \ down', init', prior'.pointer.current,
                      prior'.pointer.round)
      /\ ~EntersLair(prior'.pointer.current, Sorted(roster', init'), init')
  <2>1. /\ init \in [Combatant -> Nat] /\ enc.round \in Nat \ {0}
        /\ t = AdvanceEncounterTurn(Sorted(roster, init), down, enc)
    BY <1>1, BaseFacts DEF BaseInv, Advances
  <2>2. /\ AdvanceFound(t, roster, roster \ down, init, enc.current, enc.round)
        /\ ~EntersLair(enc.current, Sorted(roster, init), init)
    BY <1>2, <1>5, <1>6, <2>1, GoesPastNoLair
  <2> QED
    BY <1>2, <1>3, <1>4, <2>2, PointerIs
<1>8. Ending = enc.current /\ Starting(t) = t.current
  <2>1. t.current \in roster
    BY <1>3, <1>5 DEF BaseInv, PointerIsThere
  <2> QED
    BY <1>5, <1>6, <2>1 DEF Ending, Starting
<1>9. timers' = StartTick(EndTick(timers, enc.current), enc'.current)
  BY <1>1, <1>3, <1>8 DEF Advances, Ticked
<1>10. PICK x : /\ x = TickOf(t) /\ ticks' = Append(ticks, x)
                /\ x = [to |-> Pointer(enc'), ending |-> Delta(enc.current, timers[enc.current].atEnd),
                        starting |-> Delta(enc'.current,
                                           EndTick(timers, enc.current)[enc'.current].atStart)]
  <2>1. ticks' = Append(ticks, TickOf(t))
    BY <1>1, <1>5, <1>8 DEF Advances
  <2>2. TickOf(t) = [to |-> t, ending |-> Delta(enc.current, timers[enc.current].atEnd),
                     starting |-> Delta(t.current, EndTick(timers, enc.current)[t.current].atStart)]
    BY <1>5, <1>6, <1>8 DEF TickOf
  <2> QED
    BY <1>3, <2>1, <2>2
<1>11. ticks' # <<>> /\ NewestTick' = x
  <2>1. ticks \in Seq(Snapshots \cup {x}) /\ x \in Snapshots \cup {x}
    BY DEF BaseInv, TypeOK
  <2>2. Append(ticks, x) # <<>> /\ Last(Append(ticks, x)) = x
    BY <2>1, LastOfAppend
  <2> QED
    BY <1>10, <2>2 DEF NewestTick
<1> QED
  BY <1>4, <1>6, <1>7, <1>9, <1>10, <1>11 DEF TurnWent

(* Whatever comes after a turn taken is not straight after it.              *)
LEMMA WentStep ==
    ASSUME BaseInv, BaseInv', ResumeInv, WentInv, [Next]_vars
    PROVE  WentInv'
<1>1. ASSUME UNCHANGED <<roster, init, down, timers, enc, ticks, prior>> PROVE WentInv'
  BY <1>1 DEF WentInv, TurnWent, NewestTick
<1>2. ASSUME NEW i \in Intent, ClientStep(i) PROVE WentInv'
  BY <1>1, <1>2 DEF ClientStep, Click, Resend, Replay, Refuse, KeepRoster
<1>3. ASSUME NEW i \in Intent, AdvanceCurrentTurn(i) PROVE WentInv'
  BY <1>3, AdvanceIsRemembered
<1>4. ASSUME prior'.kind # "advance" PROVE WentInv'
  BY <1>4 DEF WentInv
<1>5. ASSUME \/ \E c \in Combatant : HpWrite(c) \/ AddCombatant(c) \/ RemoveCombatant(c)
             \/ \E c \in Combatant, n \in Rolls \cup {0} : SetInitiative(c, n)
             \/ UndoTurn \/ UndoRemoveCombatant
      PROVE  WentInv'
  <2>1. prior' = Nothing \/ prior' = Remember("removal")
    BY <1>5 DEF HpWrite, AddCombatant, RemoveCombatant, SetInitiative, UndoTurn,
                UndoRemoveCombatant, Forget
  <2>2. prior'.kind # "advance"
    BY <2>1 DEF Nothing, Remember
  <2> QED
    BY <1>4, <2>2
<1>6. ASSUME Reindex PROVE WentInv'
  <2>1. UNCHANGED <<roster, init, down, timers, ticks>> /\ prior' = IF enc' = enc THEN prior ELSE Nothing
    BY <1>6 DEF Reindex, KeepRoster
  <2>2. CASE enc' = enc
    BY <1>1, <2>1, <2>2
  <2>3. CASE enc' # enc
    BY <1>4, <2>1, <2>3 DEF Nothing
  <2> QED
    BY <2>2, <2>3
<1>7. ASSUME ReceiptExpires PROVE WentInv'
  BY <1>1, <1>7 DEF ReceiptExpires
<1>8. CASE UNCHANGED vars
  BY <1>1, <1>8 DEF vars
<1> QED
  BY <1>2, <1>3, <1>5, <1>6, <1>7, <1>8 DEF Next, ClientStep

(* Putting back what a turn's ticks took.                                   *)
LEMMA PutBackUndoes ==
    ASSUME NEW P \in Timers, roster \in SUBSET Combatant, NoOne \notin Combatant,
           MaxTimer \in Nat, NEW c \in roster, NEW s \in roster, NEW to
    PROVE  PutBack(StartTick(EndTick(P, c), s),
                   [to |-> to, ending |-> Delta(c, P[c].atEnd),
                    starting |-> Delta(s, EndTick(P, c)[s].atStart)]) = P
<1>1. c \in Combatant /\ s \in Combatant /\ c # NoOne /\ s # NoOne
  OBVIOUS
<1>2. DOMAIN P = Combatant /\ \A d \in Combatant : P[d] \in Timer
  BY DEF Timers
<1>3. PICK ended, tm, m, n : /\ ended = EndTick(P, c) /\ tm = StartTick(ended, s)
                             /\ m = P[c].atEnd /\ n = ended[s].atStart
  OBVIOUS
<1>4. ended \in Timers /\ tm \in Timers
  BY <1>1, <1>3, TicksAreTimed DEF Someone
<1>5. ended = [P EXCEPT ![c] = [P[c] EXCEPT !.atEnd = Sooner(m)]]
  BY <1>1, <1>2, <1>3 DEF EndTick
<1>6. tm = [ended EXCEPT ![s] = [ended[s] EXCEPT !.atStart = Sooner(n)]]
  BY <1>1, <1>3, <1>4 DEF StartTick, Timers
<1>7. m \in Nat /\ n \in Nat /\ ended[s].atStart = n /\ ended[s] \in Timer
  BY <1>1, <1>2, <1>3, <1>4 DEF Timers, Timer
<1>8. tm[c].atEnd = Sooner(m) /\ tm[c] \in Timer /\ tm[s].atStart = Sooner(n)
  <2>1. ended[c].atEnd = Sooner(m)
    BY <1>1, <1>2, <1>5 DEF Timer
  <2>2. CASE c = s
    BY <1>1, <1>4, <1>6, <2>1, <2>2 DEF Timers, Timer
  <2>3. CASE c # s
    BY <1>1, <1>4, <1>6, <2>1, <2>3 DEF Timers, Timer
  <2> QED
    BY <2>2, <2>3
<1>9. PICK half : half = IF m > 0 /\ tm[c].atEnd = m - 1 THEN [tm EXCEPT ![c].atEnd = m] ELSE tm
  OBVIOUS
<1>10. half = [tm EXCEPT ![c] = [tm[c] EXCEPT !.atEnd = m]]
  <2>1. CASE m > 0
    BY <1>1, <1>4, <1>7, <1>8, <1>9, <2>1 DEF Sooner, Timers
  <2>2. CASE m = 0
    <3>1. half = tm /\ tm[c].atEnd = m
      BY <1>8, <1>9, <2>2 DEF Sooner
    <3>2. [tm[c] EXCEPT !.atEnd = m] = tm[c]
      BY <1>8, <3>1 DEF Timer
    <3> QED
      BY <1>1, <1>4, <3>1, <3>2 DEF Timers
  <2> QED
    BY <1>7, <2>1, <2>2
<1>11. half \in [Combatant -> [atEnd : Nat, atStart : Nat]] /\ half[s].atStart = Sooner(n)
  <2>1. tm \in [Combatant -> [atEnd : Nat, atStart : Nat]]
    BY <1>4 DEF Timers, Timer
  <2> QED
    BY <1>1, <1>7, <1>8, <1>10, <2>1
<1>12. PICK whole : whole = IF n > 0 /\ half[s].atStart = n - 1 THEN [half EXCEPT ![s].atStart = n]
                            ELSE half
  OBVIOUS
<1>13. whole = [half EXCEPT ![s] = [half[s] EXCEPT !.atStart = n]]
  <2>1. CASE n > 0
    BY <1>1, <1>7, <1>11, <1>12, <2>1 DEF Sooner
  <2>2. CASE n = 0
    <3>1. whole = half /\ half[s].atStart = n
      BY <1>11, <1>12, <2>2 DEF Sooner
    <3>2. [half[s] EXCEPT !.atStart = n] = half[s]
      BY <1>1, <1>11, <3>1
    <3> QED
      BY <1>1, <1>11, <3>1, <3>2
  <2> QED
    BY <1>7, <2>1, <2>2
<1>14. whole = P
  <2>1. P \in [Combatant -> [atEnd : Nat, atStart : Nat]]
    BY DEF Timers, Timer
  <2>2. \A d \in Combatant : whole[d].atEnd = P[d].atEnd /\ whole[d].atStart = P[d].atStart
    <3> TAKE d \in Combatant
    <3>1. P[c].atEnd = m /\ ended[s].atStart = n
      BY <1>3
    <3>2. ended[s].atStart = P[s].atStart
      BY <1>1, <1>5, <2>1
    <3>3. CASE d = c /\ d = s
      BY <1>1, <1>5, <1>6, <1>10, <1>11, <1>13, <2>1, <3>1, <3>2, <3>3
    <3>4. CASE d = c /\ d # s
      BY <1>1, <1>5, <1>6, <1>10, <1>11, <1>13, <2>1, <3>1, <3>2, <3>4
    <3>5. CASE d # c /\ d = s
      BY <1>1, <1>5, <1>6, <1>10, <1>11, <1>13, <2>1, <3>1, <3>2, <3>5
    <3>6. CASE d # c /\ d # s
      BY <1>1, <1>5, <1>6, <1>10, <1>11, <1>13, <2>1, <3>6
    <3> QED
      BY <3>3, <3>4, <3>5, <3>6
  <2>3. whole \in [Combatant -> [atEnd : Nat, atStart : Nat]]
    BY <1>1, <1>7, <1>11, <1>13
  <2> QED
    BY <2>1, <2>2, <2>3
<1>15. PutBack(tm, [to |-> to, ending |-> Delta(c, m), starting |-> Delta(s, n)]) = whole
  BY <1>9, <1>12 DEF PutBack, Delta
<1> QED
  BY <1>3, <1>14, <1>15

(* Undoing a turn straight after it went from somebody still up to somebody *)
(* else gives it back in its round, with every timer as it was, if removals *)
(* undone late leave later lair slots alone.                                *)
THEOREM UndoneTurnsRevert ==
    ASSUME "stale_resume" \notin Env
    PROVE  Spec => UndoTurnReverts
<1>1. Init => WentInv
  BY DEF Init, Nothing, WentInv
<1>2. BaseInv /\ BaseInv' /\ ResumeInv /\ WentInv /\ [Next]_vars => WentInv'
  BY WentStep
<1>3. ASSUME BaseInv, WentInv, UndoTurn, prior.kind = "advance",
             prior.pointer.current \in roster \ down, enc.current # NoOne
      PROVE  Pointer(enc') = prior.pointer /\ timers' = prior.timers
  <2>1. PICK t \in Pointers : Undone(t)
    BY <1>3, UndoTurnIs
  <2>2. /\ t = RetreatEncounterTurn(Sorted(roster, init), down, enc) /\ Pointer(enc') = t
        /\ IF ticks # <<>> /\ Fits(NewestTick, t)
           THEN timers' = PutBack(timers, NewestTick) /\ ticks' = Front(ticks)
           ELSE UNCHANGED <<timers, ticks>>
    BY <2>1 DEF Undone
  <2>3. PICK p, c, s, P, seq :
          /\ p = prior.pointer /\ c = prior.pointer.current /\ s = enc.current
          /\ P = prior.timers /\ seq = Sorted(roster, init)
    OBVIOUS
  <2>4. /\ init \in [Combatant -> Nat] /\ roster \in SUBSET Combatant /\ NoOne \notin Combatant
        /\ enc \in Encounters /\ s \in roster /\ enc.phase # "lair" /\ MaxTimer \in Nat
        /\ p \in Pointers /\ P \in Timers /\ c \in roster \ down /\ enc.round \in Nat \ {0}
    BY <1>3, <2>3, BaseFacts DEF BaseInv, TypeOK, PointerIsThere
  <2>5. /\ p.phase = "combatant" /\ p.resume = NoOne
        /\ AdvanceFound(Pointer(enc), roster, roster \ down, init, c, p.round)
        /\ ~EntersLair(c, seq, init)
        /\ timers = StartTick(EndTick(P, c), s) /\ ticks # <<>>
        /\ NewestTick = [to |-> Pointer(enc), ending |-> Delta(c, P[c].atEnd),
                         starting |-> Delta(s, EndTick(P, c)[s].atStart)]
    BY <1>3, <2>3, <2>4 DEF WentInv, TurnWent
  <2>6. PICK b : b = RetreatTurn(seq, down, enc.current, enc.round)
    OBVIOUS
  <2>7. RetreatFound(b, roster \ down, init, Pointer(enc).current, Pointer(enc).round)
    <3>1. RetreatFound(b, roster \ down, init, enc.current, enc.round)
      BY <2>3, <2>4, <2>6, RetreatTurnFinds
    <3> QED
      BY <2>4, <3>1, PointerIs
  <2>8. b = Turn(c, "combatant", NoOne, p.round)
    <3>1. PICK t1, able, rolled, ids, round :
            /\ t1 = Pointer(enc) /\ able = roster \ down /\ rolled = init /\ ids = roster
            /\ round = p.round
      OBVIOUS
    <3>2. /\ rolled \in [Combatant -> Nat] /\ ids \in SUBSET Combatant
          /\ able \in SUBSET ids /\ c \in able /\ round \in Nat \ {0}
      BY <2>4, <3>1 DEF Pointers
    <3>3. AdvanceFound(t1, ids, able, rolled, c, round)
      BY <2>5, <3>1
    <3>4. RetreatFound(b, able, rolled, t1.current, t1.round)
      BY <2>7, <3>1
    <3>5. GoesBack(b, t1, ids, able, rolled, c, round)
      BY <3>2, RetreatUndoesAdvance
    <3> QED
      BY <3>1, <3>3, <3>4, <3>5 DEF GoesBack
  <2>9. b = p
    BY <2>3, <2>4, <2>5, <2>8 DEF Turn, Pointers
  <2>10. t = p
    <3>1. t = IF HasLair(seq) /\ EntersLairAfter(b.current, seq)
              THEN Turn(NoOne, "lair", enc.current, b.round) ELSE b
      BY <2>2, <2>3, <2>4, <2>6 DEF RetreatEncounterTurn
    <3>2. ~(HasLair(seq) /\ EntersLairAfter(b.current, seq))
      BY <2>3, <2>5, <2>9 DEF EntersLair, EntersLairAfter, High
    <3> QED
      BY <2>9, <3>1, <3>2
  <2>11. Fits(NewestTick, t)
    BY <2>3, <2>4, <2>5, <2>10 DEF Fits, Delta
  <2>12. timers' = PutBack(StartTick(EndTick(P, c), s),
                           [to |-> Pointer(enc), ending |-> Delta(c, P[c].atEnd),
                            starting |-> Delta(s, EndTick(P, c)[s].atStart)])
    BY <2>2, <2>5, <2>11
  <2>13. timers' = P
    BY <2>4, <2>12, PutBackUndoes
  <2> QED
    BY <2>2, <2>3, <2>10, <2>13
<1>4. BaseInv /\ WentInv /\ [Next]_vars =>
        [UndoTurn /\ prior.kind = "advance"
           /\ prior.pointer.current \in roster \ down /\ enc.current # NoOne
         => Pointer(enc') = prior.pointer /\ timers' = prior.timers]_vars
  BY <1>3
<1> QED
  BY <1>1, <1>2, <1>4, BaseHolds, ResumeHolds, PTL DEF Spec, UndoTurnReverts

-----------------------------------------------------------------------------
(* Nobody is passed over.                                                   *)

(* Of those in rdy, whoever goes before c has had the turn.                 *)
Done(c, rdy, has, rolled) == \A b \in rdy : Precedes(b, c, rolled) => b \in has

(* So have those before whom the turn is at, and that one; a turn that is   *)
(* nobody's leaves nobody ready.                                            *)
TurnDone(e, rdy, has, rolled) ==
    IF e.phase = "lair"
    THEN IF e.resume = NoOne THEN rdy = {} ELSE Done(e.resume, rdy, has, rolled)
    ELSE IF e.current = NoOne THEN rdy = {}
         ELSE Done(e.current, rdy, has, rolled) /\ rdy \cap {e.current} \subseteq has

(* Nor does a lair slot that is to wait again for somebody who was removed  *)
(* from under it.                                                           *)
LateSlotDone ==
    /\ receipt.who # NoOne /\ receipt.before.resume = receipt.who
    /\ enc.version = receipt.after.version /\ enc.phase = "lair"
    => Done(receipt.who, ready, acted, init)

GoInv ==
    /\ ready \subseteq roster \ down
    /\ TurnDone(enc, ready, acted, init)
    /\ LateSlotDone

(* Fewer who are ready, and more who had the turn, change nothing.          *)
LEMMA StillDone ==
    ASSUME NEW c, NEW rdy, NEW has, NEW rolled, NEW rdy2 \in SUBSET rdy, NEW has2, has \subseteq has2,
           NEW rolled2, \A b \in rdy2 \cup {c} : rolled2[b] = rolled[b],
           Done(c, rdy, has, rolled)
    PROVE  Done(c, rdy2, has2, rolled2)
BY DEF Done, Precedes

(* Nor do they for the whole pointer.                                       *)
LEMMA TurnStillDone ==
    ASSUME NEW e, NEW e2, e2.phase = e.phase, e2.current = e.current,
           e.phase = "lair" => e2.resume = e.resume,
           NEW rdy, NEW has, NEW rolled, NEW rdy2 \in SUBSET rdy, NEW has2, has \subseteq has2,
           NEW rolled2,
           \A b \in rdy2 \cup ({e.current, e.resume} \ {NoOne}) : rolled2[b] = rolled[b],
           TurnDone(e, rdy, has, rolled)
    PROVE  TurnDone(e2, rdy2, has2, rolled2)
<1>1. CASE e.phase = "lair" /\ e.resume = NoOne
  BY <1>1 DEF TurnDone
<1>2. CASE e.phase = "lair" /\ e.resume # NoOne
  <2>1. Done(e.resume, rdy2, has2, rolled2)
    BY <1>2, StillDone DEF TurnDone
  <2> QED
    BY <1>2, <2>1 DEF TurnDone
<1>3. CASE e.phase # "lair" /\ e.current = NoOne
  BY <1>3 DEF TurnDone
<1>4. CASE e.phase # "lair" /\ e.current # NoOne
  <2>1. Done(e.current, rdy2, has2, rolled2)
    BY <1>4, StillDone DEF TurnDone
  <2> QED
    BY <1>4, <2>1 DEF TurnDone
<1> QED
  BY <1>1, <1>2, <1>3, <1>4

(* Nobody ready, nobody passed over.                                        *)
LEMMA NobodyReady ==
    ASSUME NEW e, NEW has, NEW rolled
    PROVE  TurnDone(e, {}, has, rolled)
BY DEF TurnDone, Done

(* Where the turn goes on, whoever was before it has had it; where a round  *)
(* ends, everyone has.                                                      *)
WentOn(t, able, e, rdy, has, rolled) ==
    IF t.round > e.round
    THEN /\ rdy \subseteq has
         /\ TurnDone(t, able, {t.current} \ {NoOne}, rolled)
    ELSE TurnDone(t, rdy, has \cup ({t.current} \ {NoOne}), rolled)

(* The turn goes on so.                                                     *)
LEMMA GoingOnPassesNobody ==
    ASSUME NEW rolled \in [Combatant -> Nat], NEW ids \in SUBSET Combatant, NoOne \notin Combatant,
           NEW able \in SUBSET ids, NEW rdy \in SUBSET able, NEW has,
           NEW e, e.round \in Nat \ {0}, e.current \in ids \cup {NoOne},
           TurnDone(e, rdy, has, rolled),
           NEW t, GoesOn(t, ids, able, rolled, e)
    PROVE  WentOn(t, able, e, rdy, has, rolled)
<1>1. CASE e.phase = "lair"
  <2>1. /\ t = Turn(t.current, "combatant", NoOne, e.round)
        /\ IF e.resume = NoOne THEN t.current \in ids ELSE t.current = e.resume
    BY <1>1 DEF GoesOn
  <2>2. t.phase # "lair" /\ t.round = e.round
    BY <2>1 DEF Turn
  <2>3. CASE e.resume = NoOne
    BY <1>1, <2>2, <2>3 DEF TurnDone, WentOn, Done
  <2>4. CASE e.resume # NoOne
    <3>1. Done(t.current, rdy, has, rolled) /\ t.current # NoOne
      BY <1>1, <2>1, <2>4 DEF TurnDone
    <3> QED
      BY <2>2, <3>1 DEF TurnDone, WentOn, Done
  <2> QED
    BY <2>3, <2>4
<1>2. CASE e.phase # "lair"
  <2>1. PICK b : /\ AdvanceFound(b, ids, able, rolled, e.current, e.round)
                 /\ \/ t = b
                    \/ b.current # NoOne /\ t = Turn(NoOne, "lair", b.current, b.round)
    BY <1>2 DEF GoesOn
  <2>2. b.phase = "combatant" /\ b.resume = NoOne /\ t.round = b.round
    BY <2>1 DEF AdvanceFound, Turn
  <2>3. \/ t.phase # "lair" /\ t.current = b.current
        \/ t.phase = "lair" /\ t.current = NoOne /\ t.resume = b.current /\ b.current # NoOne
    BY <2>1, <2>2 DEF Turn
  <2>4. ASSUME able = {} PROVE WentOn(t, able, e, rdy, has, rolled)
    <3>1. b.current = NoOne /\ b.round = e.round + 1
      BY <2>1, <2>4 DEF AdvanceFound
    <3> QED
      BY <2>2, <2>3, <2>4, <3>1 DEF WentOn, TurnDone
  <2>5. ASSUME able # {}, e.current = NoOne PROVE WentOn(t, able, e, rdy, has, rolled)
    <3>1. rdy = {}
      BY <1>2, <2>5 DEF TurnDone
    <3>2. t.round = e.round
      BY <2>1, <2>2, <2>5 DEF AdvanceFound
    <3> QED
      BY <3>1, <3>2, NobodyReady DEF WentOn
  <2>6. ASSUME able # {}, e.current # NoOne, NobodyAfter(e.current, able, rolled)
        PROVE  WentOn(t, able, e, rdy, has, rolled)
    <3>1. /\ t.round = e.round + 1 /\ b.current \in able /\ NobodyBefore(b.current, able, rolled)
      BY <2>1, <2>2, <2>6 DEF AdvanceFound
    <3>2. rdy \subseteq has
      BY <1>2, <2>6, PrecedesIsTotal DEF TurnDone, Done, NobodyAfter
    <3>3. Done(b.current, able, {t.current} \ {NoOne}, rolled) /\ b.current # NoOne
      BY <3>1 DEF Done, NobodyBefore
    <3> QED
      BY <2>3, <3>1, <3>2, <3>3 DEF WentOn, TurnDone
  <2>7. ASSUME able # {}, e.current # NoOne, ~NobodyAfter(e.current, able, rolled)
        PROVE  WentOn(t, able, e, rdy, has, rolled)
    <3>1. /\ t.round = e.round /\ b.current \in able /\ Precedes(e.current, b.current, rolled)
          /\ NobodyBetween(e.current, b.current, able, rolled)
      BY <2>1, <2>2, <2>7 DEF AdvanceFound
    <3>2. Done(b.current, rdy, has, rolled) /\ b.current # NoOne
      BY <1>2, <2>7, <3>1, PrecedesIsTotal DEF TurnDone, Done, NobodyBetween
    <3>3. Done(b.current, rdy, has \cup ({t.current} \ {NoOne}), rolled)
      BY <3>2 DEF Done
    <3> QED
      BY <2>3, <3>1, <3>2, <3>3 DEF WentOn, TurnDone
  <2> QED
    BY <2>4, <2>5, <2>6, <2>7
<1> QED
  BY <1>1, <1>2

(* A step passes over nobody.                                               *)
Passes == enc'.round > enc.round => ready \cap roster' \subseteq acted

(* A turn taken passes over nobody.                                         *)
LEMMA AdvancePassesNobody ==
    ASSUME BaseInv, ResumeInv, GoInv, NEW i \in Intent, AdvanceCurrentTurn(i)
    PROVE  GoInv' /\ Passes
<1>1. PICK t \in Pointers : Advances(i, t)
  BY AdvanceIs
<1>2. PICK able : able = roster \ down
  OBVIOUS
<1>3. /\ init \in [Combatant -> Nat] /\ roster \in SUBSET Combatant /\ NoOne \notin Combatant
      /\ able \in SUBSET roster /\ ready \in SUBSET able /\ enc.round \in Nat \ {0}
      /\ enc.current \in roster \cup {NoOne} /\ TurnDone(enc, ready, acted, init)
      /\ GoesOn(t, roster, able, init, enc) /\ enc.version \in Nat
  BY <1>1, <1>2, BaseFacts DEF BaseInv, PointerIsThere, GoInv, Advances
<1>4. WentOn(t, able, enc, ready, acted, init)
  BY <1>3, GoingOnPassesNobody
<1>5. /\ enc'.round = t.round /\ enc'.phase = t.phase /\ enc'.current = t.current
      /\ enc'.resume = t.resume /\ enc'.version = enc.version + 1
      /\ UNCHANGED <<roster, init, down, receipt>>
      /\ IF t.round > enc.round THEN ready' = able /\ acted' = {t.current} \ {NoOne}
         ELSE ready' = ready /\ acted' = acted \cup ({t.current} \ {NoOne})
  <2>1. IF t.round > enc.round THEN ready' = roster \ down /\ acted' = {t.current} \ {NoOne}
        ELSE ready' = ready \cap roster /\ acted' = acted \cup ({t.current} \ {NoOne})
    BY <1>1 DEF Advances, Witness
  <2>2. ready \cap roster = ready
    BY <1>3
  <2> QED
    BY <1>1, <1>2, <2>1, <2>2 DEF Advances
<1>6. TurnDone(t, ready', acted', init)
  BY <1>4, <1>5 DEF WentOn
<1>7. TurnDone(enc', ready', acted', init')
  BY <1>5, <1>6 DEF TurnDone
<1>8. ready' \subseteq roster' \ down'
  BY <1>2, <1>3, <1>5
<1>9. LateSlotDone'
  <2>1. receipt.who # NoOne => receipt.after.version \in Nat
    BY DEF BaseInv, TypeOK, Encounters
  <2>2. receipt.who # NoOne => enc'.version # receipt.after.version
    BY <1>3, <1>5, <2>1 DEF ResumeInv
  <2> QED
    BY <1>5, <2>2 DEF LateSlotDone
<1>10. Passes
  BY <1>4, <1>5 DEF WentOn, Passes
<1> QED
  BY <1>7, <1>8, <1>9, <1>10 DEF GoInv

(* A removal passes over nobody.                                            *)
LEMMA RemovalPassesNobody ==
    ASSUME BaseInv, ResumeInv, GoInv, NEW c \in Combatant, RemoveCombatant(c)
    PROVE  GoInv' /\ Passes
<1>1. PICK t \in Pointers : Removes(c, t)
  BY RemovalIs
<1>2. PICK able, rdy : able = Staying(c) /\ rdy = ready \cap (roster \ {c})
  OBVIOUS
<1>3. /\ init \in [Combatant -> Nat] /\ roster \in SUBSET Combatant /\ NoOne \notin Combatant
      /\ able \in SUBSET roster /\ able = (roster \ {c}) \ down
      /\ rdy \in SUBSET able /\ rdy \in SUBSET ready
      /\ enc.round \in Nat \ {0} /\ enc.phase \in {"combatant", "lair"}
      /\ enc.current \in roster \cup {NoOne} /\ TurnDone(enc, ready, acted, init)
      /\ enc.phase = "lair" => enc.current = NoOne
      /\ c \in roster /\ LeavesTo(c, t)
  BY <1>1, <1>2, BaseFacts DEF BaseInv, PointerIsThere, GoInv, Removes, Staying
<1>4. /\ enc'.round = t.round /\ enc'.phase = t.phase /\ enc'.current = t.current
      /\ enc'.resume = t.resume
      /\ UNCHANGED <<init, down>> /\ roster' = roster \ {c} /\ receipt' = ReceiptOf(c, t, enc')
      /\ IF t.round > enc.round THEN ready' = able /\ acted' = {t.current} \ {NoOne}
         ELSE ready' = rdy /\ acted' = acted \cup ({t.current} \ {NoOne})
  <2>1. roster' = roster \ {c} /\ Witness(t, roster')
    BY <1>1 DEF Removes
  <2>2. IF t.round > enc.round THEN ready' = able /\ acted' = {t.current} \ {NoOne}
        ELSE ready' = rdy /\ acted' = acted \cup ({t.current} \ {NoOne})
    BY <1>2, <1>3, <2>1 DEF Witness
  <2> QED
    BY <1>1, <2>2 DEF Removes
<1>5. WentOn(t, able, enc, rdy, acted, init) /\ (enc.current # c => t.round = enc.round)
  <2>1. TurnDone(enc, rdy, acted, init)
    BY <1>3, TurnStillDone
  <2>2. CASE enc.current = c
    <3>1. PICK e \in Encounters : /\ e.current = c /\ e.phase = enc.phase
                                  /\ e.round = enc.round /\ e.resume = Freed(c)
                                  /\ GoesOn(t, roster, able, init, e)
      BY <1>2, <1>3, <2>2 DEF LeavesTo
    <3>2. enc.phase # "lair"
      BY <1>3, <2>2
    <3>3. TurnDone(e, rdy, acted, init)
      BY <2>1, <2>2, <3>1, <3>2 DEF TurnDone
    <3>4. e.round \in Nat \ {0} /\ e.current \in roster \cup {NoOne}
      BY <1>3, <3>1
    <3>5. WentOn(t, able, e, rdy, acted, init)
      BY <1>3, <3>1, <3>3, <3>4, GoingOnPassesNobody
    <3> QED
      BY <2>2, <3>1, <3>5 DEF WentOn
  <2>3. CASE enc.current # c /\ enc.phase = "lair" /\ enc.resume = c
    <3>1. PICK b : /\ AdvanceFound(b, roster, able, init, c, enc.round)
                   /\ t = Turn(enc.current, IF b.current = NoOne THEN "combatant" ELSE "lair",
                               b.current, enc.round)
      BY <1>2, <1>3, <2>3 DEF LeavesTo
    <3>2. /\ t.round = enc.round /\ t.current = NoOne /\ t.resume = b.current
          /\ t.phase = IF b.current = NoOne THEN "combatant" ELSE "lair"
      BY <1>3, <2>3, <3>1 DEF Turn
    <3>3. Done(c, rdy, acted, init)
      BY <1>3, <2>1, <2>3 DEF TurnDone
    <3>4. CASE able = {}
      <4>1. rdy = {} /\ t.phase # "lair"
        BY <1>3, <3>1, <3>2, <3>4 DEF AdvanceFound
      <4> QED
        BY <1>3, <2>3, <3>2, <4>1, NobodyReady DEF WentOn
    <3>5. CASE able # {}
      <4>1. /\ b.current \in able
            /\ NobodyAfter(c, able, init) => NobodyBefore(b.current, able, init)
            /\ ~NobodyAfter(c, able, init) => /\ Precedes(c, b.current, init)
                                              /\ NobodyBetween(c, b.current, able, init)
        BY <1>3, <3>1, <3>5 DEF AdvanceFound
      <4>2. c \notin rdy /\ b.current # NoOne
        BY <1>2, <1>3, <4>1
      <4>3. Done(b.current, rdy, acted, init)
        <5>1. CASE NobodyAfter(c, able, init)
          BY <1>3, <4>1, <5>1 DEF NobodyBefore, Done
        <5>2. CASE ~NobodyAfter(c, able, init)
          BY <1>3, <3>3, <4>1, <4>2, <5>2, PrecedesIsTotal DEF NobodyBetween, Done
        <5> QED
          BY <5>1, <5>2
      <4> QED
        BY <1>3, <2>3, <3>2, <4>2, <4>3 DEF WentOn, TurnDone, Done
    <3> QED
      BY <3>4, <3>5
  <2>4. CASE enc.current # c /\ ~(enc.phase = "lair" /\ enc.resume = c)
    <3>1. t = Turn(enc.current, enc.phase, Freed(c), enc.round)
      BY <1>3, <2>4 DEF LeavesTo
    <3>2. /\ t.round = enc.round /\ t.current = enc.current /\ t.phase = enc.phase
          /\ enc.phase = "lair" => t.resume = enc.resume
      BY <2>4, <3>1 DEF Turn, Freed
    <3>3. TurnDone(t, rdy, acted \cup ({t.current} \ {NoOne}), init)
      BY <2>1, <3>2, TurnStillDone
    <3> QED
      BY <1>3, <2>4, <3>2, <3>3 DEF WentOn
  <2> QED
    BY <2>2, <2>3, <2>4
<1>6. TurnDone(enc', ready', acted', init')
  <2>1. TurnDone(t, ready', acted', init)
    BY <1>4, <1>5 DEF WentOn
  <2> QED
    BY <1>4, <2>1 DEF TurnDone
<1>7. ready' \subseteq roster' \ down'
  BY <1>3, <1>4
<1>8. LateSlotDone'
  <2>1. /\ receipt'.who = c /\ receipt'.before.resume = enc.resume
    BY <1>4, PointerIs DEF ReceiptOf, BaseInv, TypeOK
  <2>2. SUFFICES ASSUME enc.resume = c, t.phase = "lair"
                 PROVE  Done(c, ready', acted', init)
    BY <1>4, <2>1 DEF LateSlotDone
  <2>3. c # NoOne
    BY <1>3
  <2>4. enc.current # c
    BY <1>3, <2>2, <2>3 DEF ResumeInv
  <2>5. CASE enc.phase = "lair"
    <3>1. Done(c, ready, acted, init)
      BY <1>3, <2>2, <2>3, <2>5 DEF TurnDone
    <3>2. ready' \in SUBSET ready /\ acted \subseteq acted'
      BY <1>3, <1>4, <1>5, <2>4
    <3> QED
      BY <3>1, <3>2, StillDone
  <2>6. CASE enc.phase # "lair"
    <3>1. t = Turn(enc.current, enc.phase, Freed(c), enc.round)
      BY <1>3, <2>4, <2>6 DEF LeavesTo
    <3> QED
      BY <2>2, <2>6, <3>1 DEF Turn
  <2> QED
    BY <2>5, <2>6
<1>9. Passes
  <2>1. t.round > enc.round => rdy \subseteq acted
    BY <1>5 DEF WentOn
  <2> QED
    BY <1>2, <1>4, <2>1 DEF Passes
<1> QED
  BY <1>6, <1>7, <1>8, <1>9 DEF GoInv

(* A removal undone leaves nobody before its turn unmoved.                  *)
LEMMA UndoRemovalPassesNobody ==
    ASSUME "stale_resume" \notin Env, BaseInv, ResumeInv, GoInv, UndoRemoveCombatant
    PROVE  GoInv'
<1>1. Undoes /\ receipt'.who = NoOne
  BY UndoIs DEF Undoes, NoReceipt
<1>2. LateSlotDone'
  BY <1>1 DEF LateSlotDone
<1>3. /\ receipt.who # NoOne /\ roster' = roster \cup {receipt.who} /\ UNCHANGED <<init, down>>
      /\ BackResume = enc.resume \/ enc.version = receipt.after.version
  BY <1>1, BaseFacts DEF Undoes, BaseInv
<1>4. CASE TurnsBack
  <2>1. ready' = {}
    BY <1>4 DEF TurnsBack
  <2> QED
    BY <1>2, <2>1, NobodyReady DEF GoInv
<1>5. CASE PutsBack
  <2>1. /\ enc'.phase = enc.phase /\ enc'.current = enc.current /\ enc'.resume = BackResume
        /\ UNCHANGED <<ready, acted>>
    BY <1>5 DEF PutsBack
  <2>2. TurnDone(enc, ready, acted, init)
    BY DEF GoInv
  <2>3. CASE BackResume = enc.resume
    <3>1. TurnDone(enc', ready', acted', init')
      BY <1>3, <2>1, <2>2, <2>3 DEF TurnDone
    <3> QED
      BY <1>2, <1>3, <2>1, <3>1 DEF GoInv
  <2>4. CASE BackResume # enc.resume
    <3>1. BackResume = receipt.who /\ receipt.before.resume = receipt.who
      BY <2>4 DEF BackResume
    <3>2. enc.phase = "lair" => Done(receipt.who, ready, acted, init)
      BY <1>3, <2>4, <3>1 DEF GoInv, LateSlotDone
    <3>3. TurnDone(enc', ready', acted', init')
      BY <1>3, <2>1, <2>2, <3>1, <3>2 DEF TurnDone
    <3> QED
      BY <1>2, <1>3, <2>1, <3>3 DEF GoInv
  <2> QED
    BY <2>3, <2>4
<1> QED
  BY <1>1, <1>4, <1>5 DEF Undoes

(* Writes of HP, initiative and the index and joining pass over nobody.     *)
LEMMA WritesPassNobody ==
    ASSUME BaseInv, GoInv,
           \/ \E c \in Combatant : HpWrite(c) \/ AddCombatant(c)
           \/ \E c \in Combatant, n \in Rolls \cup {0} : SetInitiative(c, n)
           \/ Reindex
    PROVE  GoInv' /\ Passes
<1>0. /\ enc \in Encounters /\ roster \in SUBSET Combatant /\ init \in [Combatant -> Nat]
      /\ {enc.current, enc.resume} \subseteq roster \cup {NoOne}
      /\ ready \subseteq roster \ down /\ TurnDone(enc, ready, acted, init) /\ LateSlotDone
      /\ enc.round \in Nat \ {0} /\ receipt.who \in Someone \ roster
  BY BaseFacts DEF BaseInv, TypeOK, PointerIsThere, GoInv
<1>1. /\ enc'.phase = enc.phase /\ enc'.current = enc.current /\ enc'.resume = enc.resume
      /\ enc'.round = enc.round /\ enc'.version = enc.version
      /\ UNCHANGED <<receipt, acted>>
  BY <1>0 DEF HpWrite, AddCombatant, SetInitiative, Reindex, KeepRoster, Encounters
<1>2. Passes
  BY <1>0, <1>1 DEF Passes
<1>3. ASSUME ready' \in SUBSET ready,
             \A b \in ready' \cup ({enc.current, enc.resume, receipt.who} \ {NoOne}) :
               init'[b] = init[b]
      PROVE  TurnDone(enc', ready', acted', init') /\ LateSlotDone'
  <2>1. TurnDone(enc', ready', acted, init')
    BY <1>0, <1>1, <1>3, TurnStillDone
  <2>2. ASSUME receipt.who # NoOne, Done(receipt.who, ready, acted, init)
        PROVE  Done(receipt.who, ready', acted, init')
    BY <1>3, <2>2, StillDone
  <2>3. LateSlotDone'
    BY <1>0, <1>1, <2>2 DEF LateSlotDone
  <2> QED
    BY <1>1, <2>1, <2>3
<1>4. ASSUME NEW c \in Combatant, HpWrite(c) PROVE GoInv'
  <2>1. ready' = ready \ {c} /\ UNCHANGED <<init, roster>> /\ down' \subseteq down \cup {c}
    BY <1>4 DEF HpWrite
  <2> QED
    BY <1>0, <1>3, <2>1 DEF GoInv
<1>5. ASSUME NEW c \in Combatant, AddCombatant(c) PROVE GoInv'
  <2>1. /\ UNCHANGED <<ready, down>> /\ roster' = roster \cup {c}
        /\ c \notin roster /\ c # receipt.who /\ init' = [init EXCEPT ![c] = 0]
    BY <1>5 DEF AddCombatant
  <2>2. \A b \in ready \cup ({enc.current, enc.resume, receipt.who} \ {NoOne}) :
          b \in Combatant /\ b # c
    BY <1>0, <2>1 DEF Someone
  <2>3. \A b \in ready' \cup ({enc.current, enc.resume, receipt.who} \ {NoOne}) :
          init'[b] = init[b]
    BY <1>0, <2>1, <2>2
  <2> QED
    BY <1>0, <1>3, <2>1, <2>3 DEF GoInv
<1>6. ASSUME NEW c \in Combatant, NEW n \in Rolls \cup {0}, SetInitiative(c, n) PROVE GoInv'
  <2>1. /\ ready' = IF c \in {enc.current, enc.resume} THEN {} ELSE ready \ {c}
        /\ UNCHANGED <<roster, down>> /\ c \in roster /\ init' = [init EXCEPT ![c] = n]
    BY <1>6 DEF SetInitiative
  <2>2. CASE c \in {enc.current, enc.resume}
    <3>1. ready' = {}
      BY <2>1, <2>2
    <3>2. TurnDone(enc', ready', acted', init')
      BY <3>1, NobodyReady
    <3>3. LateSlotDone'
      BY <3>1 DEF LateSlotDone, Done
    <3> QED
      BY <3>1, <3>2, <3>3 DEF GoInv
  <2>3. CASE c \notin {enc.current, enc.resume}
    <3>1. \A b \in ready' \cup ({enc.current, enc.resume, receipt.who} \ {NoOne}) :
            init'[b] = init[b]
      BY <1>0, <2>1, <2>3 DEF Someone
    <3> QED
      BY <1>0, <1>3, <2>1, <2>3, <3>1 DEF GoInv
  <2> QED
    BY <2>2, <2>3
<1>7. ASSUME Reindex PROVE GoInv'
  <2>1. UNCHANGED <<ready, roster, down, init>>
    BY <1>7 DEF Reindex, KeepRoster
  <2> QED
    BY <1>0, <1>3, <2>1 DEF GoInv
<1> QED
  BY <1>2, <1>4, <1>5, <1>6, <1>7

(* No step passes over anybody.                                             *)
LEMMA GoStep ==
    ASSUME "stale_resume" \notin Env, BaseInv, ResumeInv, GoInv, [Next]_vars
    PROVE  GoInv' /\ (Passes \/ UNCHANGED vars)
<1>0. enc \in Encounters /\ enc.round \in Nat \ {0} /\ NoReceipt.who = NoOne
  BY BaseFacts DEF BaseInv, TypeOK, NoReceipt
<1>1. ASSUME UNCHANGED <<enc, roster, down, init, ready, acted>>, receipt' \in {receipt, NoReceipt}
      PROVE  GoInv' /\ Passes
  <2>1. LateSlotDone'
    BY <1>0, <1>1 DEF GoInv, LateSlotDone
  <2> QED
    BY <1>0, <1>1, <2>1 DEF GoInv, Passes
<1>2. ASSUME NEW i \in Intent, ClientStep(i) PROVE GoInv' /\ Passes
  BY <1>1, <1>2 DEF ClientStep, Click, Resend, Replay, Refuse, KeepRoster
<1>3. ASSUME NEW i \in Intent, AdvanceCurrentTurn(i) PROVE GoInv' /\ Passes
  BY <1>3, AdvancePassesNobody
<1>4. ASSUME UndoTurn PROVE GoInv' /\ Passes
  <2>1. PICK t \in Pointers : Undone(t)
    BY <1>4, UndoTurnIs
  <2>2. /\ ready' = {} /\ UNCHANGED receipt /\ enc'.version = enc.version + 1
        /\ enc'.round = t.round /\ enc.version \in Nat
    BY <1>0, <2>1 DEF Undone, Encounters
  <2>3. TurnDone(enc', ready', acted', init') /\ LateSlotDone'
    BY <2>2, NobodyReady DEF LateSlotDone, Done
  <2>4. Passes
    <3>1. t.round <= enc.round /\ t.round \in Nat
      BY <2>1 DEF Undone, Pointers
    <3> QED
      BY <1>0, <2>2, <3>1 DEF Passes
  <2> QED
    BY <2>2, <2>3, <2>4 DEF GoInv
<1>5. ASSUME NEW c \in Combatant, RemoveCombatant(c) PROVE GoInv' /\ Passes
  BY <1>5, RemovalPassesNobody
<1>6. ASSUME UndoRemoveCombatant PROVE GoInv' /\ Passes
  <2>1. Undoes
    BY <1>6, UndoIs
  <2>2. receipt.who # NoOne /\ receipt.before.round \in Nat
    BY <2>1, BaseFacts DEF Undoes, BaseInv, TypeOK, Pointers
  <2>3. enc'.round <= enc.round
    <3>1. CASE TurnsBack
      BY <1>0, <2>2, <3>1 DEF TurnsBack, ResumeInv
    <3>2. CASE PutsBack
      BY <1>0, <3>2 DEF PutsBack
    <3> QED
      BY <2>1, <3>1, <3>2 DEF Undoes
  <2>4. enc'.round \in Nat
    BY <2>1 DEF Undoes, Encounters
  <2>5. Passes
    BY <1>0, <2>3, <2>4 DEF Passes
  <2> QED
    BY <1>6, <2>5, UndoRemovalPassesNobody
<1>7. ASSUME ReceiptExpires PROVE GoInv' /\ Passes
  BY <1>1, <1>7 DEF ReceiptExpires
<1>8. CASE UNCHANGED vars
  BY <1>1, <1>8 DEF vars
<1> QED
  BY <1>2, <1>3, <1>4, <1>5, <1>6, <1>7, <1>8, WritesPassNobody DEF Next, ClientStep

(* When a round ends, whoever was there, able and left in place since it    *)
(* began has had a turn, whoever joined, left, came back, went down, was    *)
(* revived or re-rolled meanwhile, if removals undone late leave later lair *)
(* slots alone.                                                             *)
THEOREM NobodyPassedOver ==
    ASSUME "stale_resume" \notin Env
    PROVE  Spec => NobodyIsPassedOver
<1>1. Init => GoInv
  <2> SUFFICES ASSUME Init PROVE GoInv
    OBVIOUS
  <2>1. /\ init \in [Combatant -> Nat] /\ roster \in SUBSET Combatant /\ roster # {}
        /\ NoOne \notin Combatant
    <3>1. roster # {}
      BY GroupsAreCombatants DEF Init
    <3> QED
      BY <3>1, BaseInit, BaseFacts DEF BaseInv
  <2>2. PICK seq : seq = Sorted(roster, init)
    OBVIOUS
  <2>3. IsOrder(seq, roster, init)
    BY <2>1, <2>2, SortedIsOrder
  <2>4. /\ Len(seq) \in Nat /\ Len(seq) # 0
        /\ \A k \in 1..Len(seq) : seq[k] \in roster
        /\ \A b \in roster : \E k \in 1..Len(seq) : seq[k] = b
        /\ \A j, k \in 1..Len(seq) : Precedes(seq[j], seq[k], init) <=> j < k
    BY <2>1, <2>3, OrderPlaces DEF IsOrder
  <2>5. seq[1] \in roster /\ \A b \in roster : ~Precedes(b, seq[1], init)
    BY <2>4
  <2>6. /\ ready = roster /\ down = {} /\ receipt.who = NoOne
        /\ \/ enc.phase = "lair" /\ enc.resume = seq[1]
           \/ enc.phase # "lair" /\ enc.current = seq[1] /\ acted = {seq[1]}
    BY <2>2 DEF Init, NoReceipt
  <2>7. seq[1] # NoOne
    BY <2>1, <2>5
  <2>8. TurnDone(enc, ready, acted, init)
    BY <2>5, <2>6, <2>7 DEF TurnDone, Done
  <2> QED
    BY <2>6, <2>8 DEF GoInv, LateSlotDone
<1>2. BaseInv /\ ResumeInv /\ GoInv /\ [Next]_vars => GoInv' /\ [Passes]_vars
  BY GoStep
<1> QED
  BY <1>1, <1>2, BaseHolds, ResumeHolds, PTL DEF Spec, NobodyIsPassedOver, Passes
=============================================================================
