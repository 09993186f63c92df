--------------------------- MODULE AlgorithmProofs ---------------------------
(***************************************************************************)
(* The pure computations, for every input: the geometry of the bracket for *)
(* every field size, split_placements for every pool and every split       *)
(* validate_custom lets through, and seed_permutation for every field and  *)
(* every stream of numbers.                                                *)
(***************************************************************************)
EXTENDS Bracket, Payout, Seeding, FiniteSets, FiniteSetTheorems, FunctionTheorems,
        WellFoundedInduction, TLAPS

(***************************************************************************)
(* The bracket                                                             *)
(***************************************************************************)

\* The powers of two of Bracket, one by one.
LEMMA PowersListed == PowersOfTwo = {1, 2, 4, 8, 16, 32, 64, 128}
<1>1. 0..7 = {0, 1, 2, 3, 4, 5, 6, 7}  OBVIOUS
<1>2. /\ Pow2(0) = 1 /\ Pow2(1) = 2 /\ Pow2(2) = 4 /\ Pow2(3) = 8
      /\ Pow2(4) = 16 /\ Pow2(5) = 32 /\ Pow2(6) = 64 /\ Pow2(7) = 128
  BY DEF Pow2
<1>3. \A x : x \in PowersOfTwo <=> \E k \in {0, 1, 2, 3, 4, 5, 6, 7} : x = Pow2(k)
  BY <1>1 DEF PowersOfTwo
<1>4. \A x : x \in PowersOfTwo <=> x \in {1, 2, 4, 8, 16, 32, 64, 128}
  BY <1>2, <1>3, SMT
<1>5. QED  BY <1>4

LEMMA RoundsListed ==
  ASSUME NEW size \in PowersOfTwo
  PROVE  MaxRound(size) \in 0..7 /\ Pow2(MaxRound(size)) = size
<1>1. \E k \in 0..7 : Pow2(k) = size  BY Zenon DEF PowersOfTwo
<1>2. QED  BY <1>1, Zenon DEF MaxRound

(***************************************************************************)
(* start_tournament's bracket_size exists for every field the program      *)
(* accepts, holds every entrant, and has no more empty slots than          *)
(* opponents: more than half of it is filled.                              *)
(***************************************************************************)
THEOREM BracketSizeFits ==
  ASSUME NEW n \in MIN_PARTICIPANTS..MAX_PARTICIPANTS
  PROVE  /\ BracketSize(n) \in PowersOfTwo
         /\ n <= BracketSize(n) /\ BracketSize(n) < 2 * n
<1>1. \E size \in PowersOfTwo : n <= size /\ size < 2 * n
  BY PowersListed DEF MIN_PARTICIPANTS, MAX_PARTICIPANTS
<1>2. QED  BY <1>1, Zenon DEF BracketSize

(***************************************************************************)
(* round0_expected never asks for a rank that no entrant holds on the      *)
(* player_a side, never pairs two byes and never pairs a rank with itself. *)
(***************************************************************************)
THEOREM NoDoubleBye ==
  ASSUME NEW n \in MIN_PARTICIPANTS..MAX_PARTICIPANTS,
         NEW m \in 0..(BracketSize(n) \div 2 - 1)
  PROVE  /\ m \in 0..(n - 1)
         /\ OpponentRank(m, BracketSize(n)) \in 0..(BracketSize(n) - 1)
         /\ OpponentRank(m, BracketSize(n)) # m
         /\ IsBye(m, BracketSize(n), n) => m < BracketSize(n) - n
<1> DEFINE size == BracketSize(n)
<1>1. size \in PowersOfTwo /\ n <= size /\ size < 2 * n  BY BracketSizeFits
<1>2. size \in {1, 2, 4, 8, 16, 32, 64, 128}  BY <1>1, PowersListed
<1>3. size # 1  BY <1>1, <1>2 DEF MIN_PARTICIPANTS
<1>4. size \in {2, 4, 8, 16, 32, 64, 128}  BY <1>2, <1>3
<1> HIDE DEF size
<1>5. m \in 0..(size \div 2 - 1)  BY DEF size
<1>6. QED
  BY <1>1, <1>4, <1>5 DEF OpponentRank, IsBye, MIN_PARTICIPANTS, MAX_PARTICIPANTS, size

(***************************************************************************)
(* Every seed rank of the field is on exactly one side of exactly one      *)
(* first-round match, so the draw loses nobody and doubles nobody.         *)
(***************************************************************************)
THEOREM RankHasOneMatch ==
  ASSUME NEW n \in MIN_PARTICIPANTS..MAX_PARTICIPANTS, NEW rank \in 0..(n - 1)
  PROVE  \E m \in 0..(BracketSize(n) \div 2 - 1) :
           \A other \in 0..(BracketSize(n) \div 2 - 1) :
             (rank \in {other, OpponentRank(other, BracketSize(n))}) <=> (other = m)
<1> DEFINE size == BracketSize(n)
           half == size \div 2
           m == IF rank < half THEN rank ELSE size - 1 - rank
<1>1. size \in PowersOfTwo /\ n <= size /\ size < 2 * n  BY BracketSizeFits
<1>2. size \in {1, 2, 4, 8, 16, 32, 64, 128}  BY <1>1, PowersListed
<1>3. size # 1  BY <1>1, <1>2 DEF MIN_PARTICIPANTS
<1>4. size \in {2, 4, 8, 16, 32, 64, 128}  BY <1>2, <1>3
<1>5. size = 2 * half /\ half \in Nat /\ size \in Nat  BY <1>4
<1>6. rank \in Nat /\ rank < size  BY <1>1, <1>5 DEF MIN_PARTICIPANTS
<1> HIDE DEF size, half
<1>7. m \in 0..(half - 1)  BY <1>5, <1>6
<1>8. ASSUME NEW other \in 0..(half - 1)
      PROVE  (rank \in {other, size - 1 - other}) <=> (other = m)
  BY <1>5, <1>6
<1>9. QED  BY <1>7, <1>8 DEF OpponentRank, size, half

\* The match PDAs of a tournament are finitely many.
LEMMA MatchIdsFinite ==
  ASSUME NEW lanes, IsFiniteSet(lanes), NEW size \in PowersOfTwo
  PROVE  IsFiniteSet(MatchIds(lanes, size))
<1> DEFINE R == 0..(MaxRound(size) - 1)
           I == 0..(size \div 2 - 1)
           P == (lanes \X R) \X I
           T == [lane : lanes, round : R, index : I]
           f == [x \in P |-> [lane |-> x[1][1], round |-> x[1][2], index |-> x[2]]]
<1>1. size \in Nat  BY PowersListed
<1>2. MaxRound(size) \in 0..7  BY RoundsListed
<1>3. IsFiniteSet(R)  BY <1>2, FS_Interval
<1>4. IsFiniteSet(I)  BY <1>1, FS_Interval
<1> HIDE DEF R, I
<1>5. IsFiniteSet(lanes \X R)  BY <1>3, FS_Product
<1>6. IsFiniteSet(P)  BY <1>4, <1>5, FS_Product
<1>7. f \in Surjection(P, T)
  <2>1. f \in [P -> T]  OBVIOUS
  <2>2. ASSUME NEW t \in T  PROVE \E x \in P : f[x] = t
    <3>1. <<<<t.lane, t.round>>, t.index>> \in P  OBVIOUS
    <3>2. f[<<<<t.lane, t.round>>, t.index>>] = t  BY <3>1
    <3>3. QED  BY <3>1, <3>2
  <2>3. QED  BY <2>1, <2>2, Fun_IsSurj
<1> HIDE DEF P, T, f
<1>8. IsFiniteSet(T)  BY <1>6, <1>7, FS_Surjection
<1>9. MatchIds(lanes, size) \subseteq T  BY DEF MatchIds, T, R, I
<1>10. QED  BY <1>8, <1>9, FS_Subset

\* The rounds of a bracket halve, from half of its size down to the final.
LEMMA RoundsHalve ==
  ASSUME NEW size \in PowersOfTwo
  PROVE  /\ \A r \in 0..(MaxRound(size) - 1) :
              /\ MatchesInRound(size, r) \in Nat /\ MatchesInRound(size, r) >= 1
              /\ MatchesInRound(size, r) <= size \div 2
              /\ 2 * MatchesInRound(size, r) <= size
              /\ r + 1 = MaxRound(size) => MatchesInRound(size, r) = 1
         /\ \A r \in 0..(MaxRound(size) - 2) :
              MatchesInRound(size, r) = 2 * MatchesInRound(size, r + 1)
         /\ \A r, s \in 0..(MaxRound(size) - 1) :
              r < s => 2 * MatchesInRound(size, s) <= MatchesInRound(size, r)
         /\ \A k \in 1..(size - 1) : \E r \in 0..(MaxRound(size) - 1) :
              MatchesInRound(size, r) <= k /\ k < 2 * MatchesInRound(size, r)
<1> DEFINE top == MaxRound(size)
           w(r) == MatchesInRound(size, r)
<1>1. top \in 0..7 /\ Pow2(top) = size  BY RoundsListed
<1>2. /\ Pow2(0) = 1 /\ Pow2(1) = 2 /\ Pow2(2) = 4 /\ Pow2(3) = 8
      /\ Pow2(4) = 16 /\ Pow2(5) = 32 /\ Pow2(6) = 64 /\ Pow2(7) = 128
  BY DEF Pow2
<1>3. /\ w(0) = size \div 2 /\ w(1) = size \div 4 /\ w(2) = size \div 8 /\ w(3) = size \div 16
      /\ w(4) = size \div 32 /\ w(5) = size \div 64 /\ w(6) = size \div 128
  BY <1>2 DEF MatchesInRound
<1> DEFINE Goal == 
         /\ \A r \in 0..(top - 1) :
              /\ w(r) \in Nat /\ w(r) >= 1
              /\ w(r) <= size \div 2
              /\ 2 * w(r) <= size
              /\ r + 1 = top => w(r) = 1
         /\ \A r \in 0..(top - 2) : w(r) = 2 * w(r + 1)
         /\ \A r, s \in 0..(top - 1) : r < s => 2 * w(s) <= w(r)
         /\ \A k \in 1..(size - 1) : \E r \in 0..(top - 1) : w(r) <= k /\ k < 2 * w(r)
<1> SUFFICES Goal  OBVIOUS
<1> HIDE DEF top, w
<1>10. CASE top = 0
  BY <1>1, <1>2, <1>10
<1>11. CASE top = 1
  <2> size = 2 BY <1>1, <1>2, <1>11
  <2> w(0) = 1 BY <1>3
  <2> QED BY <1>11
<1>12. CASE top = 2
  <2> size = 4 BY <1>1, <1>2, <1>12
  <2> w(0) = 2 /\ w(1) = 1 BY <1>3
  <2> QED BY <1>12
<1>13. CASE top = 3
  <2> size = 8 BY <1>1, <1>2, <1>13
  <2> w(0) = 4 /\ w(1) = 2 /\ w(2) = 1 BY <1>3
  <2> QED BY <1>13
<1>14. CASE top = 4
  <2> size = 16 BY <1>1, <1>2, <1>14
  <2> w(0) = 8 /\ w(1) = 4 /\ w(2) = 2 /\ w(3) = 1 BY <1>3
  <2> QED BY <1>14
<1>15. CASE top = 5
  <2> size = 32 BY <1>1, <1>2, <1>15
  <2> w(0) = 16 /\ w(1) = 8 /\ w(2) = 4 /\ w(3) = 2 /\ w(4) = 1 BY <1>3
  <2> QED BY <1>15
<1>16. CASE top = 6
  <2> size = 64 BY <1>1, <1>2, <1>16
  <2> w(0) = 32 /\ w(1) = 16 /\ w(2) = 8 /\ w(3) = 4 /\ w(4) = 2 /\ w(5) = 1 BY <1>3
  <2> QED BY <1>16
<1>17. CASE top = 7
  <2> size = 128 BY <1>1, <1>2, <1>17
  <2> w(0) = 64 /\ w(1) = 32 /\ w(2) = 16 /\ w(3) = 8 /\ w(4) = 4 /\ w(5) = 2 /\ w(6) = 1
    BY <1>3
  <2> QED BY <1>17
<1>18. top \in {0, 1, 2, 3, 4, 5, 6, 7}  BY <1>1
<1> HIDE DEF Goal
<1>19. QED  BY <1>10, <1>11, <1>12, <1>13, <1>14, <1>15, <1>16, <1>17, <1>18

\* The fields of a match of the bracket.
LEMMA MatchFields ==
  ASSUME NEW lanes, NEW size \in PowersOfTwo, NEW m \in MatchIds(lanes, size)
  PROVE  /\ m = [lane |-> m.lane, round |-> m.round, index |-> m.index]
         /\ m.lane \in lanes /\ m.round \in Nat /\ m.index \in Nat
         /\ m.round < MaxRound(size)
<1>1. MaxRound(size) \in 0..7  BY RoundsListed
<1>2. size \in Nat  BY PowersListed
<1>3. m \in [lane : lanes, round : 0..(MaxRound(size) - 1), index : 0..(size \div 2 - 1)]
  BY DEF MatchIds
<1>4. QED  BY <1>1, <1>2, <1>3

\* Every match past the first round has its two feeders in the bracket.
LEMMA FeedersExist ==
  ASSUME NEW lanes, NEW size \in PowersOfTwo, NEW m \in MatchIds(lanes, size), m.round # 0
  PROVE  \A left \in BOOLEAN : \E feeder \in MatchIds(lanes, size) :
           /\ FeedsInto(feeder, m) /\ (IsLeftChild(feeder) <=> left)
           /\ feeder.round < m.round
<1> DEFINE r == m.round - 1
           top == MaxRound(size)
<1>1. /\ m.lane \in lanes /\ m.round \in Nat /\ m.index \in Nat /\ m.round < top
      /\ m.index < MatchesInRound(size, m.round)
      /\ top \in 0..7 /\ size \in Nat
  BY MatchFields, RoundsListed, PowersListed DEF MatchIds
<1>2. r \in 0..(top - 1) /\ m.round \in 0..(top - 1) /\ r < m.round  BY <1>1
<1>3. /\ 2 * MatchesInRound(size, m.round) <= MatchesInRound(size, r)
      /\ MatchesInRound(size, r) <= size \div 2
      /\ MatchesInRound(size, r) \in Nat /\ MatchesInRound(size, m.round) \in Nat
  BY <1>2, RoundsHalve
<1> HIDE DEF top, r
<1>4. ASSUME NEW i \in Nat, i < MatchesInRound(size, r), i \div 2 = m.index
      PROVE  /\ [lane |-> m.lane, round |-> r, index |-> i] \in MatchIds(lanes, size)
             /\ FeedsInto([lane |-> m.lane, round |-> r, index |-> i], m)
             /\ r < m.round
  <2>1. i \in 0..(size \div 2 - 1)  BY <1>1, <1>3, <1>4
  <2>2. m.round = r + 1  BY <1>1 DEF r
  <2>3. QED  BY <1>1, <1>2, <1>4, <2>1, <2>2 DEF MatchIds, FeedsInto, top
<1>5. /\ (2 * m.index) \div 2 = m.index /\ (2 * m.index) % 2 = 0
      /\ (2 * m.index + 1) \div 2 = m.index /\ (2 * m.index + 1) % 2 # 0
      /\ 2 * m.index \in Nat /\ 2 * m.index + 1 \in Nat
      /\ 2 * m.index < MatchesInRound(size, r) /\ 2 * m.index + 1 < MatchesInRound(size, r)
  BY <1>1, <1>3
<1>6. ASSUME NEW left \in BOOLEAN
      PROVE  \E feeder \in MatchIds(lanes, size) :
               /\ FeedsInto(feeder, m) /\ (IsLeftChild(feeder) <=> left)
               /\ feeder.round < m.round
  <2>1. CASE left
    <3> DEFINE feeder == [lane |-> m.lane, round |-> r, index |-> 2 * m.index]
    <3>1. /\ feeder \in MatchIds(lanes, size) /\ FeedsInto(feeder, m)
          /\ feeder.round < m.round /\ IsLeftChild(feeder)
      BY <1>4, <1>5 DEF IsLeftChild
    <3>2. QED  BY <2>1, <3>1
  <2>2. CASE ~left
    <3> DEFINE feeder == [lane |-> m.lane, round |-> r, index |-> 2 * m.index + 1]
    <3>1. /\ feeder \in MatchIds(lanes, size) /\ FeedsInto(feeder, m)
          /\ feeder.round < m.round /\ ~IsLeftChild(feeder)
      BY <1>4, <1>5 DEF IsLeftChild
    <3>2. QED  BY <2>2, <3>1
  <2>3. QED  BY <2>1, <2>2
<1>7. QED  BY <1>6

\* Every lane has its final.
LEMMA TheFinal ==
  ASSUME NEW lanes, NEW lane \in lanes, NEW size \in PowersOfTwo, size >= 2
  PROVE  \E m \in MatchIds(lanes, size) : m.lane = lane /\ IsFinal(m, size)
<1>2. MaxRound(size) \in 1..7
  <2>1. MaxRound(size) # 0  BY RoundsListed DEF Pow2
  <2>2. QED  BY <2>1, RoundsListed
<1> DEFINE r == MaxRound(size) - 1
           m == [lane |-> lane, round |-> r, index |-> 0]
<1>3. r \in 0..(MaxRound(size) - 1) /\ r + 1 = MaxRound(size)  BY <1>2
<1>4. MatchesInRound(size, r) = 1  BY <1>3, RoundsHalve
<1>5. size \in Nat  BY PowersListed
<1>6. 0 \in 0..(size \div 2 - 1)  BY <1>5
<1>7. m \in MatchIds(lanes, size)  BY <1>3, <1>4, <1>6 DEF MatchIds
<1>8. IsFinal(m, size)  BY <1>3 DEF IsFinal
<1>9. QED  BY <1>7, <1>8

\* The matches of one lane: each feeds one other, and a slot has one feeder.
LEMMA OneWayUp ==
  ASSUME NEW lane, NEW a \in [lane : {lane}, round : Nat, index : Nat],
         NEW b \in [lane : {lane}, round : Nat, index : Nat],
         NEW c \in [lane : {lane}, round : Nat, index : Nat]
  PROVE  /\ FeedsInto(a, b) /\ FeedsInto(a, c) => b = c
         /\ FeedsInto(a, c) /\ FeedsInto(b, c) /\ (IsLeftChild(a) <=> IsLeftChild(b)) => a = b
         /\ FeedsInto(a, b) => a # b /\ ~FeedsInto(b, a) /\ b.round > 0
<1>1. a.lane = b.lane /\ b.lane = c.lane  OBVIOUS
<1>2. /\ a = [lane |-> a.lane, round |-> a.round, index |-> a.index]
      /\ b = [lane |-> b.lane, round |-> b.round, index |-> b.index]
      /\ c = [lane |-> c.lane, round |-> c.round, index |-> c.index]
      /\ a.round \in Nat /\ b.round \in Nat /\ c.round \in Nat
      /\ a.index \in Nat /\ b.index \in Nat /\ c.index \in Nat
  OBVIOUS
<1>3. FeedsInto(a, b) /\ FeedsInto(a, c) => b = c
  BY <1>1, <1>2 DEF FeedsInto
<1>4. ASSUME FeedsInto(a, c), FeedsInto(b, c), IsLeftChild(a) <=> IsLeftChild(b)
      PROVE  a = b
  <2>1. a.round = b.round  BY <1>2, <1>4 DEF FeedsInto
  <2>2. a.index \div 2 = b.index \div 2  BY <1>4 DEF FeedsInto
  <2>3. (a.index % 2 = 0) <=> (b.index % 2 = 0)  BY <1>4 DEF IsLeftChild
  <2>4. \A x, y \in Nat :
          x \div 2 = y \div 2 /\ ((x % 2 = 0) <=> (y % 2 = 0)) => x = y
    BY SMT
  <2>5. a.index = b.index  BY <1>2, <2>2, <2>3, <2>4
  <2>6. QED  BY <1>1, <1>2, <2>1, <2>5
<1>5. FeedsInto(a, b) => a # b /\ ~FeedsInto(b, a) /\ b.round > 0
  BY <1>2 DEF FeedsInto
<1>6. QED  BY <1>3, <1>4, <1>5

\* Every match but the final has one to feed.
LEMMA ParentExists ==
  ASSUME NEW lanes, NEW size \in PowersOfTwo, NEW m \in MatchIds(lanes, size),
         ~IsFinal(m, size)
  PROVE  \E next \in MatchIds(lanes, size) : next.lane = m.lane /\ FeedsInto(m, next)
<1> DEFINE top == MaxRound(size)
           r == m.round
           next == [lane |-> m.lane, round |-> r + 1, index |-> m.index \div 2]
<1>1. /\ m.lane \in lanes /\ r \in Nat /\ m.index \in Nat /\ r < top
      /\ m.index < MatchesInRound(size, r)
      /\ top \in 0..7 /\ size \in Nat
  BY MatchFields, RoundsListed, PowersListed DEF MatchIds
<1>2. r + 1 # top
  <2>1. CASE r + 1 = top
    <3>1. r \in 0..(top - 1)  BY <1>1
    <3>2. MatchesInRound(size, r) = 1  BY <2>1, <3>1, RoundsHalve
    <3>3. m.index = 0  BY <1>1, <3>2
    <3>4. QED  BY <2>1, <3>3 DEF IsFinal
  <2>2. QED  BY <2>1
<1>3. r \in 0..(top - 2) /\ r + 1 \in 0..(top - 1)  BY <1>1, <1>2
<1>4. /\ MatchesInRound(size, r) = 2 * MatchesInRound(size, r + 1)
      /\ MatchesInRound(size, r + 1) \in Nat /\ MatchesInRound(size, r + 1) <= size \div 2
  BY <1>3, RoundsHalve
<1> HIDE DEF top, r
<1>5. m.index \div 2 \in Nat /\ m.index \div 2 < MatchesInRound(size, r + 1)
  BY <1>1, <1>4
<1>6. m.index \div 2 \in 0..(size \div 2 - 1)  BY <1>1, <1>4, <1>5
<1>7. next \in MatchIds(lanes, size)  BY <1>1, <1>3, <1>5, <1>6 DEF MatchIds, top
<1>8. FeedsInto(m, next)  BY <1>1 DEF FeedsInto, r
<1>9. QED  BY <1>7, <1>8

(***************************************************************************)
(* A lane of a bracket has one match fewer than it has slots, the number   *)
(* start_tournament waits for before the tournament becomes Active.        *)
(***************************************************************************)
THEOREM OneLessThanItsSlots ==
  ASSUME NEW lane, NEW size \in PowersOfTwo
  PROVE  /\ IsFiniteSet(MatchIds({lane}, size))
         /\ Cardinality(MatchIds({lane}, size)) = size - 1
<1> DEFINE M == MatchIds({lane}, size)
           w(r) == MatchesInRound(size, r)
           top == MaxRound(size)
           f == [id \in M |-> w(id.round) + id.index]
<1>1. /\ \A r \in 0..(top - 1) : /\ w(r) \in Nat /\ w(r) >= 1 /\ w(r) <= size \div 2
                                 /\ 2 * w(r) <= size
      /\ \A r, s \in 0..(top - 1) : r < s => 2 * w(s) <= w(r)
      /\ \A k \in 1..(size - 1) : \E r \in 0..(top - 1) : w(r) <= k /\ k < 2 * w(r)
  BY RoundsHalve
<1>2. size \in Nat /\ size >= 1  BY PowersListed
<1>3. M = {id \in [lane : {lane}, round : 0..(top - 1), index : 0..(size \div 2 - 1)] :
              id.index < w(id.round)}
  BY DEF MatchIds
<1>4. top \in Nat  BY RoundsListed
<1> HIDE DEF M, w, top
<1>5. \A id \in M : /\ id = [lane |-> lane, round |-> id.round, index |-> id.index]
                    /\ id.round \in 0..(top - 1) /\ id.index \in Nat /\ id.index < w(id.round)
                    /\ w(id.round) \in Nat /\ w(id.round) >= 1 /\ 2 * w(id.round) <= size
  BY <1>1, <1>2, <1>3, <1>4
<1>6. f \in [M -> 1..(size - 1)]
  <2>1. \A id \in M : w(id.round) + id.index \in 1..(size - 1)  BY <1>2, <1>5
  <2>2. QED  BY <2>1
<1>7. ASSUME NEW a \in M, NEW b \in M, f[a] = f[b]  PROVE a = b
  <2>1. w(a.round) + a.index = w(b.round) + b.index  BY <1>7
  <2>2. a.round = b.round
    <3>1. ~(a.round < b.round)  BY <1>1, <1>4, <1>5, <2>1
    <3>2. ~(b.round < a.round)  BY <1>1, <1>4, <1>5, <2>1
    <3>3. a.round \in Int /\ b.round \in Int  BY <1>4, <1>5
    <3>4. QED  BY <3>1, <3>2, <3>3
  <2>3. a.index = b.index  BY <1>5, <2>1, <2>2
  <2>4. QED  BY <1>5, <2>2, <2>3
<1>8. ASSUME NEW k \in 1..(size - 1)  PROVE \E id \in M : f[id] = k
  <2>1. PICK r \in 0..(top - 1) : w(r) <= k /\ k < 2 * w(r)  BY <1>1
  <2>2. w(r) \in Nat /\ w(r) <= size \div 2  BY <1>1
  <2> DEFINE id == [lane |-> lane, round |-> r, index |-> k - w(r)]
  <2>3. k - w(r) \in Nat /\ k - w(r) < w(r)  BY <1>2, <2>1, <2>2
  <2>4. k - w(r) \in 0..(size \div 2 - 1)  BY <1>2, <2>2, <2>3
  <2>5. id \in M  BY <1>3, <2>3, <2>4
  <2>6. f[id] = k  BY <1>2, <2>2, <2>5
  <2>7. QED  BY <2>5, <2>6
<1>9. f \in Bijection(M, 1..(size - 1))
  <2>1. f \in Injection(M, 1..(size - 1))  BY <1>6, <1>7, Fun_IsInj
  <2>2. f \in Surjection(M, 1..(size - 1))  BY <1>6, <1>8, Fun_IsSurj
  <2>3. QED  BY <2>1, <2>2 DEF Bijection
<1> HIDE DEF f
<1>10. IsFiniteSet(M)  BY MatchIdsFinite, FS_Singleton DEF M
<1>11. Cardinality(M) = Cardinality(1..(size - 1))
  <2>1. ExistsBijection(M, 1..(size - 1))  BY <1>9 DEF ExistsBijection
  <2>2. QED  BY <1>10, <2>1, FS_Bijection
<1>12. Cardinality(1..(size - 1)) = size - 1
  BY <1>2, FS_Interval
<1>13. QED  BY <1>10, <1>11, <1>12 DEF M

\* The first round of a lane: half as many matches as slots.
LEMMA RoundZero ==
  ASSUME NEW lane, NEW size \in PowersOfTwo, size >= 2
  PROVE  \A id : (id \in MatchIds({lane}, size) /\ id.round = 0)
                   <=> \E k \in 0..(size \div 2 - 1) : id = [lane |-> lane, round |-> 0, index |-> k]
<1>1. MaxRound(size) \in 1..7
  <2>1. MaxRound(size) # 0  BY RoundsListed DEF Pow2
  <2>2. QED  BY <2>1, RoundsListed
<1>2. MatchesInRound(size, 0) = size \div 2
  BY DEF MatchesInRound, Pow2
<1>3. ASSUME NEW id, id \in MatchIds({lane}, size), id.round = 0
      PROVE  id.index \in 0..(size \div 2 - 1)
             /\ id = [lane |-> lane, round |-> 0, index |-> id.index]
  BY <1>3, MatchFields DEF MatchIds
<1>4. ASSUME NEW k \in 0..(size \div 2 - 1)
      PROVE  [lane |-> lane, round |-> 0, index |-> k] \in MatchIds({lane}, size)
  <2>1. size \in Nat  BY PowersListed
  <2>2. k < size \div 2 /\ 0 \in 0..(MaxRound(size) - 1)  BY <1>1, <2>1
  <2>3. QED  BY <1>2, <2>2 DEF MatchIds
<1>5. ASSUME NEW id, NEW k \in 0..(size \div 2 - 1), id = [lane |-> lane, round |-> 0, index |-> k]
      PROVE  id \in MatchIds({lane}, size) /\ id.round = 0
  BY <1>4, <1>5
<1>6. QED  BY <1>3, <1>5

(***************************************************************************)
(* The payout: nobody is short-changed and not a token is lost or made.    *)
(***************************************************************************)

\* The eight prizes always add up to the pool they were cut from.
THEOREM SplitAddsUp ==
  ASSUME NEW net \in Int, NEW bps \in [Slots -> Int], NEW count \in Int
  PROVE  /\ split_placements(net, bps, count) \in [Slots -> Int]
         /\ LowerSum(net, bps, count) \in Int
         /\ SlotSum(split_placements(net, bps, count)) = net
<1> DEFINE floor(i) == FlooredShare(net, bps, count, i)
<1>1. Slots = {1, 2, 3, 4, 5, 6, 7, 8}  BY DEF Slots, MAX_PAYOUT_SLOTS
<1>2. \A i \in Slots : floor(i) \in Int
  BY <1>1 DEF FlooredShare, BPS_DENOMINATOR
<1> HIDE DEF floor
<1>3. LowerSum(net, bps, count)
        = floor(2) + floor(3) + floor(4) + floor(5) + floor(6) + floor(7) + floor(8)
  BY <1>1, <1>2 DEF LowerSum, SlotSum, floor
<1>4. LowerSum(net, bps, count) \in Int  BY <1>1, <1>2, <1>3
<1>5. split_placements(net, bps, count) \in [Slots -> Int]
  BY <1>1, <1>2, <1>4 DEF split_placements, floor
<1>6. SlotSum(split_placements(net, bps, count))
        = (net - LowerSum(net, bps, count))
            + floor(2) + floor(3) + floor(4) + floor(5) + floor(6) + floor(7) + floor(8)
  BY <1>1 DEF split_placements, SlotSum, floor
<1>7. QED  BY <1>1, <1>2, <1>3, <1>4, <1>5, <1>6

LEMMA NaturalProduct ==
  ASSUME NEW a \in Nat, NEW b \in Nat
  PROVE  a * b \in Nat
BY SMT

LEMMA TimesDifference ==
  ASSUME NEW a \in Int, NEW b \in Int, NEW c \in Int
  PROVE  /\ a * (b - c) = a * b - a * c
         /\ a * (b + 1) = a * b + a
         /\ a * b \in Int
BY SMT

\* Multiplication distributes over the eight slots.
LEMMA SlotProduct ==
  ASSUME NEW net \in Int, NEW a1 \in Int, NEW a2 \in Int, NEW a3 \in Int, NEW a4 \in Int,
         NEW a5 \in Int, NEW a6 \in Int, NEW a7 \in Int, NEW a8 \in Int
  PROVE  net * (a1 + a2 + a3 + a4 + a5 + a6 + a7 + a8)
           = net * a1 + net * a2 + net * a3 + net * a4
               + net * a5 + net * a6 + net * a7 + net * a8
BY SMT

\* The floor of a share, multiplied back, is within one token of the share.
LEMMA FloorBounds ==
  ASSUME NEW x \in Nat
  PROVE  /\ x \div BPS_DENOMINATOR \in Nat
         /\ BPS_DENOMINATOR * (x \div BPS_DENOMINATOR) <= x
         /\ x < BPS_DENOMINATOR * (x \div BPS_DENOMINATOR) + BPS_DENOMINATOR
BY DEF BPS_DENOMINATOR

(***************************************************************************)
(* For a valid split no place gets more than its share, the lower places   *)
(* together never exceed the pool (the checked_sub in split_placements     *)
(* cannot fail), and the champion, who takes the rest, never falls below   *)
(* the share the preset promises.                                          *)
(***************************************************************************)
THEOREM SplitIsFair ==
  ASSUME NEW net \in Nat, NEW bps \in [Slots -> Nat], ValidSplit(bps), NEW count \in Slots
  PROVE  /\ LowerSum(net, bps, count) \in 0..net
         /\ split_placements(net, bps, count)[1] >= FlooredShare(net, bps, count, 1)
         /\ \A i \in Slots \ {1} :
              BPS_DENOMINATOR * split_placements(net, bps, count)[i] <= net * bps[i]
<1> DEFINE x(i) == net * bps[i]
           floor(i) == FlooredShare(net, bps, count, i)
<1>1. Slots = {1, 2, 3, 4, 5, 6, 7, 8}  BY DEF Slots, MAX_PAYOUT_SLOTS
<1>2. \A i \in Slots : bps[i] \in Nat  OBVIOUS
<1>3. ASSUME NEW i \in Slots  PROVE x(i) \in Nat
  BY <1>2
<1>4. ASSUME NEW i \in Slots
      PROVE  floor(i) \in Nat /\ BPS_DENOMINATOR * floor(i) <= x(i)
  <2>1. /\ x(i) \div BPS_DENOMINATOR \in Nat
        /\ BPS_DENOMINATOR * (x(i) \div BPS_DENOMINATOR) <= x(i)
    BY <1>3, FloorBounds
  <2>2. floor(i) = IF i <= count THEN x(i) \div BPS_DENOMINATOR ELSE 0
    BY DEF FlooredShare
  <2> HIDE DEF x, floor
  <2>3. x(i) \in Nat  BY <1>3
  <2>4. QED  BY <2>1, <2>2, <2>3 DEF BPS_DENOMINATOR
<1>5. x(1) + x(2) + x(3) + x(4) + x(5) + x(6) + x(7) + x(8) = net * BPS_DENOMINATOR
  <2>1. bps[1] + bps[2] + bps[3] + bps[4] + bps[5] + bps[6] + bps[7] + bps[8] = BPS_DENOMINATOR
    BY DEF ValidSplit, SlotSum
  <2>2. /\ bps[1] \in Int /\ bps[2] \in Int /\ bps[3] \in Int /\ bps[4] \in Int
        /\ bps[5] \in Int /\ bps[6] \in Int /\ bps[7] \in Int /\ bps[8] \in Int
    BY <1>1, <1>2
  <2>3. net * (bps[1] + bps[2] + bps[3] + bps[4] + bps[5] + bps[6] + bps[7] + bps[8])
          = x(1) + x(2) + x(3) + x(4) + x(5) + x(6) + x(7) + x(8)
    BY <2>2, SlotProduct
  <2>4. QED  BY <2>1, <2>3
<1>6. LowerSum(net, bps, count)
        = floor(2) + floor(3) + floor(4) + floor(5) + floor(6) + floor(7) + floor(8)
  <2> HIDE DEF x
  <2>1. \A i \in Slots : floor(i) \in Nat  BY <1>4
  <2>2. QED  BY <1>1, <2>1 DEF LowerSum, SlotSum
<1> HIDE DEF x, floor
<1>7. /\ floor(1) \in Nat /\ floor(2) \in Nat /\ floor(3) \in Nat /\ floor(4) \in Nat
      /\ floor(5) \in Nat /\ floor(6) \in Nat /\ floor(7) \in Nat /\ floor(8) \in Nat
      /\ x(1) \in Nat /\ x(2) \in Nat /\ x(3) \in Nat /\ x(4) \in Nat
      /\ x(5) \in Nat /\ x(6) \in Nat /\ x(7) \in Nat /\ x(8) \in Nat
      /\ BPS_DENOMINATOR * floor(1) <= x(1) /\ BPS_DENOMINATOR * floor(2) <= x(2)
      /\ BPS_DENOMINATOR * floor(3) <= x(3) /\ BPS_DENOMINATOR * floor(4) <= x(4)
      /\ BPS_DENOMINATOR * floor(5) <= x(5) /\ BPS_DENOMINATOR * floor(6) <= x(6)
      /\ BPS_DENOMINATOR * floor(7) <= x(7) /\ BPS_DENOMINATOR * floor(8) <= x(8)
  BY <1>1, <1>3, <1>4
<1>8. floor(1) + LowerSum(net, bps, count) <= net /\ LowerSum(net, bps, count) \in Nat
  BY <1>5, <1>6, <1>7 DEF BPS_DENOMINATOR
<1>9. split_placements(net, bps, count)[1] = net - LowerSum(net, bps, count)
  BY <1>1 DEF split_placements
<1>10. \A i \in Slots \ {1} : split_placements(net, bps, count)[i] = floor(i)
  BY <1>1 DEF split_placements, floor
<1>11. split_placements(net, bps, count)[1] >= floor(1)
  BY <1>7, <1>8, <1>9
<1>12. QED  BY <1>4, <1>7, <1>8, <1>10, <1>11 DEF floor, x

(***************************************************************************)
(* Induction, from the well-foundedness of the order of the numbers.       *)
(***************************************************************************)
\* A set of numbers that is not empty has a smallest one.
LEMMA LeastNumber ==
  ASSUME NEW T \in SUBSET Nat, T # {}
  PROVE  \E x \in T : \A y \in T : x <= y
<1>1. PICK R : R = {ss \in Nat \X Nat : ss[1] < ss[2]}
  OBVIOUS
<1>2. IsWellFoundedOn(R, Nat)
  BY <1>1, NatLessThanWellFounded DEF OpToRel
<1>3. PICK x \in T : \A y \in T : ~(<<y, x>> \in R)
  BY <1>2, WFMin
<1>4. ASSUME NEW y \in T  PROVE x <= y
  <2>1. ~(<<y, x>> \in R)  BY <1>3
  <2>2. x \in Nat /\ y \in Nat  OBVIOUS
  <2>3. ~(y < x)  BY <1>1, <2>1, <2>2
  <2>4. QED  BY <2>2, <2>3
<1>5. QED  BY <1>4

\* What holds of 0 and of every successor holds of every number.
LEMMA Counting ==
  ASSUME NEW H, 0 \in H, \A k \in Nat : k \in H => k + 1 \in H
  PROVE  \A k \in Nat : k \in H
<1> SUFFICES ASSUME NEW T, T = {k \in Nat : k \notin H}, T # {}  PROVE FALSE
  OBVIOUS
<1>1. PICK x \in T : \A y \in T : x <= y  BY LeastNumber
<1>2. x \in Nat /\ x # 0 /\ x \notin H  OBVIOUS
<1>3. x - 1 \in Nat /\ x - 1 \notin T  BY <1>1, <1>2
<1>4. x - 1 \in H  BY <1>3
<1>5. (x - 1) + 1 \in H  BY <1>3, <1>4
<1>6. QED  BY <1>2, <1>5

\* A finite set is built up one element at a time.
LEMMA Collecting ==
  ASSUME NEW S, IsFiniteSet(S), NEW H, {} \in H,
         \A t \in SUBSET S, x \in S : t \in H /\ x \notin t => t \cup {x} \in H
  PROVE  \A t \in SUBSET S : t \in H
<1> DEFINE N == {k \in Nat : \A t \in SUBSET S : Cardinality(t) = k => t \in H}
<1>1. \A t \in SUBSET S : IsFiniteSet(t) /\ Cardinality(t) \in Nat
  BY FS_Subset, FS_CardinalityType
<1>2. 0 \in N  BY <1>1, FS_EmptySet
<1>3. ASSUME NEW k \in Nat, k \in N  PROVE k + 1 \in N
  <2> SUFFICES ASSUME NEW t \in SUBSET S, Cardinality(t) = k + 1  PROVE t \in H
    OBVIOUS
  <2>1. t # {}  BY FS_EmptySet
  <2>2. PICK x \in t : TRUE  BY <2>1
  <2>3. Cardinality(t \ {x}) = k
    <3>1. IsFiniteSet(t) /\ Cardinality(t) = k + 1  BY <1>1
    <3>2. Cardinality(t \ {x}) = Cardinality(t) - 1  BY <3>1, FS_RemoveElement
    <3>3. QED  BY <3>1, <3>2
  <2>4. t \ {x} \in H
    <3>1. \A u \in SUBSET S : Cardinality(u) = k => u \in H  BY <1>3
    <3>2. t \ {x} \in SUBSET S  OBVIOUS
    <3>3. QED  BY <2>3, <3>1, <3>2
  <2>5. (t \ {x}) \cup {x} \in H  BY <2>4
  <2>6. (t \ {x}) \cup {x} = t  OBVIOUS
  <2>7. QED  BY <2>5, <2>6
<1> HIDE DEF N
<1>4. \A k \in Nat : k \in N  BY <1>2, <1>3, Counting
<1>5. QED  BY <1>1, <1>4 DEF N

(***************************************************************************)
(* The places a preset pays.                                               *)
(***************************************************************************)
\* A preset funds the first placement_count places, and no other.
LEMMA FundedPlaces ==
  ASSUME NEW bps \in [Slots -> Nat], ValidSplit(bps)
  PROVE  \E last \in Slots : /\ {i \in Slots : bps[i] > 0} = 1..last
                             /\ Cardinality({i \in Slots : bps[i] > 0}) = last
<1>1. Slots = {1, 2, 3, 4, 5, 6, 7, 8}  BY DEF Slots, MAX_PAYOUT_SLOTS
<1>2. \A i \in {1, 2, 3, 4, 5, 6, 7} : bps[i] = 0 => bps[i + 1] = 0
  BY DEF ValidSplit, MAX_PAYOUT_SLOTS
<1>3. bps[1] > 0  BY DEF ValidSplit
<1>4. \A i \in Slots : bps[i] \in Nat  OBVIOUS
<1>5. \E last \in Slots : \A i \in Slots : bps[i] > 0 <=> i <= last
  <2>1. CASE bps[8] > 0
    <3>1. \A i \in Slots : bps[i] > 0  BY <1>1, <1>2, <1>4, <2>1
    <3>2. QED  BY <1>1, <3>1
  <2>2. CASE bps[8] = 0
    <3>1. PICK first \in Slots : bps[first] = 0 /\ \A i \in Slots : bps[i] = 0 => first <= i
      <4> DEFINE T == {i \in Slots : bps[i] = 0}
      <4>1. T \in SUBSET Nat /\ T # {}  BY <1>1, <2>2
      <4>2. PICK x \in T : \A y \in T : x <= y  BY <4>1, LeastNumber
      <4>3. QED  BY <4>2
    <3>2. first # 1  BY <1>3, <3>1
    <3>3. \A i \in Slots : first <= i => bps[i] = 0  BY <1>1, <1>2, <3>1
    <3>4. first - 1 \in Slots  BY <1>1, <3>2
    <3>5. \A i \in Slots : bps[i] > 0 <=> i <= first - 1  BY <1>1, <1>4, <3>1, <3>3
    <3>6. QED  BY <3>4, <3>5
  <2>3. QED  BY <1>1, <1>4, <2>1, <2>2
<1>6. PICK last \in Slots : \A i \in Slots : bps[i] > 0 <=> i <= last  BY <1>5
<1>7. {i \in Slots : bps[i] > 0} = 1..last  BY <1>6 DEF Slots, MAX_PAYOUT_SLOTS
<1>8. Cardinality(1..last) = last
  <2>1. last \in Int /\ 1 \in Int /\ last >= 1  BY DEF Slots, MAX_PAYOUT_SLOTS
  <2>2. Cardinality(1..last) = IF 1 > last THEN 0 ELSE last - 1 + 1  BY <2>1, FS_Interval
  <2>3. QED  BY <2>1, <2>2
<1>9. QED  BY <1>7, <1>8

\* What create_tournament lets through is a valid split, built in or custom.
LEMMA GenuineSplits ==
  ASSUME NEW preset \in PayoutPreset, validate_custom(preset)
  PROVE  /\ basis_points(preset) \in [Slots -> Nat] /\ ValidSplit(basis_points(preset))
         /\ placement_count(preset) \in Slots
         /\ {i \in Slots : basis_points(preset)[i] > 0} = 1..placement_count(preset)
         /\ preset.kind # "Custom" => preset \in {WinnerTakesAll, Standard, Deep}
<1>1. basis_points(preset) \in [Slots -> Nat]  BY DEF PayoutPreset, basis_points
<1>2. preset.kind # "Custom" => preset \in {WinnerTakesAll, Standard, Deep}
  BY DEF PayoutPreset
<1>3. ValidSplit(PAYOUT_WTA) /\ ValidSplit(PAYOUT_STANDARD) /\ ValidSplit(PAYOUT_DEEP)
  BY DEF ValidSplit, PAYOUT_WTA, PAYOUT_STANDARD, PAYOUT_DEEP, SlotSum, BPS_DENOMINATOR,
         MAX_PAYOUT_SLOTS
<1>4. ValidSplit(basis_points(preset))
  BY <1>2, <1>3 DEF validate_custom, basis_points, WinnerTakesAll, Standard, Deep
<1>5. QED  BY <1>1, <1>2, <1>4, FundedPlaces DEF placement_count

(***************************************************************************)
(* The shuffle: the loop of seed_permutation for the first rounds, up to   *)
(* round last.                                                             *)
(***************************************************************************)
IsShuffle(after, stream, n, last) ==
    after = [k \in 0..last |->
        IF k = 0 THEN Identity(n)
        ELSE Swap(after[k - 1], n - k, stream[k] % (n - k + 1))]

\* The loop can be run for any number of rounds.
LEMMA ShuffleExists ==
  ASSUME NEW stream, NEW n
  PROVE  \A last \in Nat : \E after : IsShuffle(after, stream, n, last)
<1> DEFINE H == {last \in Nat : \E after : IsShuffle(after, stream, n, last)}
           Next(perm, k) == Swap(perm, n - k, stream[k] % (n - k + 1))
<1>1. 0 \in H
  <2> DEFINE first == [k \in 0..0 |-> Identity(n)]
  <2>1. first = [k \in 0..0 |-> IF k = 0 THEN Identity(n) ELSE Next(first[k - 1], k)]
    OBVIOUS
  <2>2. IsShuffle(first, stream, n, 0)  BY <2>1 DEF IsShuffle
  <2>3. QED  BY <2>2
<1>2. ASSUME NEW last \in Nat, last \in H  PROVE last + 1 \in H
  <2>1. PICK after : IsShuffle(after, stream, n, last)  BY <1>2
  <2>2. after = [k \in 0..last |-> IF k = 0 THEN Identity(n) ELSE Next(after[k - 1], k)]
    BY <2>1 DEF IsShuffle
  <2> HIDE DEF Next
  <2> DEFINE more == [k \in 0..(last + 1) |->
                         IF k = last + 1 THEN Next(after[last], k) ELSE after[k]]
  <2>3. more = [k \in 0..(last + 1) |-> IF k = 0 THEN Identity(n) ELSE Next(more[k - 1], k)]
    <3>1. ASSUME NEW k \in 0..(last + 1)
          PROVE  more[k] = IF k = 0 THEN Identity(n) ELSE Next(more[k - 1], k)
      <4>1. CASE k = 0  BY <2>2, <4>1
      <4>2. CASE k # 0 /\ k # last + 1
        <5>1. k \in 0..last /\ k - 1 \in 0..last /\ k - 1 # last + 1  BY <4>2
        <5>2. more[k] = after[k] /\ more[k - 1] = after[k - 1]  BY <5>1, <4>2
        <5>3. after[k] = Next(after[k - 1], k)  BY <2>2, <5>1, <4>2
        <5>4. QED  BY <5>2, <5>3, <4>2
      <4>3. CASE k = last + 1
        <5>1. last \in 0..(last + 1) /\ last # last + 1 /\ k - 1 = last /\ k # 0 BY <4>3
        <5>2. more[last] = after[last]  BY <5>1
        <5>3. more[k] = Next(after[last], k)  BY <4>3
        <5>4. QED  BY <5>1, <5>2, <5>3
      <4>4. QED  BY <4>1, <4>2, <4>3
    <3> HIDE DEF more
    <3>2. more = [k \in 0..(last + 1) |-> more[k]]  BY DEF more
    <3>3. QED  BY <3>1, <3>2
  <2> HIDE DEF more
  <2>4. IsShuffle(more, stream, n, last + 1)  BY <2>3 DEF IsShuffle, Next
  <2>5. QED  BY <2>4
<1> HIDE DEF H
<1>3. \A last \in Nat : last \in H  BY <1>1, <1>2, Counting
<1>4. QED  BY <1>3 DEF H

LEMMA ShuffleIsRun ==
  ASSUME NEW stream, NEW n \in Nat \ {0}
  PROVE  \E after : IsShuffle(after, stream, n, n - 1)
                    /\ SeedPermutation(stream, n) = after[n - 1]
<1>1. n - 1 \in Nat  OBVIOUS
<1>2. \E after : IsShuffle(after, stream, n, n - 1)  BY <1>1, ShuffleExists
<1> DEFINE run == CHOOSE after : IsShuffle(after, stream, n, n - 1)
<1>3. IsShuffle(run, stream, n, n - 1)  BY <1>2, Zenon
<1>4. SeedPermutation(stream, n) = run[n - 1]
  BY Zenon DEF SeedPermutation, IsShuffle
<1>5. QED  BY <1>3, <1>4, Zenon

Orders(n) ==
    {perm \in [0..(n - 1) -> 0..(n - 1)] :
        \A a, b \in 0..(n - 1) : perm[a] = perm[b] => a = b}

LEMMA SwapPermutes ==
  ASSUME NEW n \in Nat, NEW perm \in Orders(n), NEW i \in 0..(n - 1), NEW j \in 0..(n - 1)
  PROVE  /\ Swap(perm, i, j) \in Orders(n)
         /\ Swap(perm, i, j)[i] = perm[j]
         /\ \A a \in 0..(n - 1) \ {i, j} : Swap(perm, i, j)[a] = perm[a]
BY DEF Orders, Swap

\* In round k the loop is at position n - k and draws one that is not settled yet.
LEMMA ShuffleStep ==
  ASSUME NEW stream, NEW n \in Nat \ {0}, NEW last \in 0..(n - 1),
         \A k \in 1..(n - 1) : stream[k] \in Nat,
         NEW after, IsShuffle(after, stream, n, last)
  PROVE  /\ after[0] = Identity(n)
         /\ \A k \in 1..last :
              /\ k \in 1..(n - 1) /\ k - 1 \in 0..last
              /\ n - k \in 0..(n - 1)
              /\ stream[k] % (n - k + 1) \in 0..(n - k)
              /\ after[k] = Swap(after[k - 1], n - k, stream[k] % (n - k + 1))
<1>1. after[0] = Identity(n)  BY DEF IsShuffle
<1>2. ASSUME NEW k \in 1..last
      PROVE  /\ k \in 1..(n - 1) /\ k - 1 \in 0..last
             /\ n - k \in 0..(n - 1)
             /\ stream[k] % (n - k + 1) \in 0..(n - k)
             /\ after[k] = Swap(after[k - 1], n - k, stream[k] % (n - k + 1))
  <2>1. k \in 1..(n - 1) /\ k - 1 \in 0..last /\ n - k \in 0..(n - 1)  OBVIOUS
  <2>2. stream[k] \in Nat /\ n - k + 1 \in Nat \ {0}  BY <2>1
  <2>3. \A x \in Nat, y \in Nat \ {0} : x % y \in 0..(y - 1)  OBVIOUS
  <2>4. stream[k] % (n - k + 1) \in 0..((n - k + 1) - 1)  BY <2>2, <2>3, Zenon
  <2>8. (n - k + 1) - 1 = n - k  BY <2>1
  <2>5. k \in 0..last /\ k # 0  OBVIOUS
  <2>6. after[k] = Swap(after[k - 1], n - k, stream[k] % (n - k + 1))
    BY <2>5, Zenon DEF IsShuffle
  <2>7. QED  BY <2>1, <2>4, <2>6, <2>8
<1>3. QED  BY <1>1, <1>2

LEMMA ShufflePermutes ==
  ASSUME NEW stream, NEW n \in Nat \ {0}, NEW last \in 0..(n - 1),
         \A k \in 1..(n - 1) : stream[k] \in Nat,
         NEW after, IsShuffle(after, stream, n, last)
  PROVE  \A k \in 0..last : after[k] \in Orders(n)
<1> DEFINE H == {k \in Nat : k <= last => after[k] \in Orders(n)}
<1>1. 0 \in H
  <2>1. Identity(n) \in Orders(n)  BY DEF Identity, Orders
  <2>2. QED  BY <2>1, ShuffleStep
<1>2. ASSUME NEW k \in Nat, k \in H  PROVE k + 1 \in H
  <2> SUFFICES ASSUME k + 1 <= last  PROVE after[k + 1] \in Orders(n)
    OBVIOUS
  <2>1. after[k] \in Orders(n)  BY <1>2
  <2> DEFINE i == n - (k + 1)
             j == stream[k + 1] % (n - (k + 1) + 1)
  <2>2. k + 1 \in 1..last /\ (k + 1) - 1 = k  OBVIOUS
  <2>3. i \in 0..(n - 1) /\ j \in 0..i /\ after[k + 1] = Swap(after[(k + 1) - 1], i, j)
    BY <2>2, ShuffleStep
  <2> HIDE DEF i, j
  <2>4. j \in 0..(n - 1)  BY <2>3
  <2>5. Swap(after[k], i, j) \in Orders(n)  BY <2>1, <2>3, <2>4, SwapPermutes
  <2>6. QED  BY <2>2, <2>3, <2>5
<1> HIDE DEF H
<1>3. \A k \in Nat : k \in H  BY <1>1, <1>2, Counting
<1>4. QED  BY <1>3 DEF H

(***************************************************************************)
(* seed_permutation returns a permutation of the join numbers, for every   *)
(* field and every stream of numbers.                                      *)
(***************************************************************************)
THEOREM SeedPermutationPermutes ==
  ASSUME NEW n \in Nat \ {0}, NEW stream, \A k \in 1..(n - 1) : stream[k] \in Nat
  PROVE  SeedPermutation(stream, n) \in Bijection(0..(n - 1), 0..(n - 1))
<1>1. PICK after : IsShuffle(after, stream, n, n - 1)
                   /\ SeedPermutation(stream, n) = after[n - 1]
  BY ShuffleIsRun
<1>2. n - 1 \in 0..(n - 1)  OBVIOUS
<1>3. SeedPermutation(stream, n) \in Orders(n)  BY <1>1, <1>2, ShufflePermutes
<1> DEFINE perm == SeedPermutation(stream, n)
           R == 0..(n - 1)
<1>4. perm \in Injection(R, R)  BY <1>3, Fun_IsInj DEF Orders
<1>5. IsFiniteSet(R)  BY FS_Interval
<1> HIDE DEF perm, R
<1>6. perm \in Surjection(R, R)  BY <1>4, <1>5, FS_Injection
<1>7. QED  BY <1>4, <1>6 DEF Bijection, perm, R

(***************************************************************************)
(* Sums over a finite set.                                                 *)
(***************************************************************************)
AnyOf(s) == CHOOSE x \in s : TRUE

IsSum(iter, f, S) ==
    iter = [s \in SUBSET S |-> IF s = {} THEN 0 ELSE f[AnyOf(s)] + iter[s \ {AnyOf(s)}]]

LEMMA AnyOfIsOne == \A s : s # {} => AnyOf(s) \in s
BY Zenon DEF AnyOf

\* What is left of a set when one element is taken away.
LEMMA OneLess ==
  ASSUME NEW S, IsFiniteSet(S), NEW s \in SUBSET S
  PROVE  /\ IsFiniteSet(s) /\ Cardinality(s) \in Nat /\ Cardinality(s) <= Cardinality(S)
         /\ s = {} => Cardinality(s) = 0
         /\ s # {} => /\ s \ {AnyOf(s)} \in SUBSET S
                      /\ Cardinality(s) > 0
                      /\ Cardinality(s \ {AnyOf(s)}) = Cardinality(s) - 1
<1>1. IsFiniteSet(s) /\ Cardinality(s) \in Nat /\ Cardinality(s) <= Cardinality(S)
  BY FS_Subset, FS_CardinalityType
<1>2. Cardinality(s) = 0 <=> s = {}  BY <1>1, FS_EmptySet
<1>3. ASSUME s # {}  PROVE Cardinality(s \ {AnyOf(s)}) = Cardinality(s) - 1
  BY <1>1, <1>3, AnyOfIsOne, FS_RemoveElement
<1>4. QED  BY <1>1, <1>2, <1>3

\* The sum, for the subsets of at most `most' elements.
IsSumUpTo(iter, f, S, most) ==
    iter = [s \in SUBSET S |->
        IF s # {} /\ Cardinality(s) <= most THEN f[AnyOf(s)] + iter[s \ {AnyOf(s)}] ELSE 0]

LEMMA SumExists ==
  ASSUME NEW S, IsFiniteSet(S), NEW f
  PROVE  \E iter : IsSum(iter, f, S)
<1> DEFINE H == {most \in Nat : \E iter : IsSumUpTo(iter, f, S, most)}
           With(s, sum) == f[AnyOf(s)] + sum
<1>2. 0 \in H
  <2> DEFINE none == [s \in SUBSET S |-> 0]
  <2>1. none = [s \in SUBSET S |-> IF s # {} /\ Cardinality(s) <= 0
                                   THEN With(s, none[s \ {AnyOf(s)}]) ELSE 0]
    <3> HIDE DEF With
    <3>1. ASSUME NEW s \in SUBSET S, s # {}  PROVE ~(Cardinality(s) <= 0)
      <4>1. Cardinality(s) \in Nat /\ Cardinality(s) > 0  BY <3>1, OneLess
      <4>2. QED  BY <4>1
    <3>2. QED  BY <3>1
  <2>2. IsSumUpTo(none, f, S, 0)  BY <2>1 DEF IsSumUpTo
  <2>3. QED  BY <2>2
<1>3. ASSUME NEW most \in Nat, most \in H  PROVE most + 1 \in H
  <2>1. PICK iter : IsSumUpTo(iter, f, S, most)  BY <1>3
  <2>2. iter = [s \in SUBSET S |-> IF s # {} /\ Cardinality(s) <= most
                                   THEN With(s, iter[s \ {AnyOf(s)}]) ELSE 0]
    BY <2>1 DEF IsSumUpTo
  <2> HIDE DEF With
  <2> DEFINE more == [s \in SUBSET S |-> IF Cardinality(s) = most + 1
                                         THEN With(s, iter[s \ {AnyOf(s)}]) ELSE iter[s]]
  <2>3. ASSUME NEW s \in SUBSET S
        PROVE  more[s] = IF s # {} /\ Cardinality(s) <= most + 1
                         THEN With(s, more[s \ {AnyOf(s)}]) ELSE 0
    <3>0. /\ Cardinality(s) \in Nat
          /\ s = {} => Cardinality(s) = 0
          /\ s # {} => /\ s \ {AnyOf(s)} \in SUBSET S
                       /\ Cardinality(s) > 0
                       /\ Cardinality(s \ {AnyOf(s)}) = Cardinality(s) - 1
      BY OneLess
    <3>1. CASE s # {} /\ Cardinality(s) <= most
      <4>1. /\ s \ {AnyOf(s)} \in SUBSET S
            /\ Cardinality(s \ {AnyOf(s)}) # most + 1 /\ Cardinality(s) # most + 1
            /\ Cardinality(s) <= most + 1
        BY <3>0, <3>1
      <4>2. more[s] = iter[s] /\ more[s \ {AnyOf(s)}] = iter[s \ {AnyOf(s)}]  BY <4>1
      <4>3. iter[s] = With(s, iter[s \ {AnyOf(s)}])  BY <2>2, <3>1
      <4>4. QED  BY <3>1, <4>1, <4>2, <4>3
    <3>2. CASE s # {} /\ Cardinality(s) = most + 1
      <4>1. /\ s \ {AnyOf(s)} \in SUBSET S
            /\ Cardinality(s \ {AnyOf(s)}) # most + 1 /\ Cardinality(s) <= most + 1
        BY <3>0, <3>2
      <4>2. more[s] = With(s, iter[s \ {AnyOf(s)}])  BY <3>2
      <4>3. more[s \ {AnyOf(s)}] = iter[s \ {AnyOf(s)}]  BY <4>1
      <4>4. QED  BY <3>2, <4>1, <4>2, <4>3
    <3>3. CASE s = {}
      <4>1. Cardinality(s) # most + 1  BY <3>0, <3>3
      <4>2. more[s] = iter[s] /\ iter[s] = 0  BY <2>2, <3>3, <4>1
      <4>3. QED  BY <3>3, <4>2
    <3>4. CASE s # {} /\ ~(Cardinality(s) <= most + 1)
      <4>1. Cardinality(s) # most + 1 /\ ~(Cardinality(s) <= most)  BY <3>0, <3>4
      <4>2. more[s] = iter[s] /\ iter[s] = 0  BY <2>2, <4>1
      <4>3. QED  BY <3>4, <4>2
    <3>6. Cardinality(s) <= most \/ Cardinality(s) = most + 1 \/ ~(Cardinality(s) <= most + 1)
      BY <3>0
    <3>7. QED  BY <3>1, <3>2, <3>3, <3>4, <3>6
  <2>4. more = [s \in SUBSET S |-> more[s]]  OBVIOUS
  <2> HIDE DEF more
  <2>5. more = [s \in SUBSET S |-> IF s # {} /\ Cardinality(s) <= most + 1
                                   THEN With(s, more[s \ {AnyOf(s)}]) ELSE 0]
    BY <2>3, <2>4
  <2>6. IsSumUpTo(more, f, S, most + 1)  BY <2>5 DEF IsSumUpTo, With
  <2>7. QED  BY <2>6
<1> HIDE DEF H
<1>4. \A most \in Nat : most \in H  BY <1>2, <1>3, Counting
<1>5. Cardinality(S) \in Nat  BY FS_CardinalityType
<1>6. PICK iter : IsSumUpTo(iter, f, S, Cardinality(S))  BY <1>4, <1>5 DEF H
<1>7. iter = [s \in SUBSET S |-> IF s # {} /\ Cardinality(s) <= Cardinality(S)
                                 THEN With(s, iter[s \ {AnyOf(s)}]) ELSE 0]
  BY <1>6 DEF IsSumUpTo
<1> HIDE DEF With
<1>8. iter = [s \in SUBSET S |-> IF s = {} THEN 0 ELSE With(s, iter[s \ {AnyOf(s)}])]
  BY OneLess, <1>7
<1>9. QED  BY <1>8 DEF IsSum, With


LEMMA SumUnique ==
  ASSUME NEW S, IsFiniteSet(S), NEW f, NEW one, NEW two, IsSum(one, f, S), IsSum(two, f, S)
  PROVE  one = two
<1> DEFINE With(s, sum) == f[AnyOf(s)] + sum
<1>1. one = [s \in SUBSET S |-> IF s = {} THEN 0 ELSE With(s, one[s \ {AnyOf(s)}])]
  BY DEF IsSum
<1>2. two = [s \in SUBSET S |-> IF s = {} THEN 0 ELSE With(s, two[s \ {AnyOf(s)}])]
  BY DEF IsSum
<1> HIDE DEF With
<1> DEFINE H == {most \in Nat : \A s \in SUBSET S : Cardinality(s) <= most => one[s] = two[s]}
<1>3. 0 \in H
  <2>1. ASSUME NEW s \in SUBSET S, Cardinality(s) <= 0  PROVE one[s] = two[s]
    <3>1. Cardinality(s) \in Nat /\ (s # {} => Cardinality(s) > 0)  BY OneLess
    <3>2. s = {}  BY <2>1, <3>1
    <3>3. QED  BY <1>1, <1>2, <3>2
  <2>2. QED  BY <2>1
<1>4. ASSUME NEW most \in Nat, most \in H  PROVE most + 1 \in H
  <2>1. ASSUME NEW s \in SUBSET S, Cardinality(s) <= most + 1  PROVE one[s] = two[s]
    <3>1. CASE s = {}  BY <1>1, <1>2, <3>1
    <3>2. CASE s # {}
      <4>1. /\ Cardinality(s) \in Nat /\ s \ {AnyOf(s)} \in SUBSET S
            /\ Cardinality(s \ {AnyOf(s)}) = Cardinality(s) - 1
        BY <3>2, OneLess
      <4>2. Cardinality(s \ {AnyOf(s)}) <= most  BY <2>1, <4>1
      <4>3. one[s \ {AnyOf(s)}] = two[s \ {AnyOf(s)}]  BY <1>4, <4>1, <4>2
      <4>4. one[s] = With(s, one[s \ {AnyOf(s)}])  BY <1>1, <3>2
      <4>5. two[s] = With(s, two[s \ {AnyOf(s)}])  BY <1>2, <3>2
      <4>6. QED  BY <4>3, <4>4, <4>5
    <3>3. QED  BY <3>1, <3>2
  <2>2. QED  BY <2>1
<1> HIDE DEF H
<1>5. \A most \in Nat : most \in H  BY <1>3, <1>4, Counting
<1>6. \A s \in SUBSET S : one[s] = two[s]
  <2>1. ASSUME NEW s \in SUBSET S  PROVE one[s] = two[s]
    <3>1. Cardinality(s) \in Nat  BY OneLess
    <3>2. Cardinality(s) \in H /\ Cardinality(s) <= Cardinality(s)  BY <1>5, <3>1
    <3>3. QED  BY <3>2 DEF H
  <2>2. QED  BY <2>1
<1> HIDE DEF H
<1>7. one = [s \in SUBSET S |-> one[s]] /\ two = [s \in SUBSET S |-> two[s]]
  BY <1>1, <1>2, Zenon
<1>8. QED  BY <1>6, <1>7

\* The sum of f over S, in the order in which CHOOSE takes the elements.
Total(f, S) == (CHOOSE iter : IsSum(iter, f, S))[S]

LEMMA TotalIsSum ==
  ASSUME NEW S, IsFiniteSet(S), NEW f
  PROVE  /\ \E iter : IsSum(iter, f, S) /\ Total(f, S) = iter[S]
         /\ \A iter : IsSum(iter, f, S) => Total(f, S) = iter[S]
<1> DEFINE sum == CHOOSE iter : IsSum(iter, f, S)
<1>1. IsSum(sum, f, S)  BY SumExists, Zenon
<1>2. Total(f, S) = sum[S]  BY Zenon DEF Total
<1> HIDE DEF sum
<1>3. ASSUME NEW iter, IsSum(iter, f, S)  PROVE Total(f, S) = iter[S]
  BY <1>1, <1>2, <1>3, SumUnique, Zenon
<1>4. QED  BY <1>1, <1>2, <1>3, Zenon

\* Sums of sums.
LEMMA TotalPlus ==
  ASSUME NEW S, IsFiniteSet(S), NEW f \in [S -> Int], NEW g \in [S -> Int],
         NEW h \in [S -> Int], \A x \in S : h[x] = f[x] + g[x]
  PROVE  Total(f, S) \in Int /\ Total(g, S) \in Int /\ Total(h, S) = Total(f, S) + Total(g, S)
<1>1. PICK a : IsSum(a, f, S) /\ Total(f, S) = a[S]  BY TotalIsSum
<1>2. PICK b : IsSum(b, g, S) /\ Total(g, S) = b[S]  BY TotalIsSum
<1>3. PICK c : IsSum(c, h, S) /\ Total(h, S) = c[S]  BY TotalIsSum
<1> DEFINE H == {most \in Nat : \A s \in SUBSET S : Cardinality(s) <= most =>
                    a[s] \in Int /\ b[s] \in Int /\ c[s] = a[s] + b[s]}
<1>4. ASSUME NEW s \in SUBSET S
      PROVE  /\ s = {} => a[s] = 0 /\ b[s] = 0 /\ c[s] = 0
             /\ s # {} => /\ AnyOf(s) \in S
                          /\ a[s] = f[AnyOf(s)] + a[s \ {AnyOf(s)}]
                          /\ b[s] = g[AnyOf(s)] + b[s \ {AnyOf(s)}]
                          /\ c[s] = h[AnyOf(s)] + c[s \ {AnyOf(s)}]
  BY <1>1, <1>2, <1>3, AnyOfIsOne DEF IsSum
<1>5. 0 \in H
  <2>1. ASSUME NEW s \in SUBSET S, Cardinality(s) <= 0
        PROVE  a[s] \in Int /\ b[s] \in Int /\ c[s] = a[s] + b[s]
    <3>1. Cardinality(s) \in Nat /\ (s # {} => Cardinality(s) > 0)  BY OneLess
    <3>2. s = {}  BY <2>1, <3>1
    <3>3. a[s] = 0 /\ b[s] = 0 /\ c[s] = 0  BY <1>4, <3>2
    <3>4. QED  BY <3>3, SMT
  <2>2. QED  BY <2>1
<1>6. ASSUME NEW most \in Nat, most \in H  PROVE most + 1 \in H
  <2>1. ASSUME NEW s \in SUBSET S, Cardinality(s) <= most + 1
        PROVE  a[s] \in Int /\ b[s] \in Int /\ c[s] = a[s] + b[s]
    <3>1. CASE s = {}
      <4>1. a[s] = 0 /\ b[s] = 0 /\ c[s] = 0  BY <1>4, <3>1
      <4>2. QED  BY <4>1
    <3>2. CASE s # {}
      <4>1. /\ Cardinality(s) \in Nat /\ s \ {AnyOf(s)} \in SUBSET S
            /\ Cardinality(s \ {AnyOf(s)}) = Cardinality(s) - 1
        BY <3>2, OneLess
      <4>2. Cardinality(s \ {AnyOf(s)}) <= most  BY <2>1, <4>1
      <4>3. PICK x \in S : x = AnyOf(s)  BY <1>4, <3>2
      <4>4. PICK r \in SUBSET S : r = s \ {AnyOf(s)}  BY <4>1
      <4>5. a[r] \in Int /\ b[r] \in Int /\ c[r] = a[r] + b[r]  BY <1>6, <4>2, <4>4
      <4>6. a[s] = f[x] + a[r] /\ b[s] = g[x] + b[r] /\ c[s] = h[x] + c[r]
        BY <1>4, <3>2, <4>3, <4>4
      <4>7. f[x] \in Int /\ g[x] \in Int /\ h[x] = f[x] + g[x]  BY <4>3
      <4>8. QED  BY <4>5, <4>6, <4>7
    <3>3. QED  BY <3>1, <3>2
  <2>2. QED  BY <2>1
<1> HIDE DEF H
<1>7. \A most \in Nat : most \in H  BY <1>5, <1>6, Counting
<1>8. Cardinality(S) \in Nat  BY FS_CardinalityType
<1>9. Cardinality(S) \in H /\ S \in SUBSET S /\ Cardinality(S) <= Cardinality(S)
  BY <1>7, <1>8
<1>10. a[S] \in Int /\ b[S] \in Int /\ c[S] = a[S] + b[S]  BY <1>9 DEF H
<1>11. QED  BY <1>1, <1>2, <1>3, <1>10

\* What a sum comes to that at most one element has a share in.
LEMMA TotalPoint ==
  ASSUME NEW S, IsFiniteSet(S), NEW one, NEW share \in Int,
         NEW f, f = [x \in S |-> IF x = one THEN share ELSE 0]
  PROVE  Total(f, S) = IF one \in S THEN share ELSE 0
<1>1. PICK a : IsSum(a, f, S) /\ Total(f, S) = a[S]  BY TotalIsSum
<1> DEFINE H == {most \in Nat : \A s \in SUBSET S : Cardinality(s) <= most =>
                    a[s] = IF one \in s THEN share ELSE 0}
<1>4. ASSUME NEW s \in SUBSET S
      PROVE  /\ s = {} => a[s] = 0
             /\ s # {} => /\ AnyOf(s) \in s /\ AnyOf(s) \in S
                          /\ a[s] = f[AnyOf(s)] + a[s \ {AnyOf(s)}]
  BY <1>1, AnyOfIsOne DEF IsSum
<1>5. 0 \in H
  <2>1. ASSUME NEW s \in SUBSET S, Cardinality(s) <= 0
        PROVE  a[s] = IF one \in s THEN share ELSE 0
    <3>1. Cardinality(s) \in Nat /\ (s # {} => Cardinality(s) > 0)  BY OneLess
    <3>2. s = {}  BY <2>1, <3>1
    <3>3. QED  BY <1>4, <3>2
  <2>2. QED  BY <2>1
<1>6. ASSUME NEW most \in Nat, most \in H  PROVE most + 1 \in H
  <2>1. ASSUME NEW s \in SUBSET S, Cardinality(s) <= most + 1
        PROVE  a[s] = IF one \in s THEN share ELSE 0
    <3>1. CASE s = {}  BY <1>4, <3>1
    <3>2. CASE s # {}
      <4>1. /\ Cardinality(s) \in Nat /\ s \ {AnyOf(s)} \in SUBSET S
            /\ Cardinality(s \ {AnyOf(s)}) = Cardinality(s) - 1
        BY <3>2, OneLess
      <4>2. Cardinality(s \ {AnyOf(s)}) <= most  BY <2>1, <4>1
      <4>3. PICK x \in s : x = AnyOf(s) /\ x \in S  BY <1>4, <3>2
      <4>4. PICK r \in SUBSET S : r = s \ {x} /\ r = s \ {AnyOf(s)}  BY <4>1, <4>3
      <4>5. a[r] = IF one \in r THEN share ELSE 0  BY <1>6, <4>2, <4>4
      <4>6. a[s] = f[x] + a[r]  BY <1>4, <3>2, <4>3, <4>4
      <4>7. f[x] = IF x = one THEN share ELSE 0  BY <4>3
      <4>8. CASE x = one  BY <4>3, <4>4, <4>5, <4>6, <4>7, <4>8
      <4>9. CASE x # one
        <5>1. one \in r <=> one \in s  BY <4>4, <4>9
        <5>2. QED  BY <4>5, <4>6, <4>7, <4>9, <5>1
      <4>10. QED  BY <4>8, <4>9
    <3>3. QED  BY <3>1, <3>2
  <2>2. QED  BY <2>1
<1> HIDE DEF H
<1>7. \A most \in Nat : most \in H  BY <1>5, <1>6, Counting
<1>8. Cardinality(S) \in Nat  BY FS_CardinalityType
<1>9. Cardinality(S) \in H /\ S \in SUBSET S /\ Cardinality(S) <= Cardinality(S)
  BY <1>7, <1>8
<1>10. a[S] = IF one \in S THEN share ELSE 0  BY <1>9 DEF H
<1>11. QED  BY <1>1, <1>10

\* Functions into the integers, and their sum; as operators to keep the steps small.
IntegerValued(f, S) == f \in [S -> Int]
Plus(f, g, S) == [x \in S |-> f[x] + g[x]]

LEMMA SumOfTwo ==
  ASSUME NEW S, IsFiniteSet(S), NEW f, NEW g, IntegerValued(f, S), IntegerValued(g, S)
  PROVE  /\ IntegerValued(Plus(f, g, S), S)
         /\ Total(Plus(f, g, S), S) = Total(f, S) + Total(g, S)
<1>1. f \in [S -> Int] /\ g \in [S -> Int]  BY DEF IntegerValued
<1>2. PICK sum : sum = Plus(f, g, S)  OBVIOUS
<1>3. sum \in [S -> Int] /\ \A x \in S : sum[x] = f[x] + g[x]  BY <1>1, <1>2 DEF Plus
<1>4. Total(sum, S) = Total(f, S) + Total(g, S)  BY <1>1, <1>3, TotalPlus
<1>5. QED  BY <1>2, <1>3, <1>4 DEF IntegerValued

LEMMA EightTotals ==
  ASSUME NEW S, IsFiniteSet(S), NEW f, \A i \in Slots : IntegerValued(f[i], S),
         NEW h, IntegerValued(h, S),
         \A x \in S : h[x] = f[1][x] + f[2][x] + f[3][x] + f[4][x]
                              + f[5][x] + f[6][x] + f[7][x] + f[8][x]
  PROVE  Total(h, S) = Total(f[1], S) + Total(f[2], S) + Total(f[3], S) + Total(f[4], S)
                         + Total(f[5], S) + Total(f[6], S) + Total(f[7], S) + Total(f[8], S)
<1>1. PICK f1, f2, f3, f4, f5, f6, f7, f8 :
        /\ f1 = f[1] /\ f2 = f[2] /\ f3 = f[3] /\ f4 = f[4]
        /\ f5 = f[5] /\ f6 = f[6] /\ f7 = f[7] /\ f8 = f[8]
  OBVIOUS
<1>9. /\ IntegerValued(f1, S) /\ IntegerValued(f2, S) /\ IntegerValued(f3, S)
      /\ IntegerValued(f4, S) /\ IntegerValued(f5, S) /\ IntegerValued(f6, S)
      /\ IntegerValued(f7, S) /\ IntegerValued(f8, S)
  BY <1>1 DEF Slots, MAX_PAYOUT_SLOTS
<1>10. \A x \in S : h[x] = f1[x] + f2[x] + f3[x] + f4[x] + f5[x] + f6[x] + f7[x] + f8[x]
  BY <1>1
<1>2. PICK g2 : g2 = Plus(f1, f2, S)  OBVIOUS
<1>3. PICK g3 : g3 = Plus(g2, f3, S)  OBVIOUS
<1>4. PICK g4 : g4 = Plus(g3, f4, S)  OBVIOUS
<1>5. PICK g5 : g5 = Plus(g4, f5, S)  OBVIOUS
<1>6. PICK g6 : g6 = Plus(g5, f6, S)  OBVIOUS
<1>7. PICK g7 : g7 = Plus(g6, f7, S)  OBVIOUS
<1>8. PICK g8 : g8 = Plus(g7, f8, S)  OBVIOUS
<1>12. IntegerValued(g2, S) /\ Total(g2, S) = Total(f1, S) + Total(f2, S)  BY <1>2, <1>9, SumOfTwo
<1>13. IntegerValued(g3, S) /\ Total(g3, S) = Total(g2, S) + Total(f3, S)  BY <1>3, <1>9, <1>12, SumOfTwo
<1>14. IntegerValued(g4, S) /\ Total(g4, S) = Total(g3, S) + Total(f4, S)  BY <1>4, <1>9, <1>13, SumOfTwo
<1>15. IntegerValued(g5, S) /\ Total(g5, S) = Total(g4, S) + Total(f5, S)  BY <1>5, <1>9, <1>14, SumOfTwo
<1>16. IntegerValued(g6, S) /\ Total(g6, S) = Total(g5, S) + Total(f6, S)  BY <1>6, <1>9, <1>15, SumOfTwo
<1>17. IntegerValued(g7, S) /\ Total(g7, S) = Total(g6, S) + Total(f7, S)  BY <1>7, <1>9, <1>16, SumOfTwo
<1>18. IntegerValued(g8, S) /\ Total(g8, S) = Total(g7, S) + Total(f8, S)  BY <1>8, <1>9, <1>17, SumOfTwo
<1>19. \A x \in S : g8[x] = f1[x] + f2[x] + f3[x] + f4[x] + f5[x] + f6[x] + f7[x] + f8[x]
  BY <1>2, <1>3, <1>4, <1>5, <1>6, <1>7, <1>8 DEF Plus
<1>20. h = g8
  <2>1. h \in [S -> Int] /\ g8 \in [S -> Int]  BY <1>18 DEF IntegerValued
  <2>2. \A x \in S : h[x] = g8[x]  BY <1>10, <1>19
  <2>3. QED  BY <2>1, <2>2
<1>21. QED
  BY <1>1, <1>12, <1>13, <1>14, <1>15, <1>16, <1>17, <1>18, <1>20

\* What the eight places pay to the wallets of S, all of them together.
Received(w, placements, amounts) ==
    SlotSum([i \in Slots |-> IF placements[i] = w THEN amounts[i] ELSE 0])

LEMMA SlotTotals ==
  ASSUME NEW S, IsFiniteSet(S), NEW placements, NEW amounts \in [Slots -> Int],
         \A i \in Slots : placements[i] \in S \/ amounts[i] = 0
  PROVE  /\ [w \in S |-> Received(w, placements, amounts)] \in [S -> Int]
         /\ Total([w \in S |-> Received(w, placements, amounts)], S) = SlotSum(amounts)
<1>0. Slots = {1, 2, 3, 4, 5, 6, 7, 8}  BY DEF Slots, MAX_PAYOUT_SLOTS
<1>1. PICK f : f = [i \in Slots |-> [w \in S |-> IF w = placements[i] THEN amounts[i] ELSE 0]]
  OBVIOUS
<1>2. f \in [Slots -> [S -> Int]]  BY <1>1
<1>3. ASSUME NEW i \in Slots
      PROVE  Total(f[i], S) = amounts[i]
  <2>1. f[i] = [w \in S |-> IF w = placements[i] THEN amounts[i] ELSE 0]  BY <1>1
  <2>2. Total(f[i], S) = IF placements[i] \in S THEN amounts[i] ELSE 0
    BY <2>1, TotalPoint
  <2>3. QED  BY <2>2
<1>4. PICK h : h = [w \in S |-> Received(w, placements, amounts)]  OBVIOUS
<1>5. \A w \in S : h[w] = f[1][w] + f[2][w] + f[3][w] + f[4][w]
                            + f[5][w] + f[6][w] + f[7][w] + f[8][w]
  BY <1>0, <1>1, <1>4 DEF Received, SlotSum
<1>6. h \in [S -> Int]
  <2>1. \A w \in S : h[w] \in Int  BY <1>0, <1>2, <1>5
  <2>2. QED  BY <1>4, <2>1
<1>7. Total(h, S) = Total(f[1], S) + Total(f[2], S) + Total(f[3], S) + Total(f[4], S)
                      + Total(f[5], S) + Total(f[6], S) + Total(f[7], S) + Total(f[8], S)
  <2>1. \A i \in Slots : IntegerValued(f[i], S)  BY <1>2 DEF IntegerValued
  <2>2. IntegerValued(h, S)  BY <1>6 DEF IntegerValued
  <2>3. QED  BY <1>5, <2>1, <2>2, EightTotals
<1>8. Total(h, S) = SlotSum(amounts)  BY <1>0, <1>3, <1>7 DEF SlotSum
<1>9. QED  BY <1>4, <1>6, <1>8

==============================================================================
