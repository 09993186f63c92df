----------------------------- MODULE CheckProofs ------------------------------
(***************************************************************************)
(* The draw and the split, for fields and pools of every size: what the    *)
(* runs of DrawCheck and PayoutCheck show up to their bounds, proved for   *)
(* every value of the bounds.  The lemmas about the operators are in       *)
(* AlgorithmProofs.                                                        *)
(***************************************************************************)
EXTENDS DrawCheck, PayoutCheck, AlgorithmProofs

(***************************************************************************)
(* Two runs of the shuffle that draw the same numbers agree.               *)
(***************************************************************************)
SameDraws(one, two, last) == \A k \in 1..last : one[k] = two[k]
SameOrders(a, b, last) == \A k \in 0..last : a[k] = b[k]

\* The first rounds of a shuffle depend on the first draws only.
LEMMA ShufflesAgree ==
  ASSUME NEW field, NEW one, NEW two, NEW la, NEW lb, NEW last,
         last \in Nat, 0..last \subseteq 0..la, 0..last \subseteq 0..lb,
         NEW a, IsShuffle(a, one, field, la), NEW b, IsShuffle(b, two, field, lb),
         SameDraws(one, two, last)
  PROVE  SameOrders(a, b, last)
<1> USE DEF SameDraws, SameOrders
<1> DEFINE Step(order, k, draw) == Swap(order, field - k, draw % (field - k + 1))
<1>1. a = [k \in 0..la |-> IF k = 0 THEN Identity(field) ELSE Step(a[k - 1], k, one[k])]
  BY DEF IsShuffle
<1>2. b = [k \in 0..lb |-> IF k = 0 THEN Identity(field) ELSE Step(b[k - 1], k, two[k])]
  BY DEF IsShuffle
<1> HIDE DEF Step
<1> DEFINE H == {k \in Nat : k <= last => a[k] = b[k]}
<1>3. 0 \in H  BY <1>1, <1>2
<1>4. ASSUME NEW k \in Nat, k \in H  PROVE k + 1 \in H
  <2> SUFFICES ASSUME k + 1 <= last  PROVE a[k + 1] = b[k + 1]
    OBVIOUS
  <2>1. /\ k + 1 \in 0..la /\ k + 1 \in 0..lb /\ k + 1 # 0 /\ (k + 1) - 1 = k
        /\ k + 1 \in 1..last
    OBVIOUS
  <2>2. a[k] = b[k]  BY <1>4
  <2>3. a[k + 1] = Step(a[k], k + 1, one[k + 1])  BY <1>1, <2>1
  <2>4. b[k + 1] = Step(b[k], k + 1, two[k + 1])  BY <1>2, <2>1
  <2>5. QED  BY <2>1, <2>2, <2>3, <2>4
<1> HIDE DEF H
<1>5. \A k \in Nat : k \in H  BY <1>3, <1>4, Counting
<1>6. QED  BY <1>5 DEF H

\* Round k settles position field - k: no later round swaps it.
LEMMA ShuffleSettles ==
  ASSUME NEW field \in Nat \ {0}, NEW stream, NEW after,
         \A k \in 1..(field - 1) : stream[k] \in Nat,
         IsShuffle(after, stream, field, field - 1), NEW k \in 1..(field - 1)
  PROVE  after[field - 1][field - k] = after[k][field - k]
<1> DEFINE H == {l \in Nat : k + l <= field - 1 => after[k + l][field - k] = after[k][field - k]}
<1>1. 0 \in H  OBVIOUS
<1>2. ASSUME NEW l \in Nat, l \in H  PROVE l + 1 \in H
  <2> SUFFICES ASSUME k + (l + 1) <= field - 1
               PROVE  after[k + (l + 1)][field - k] = after[k][field - k]
    OBVIOUS
  <2>1. after[k + l][field - k] = after[k][field - k]  BY <1>2
  <2>2. PICK r : r = k + (l + 1) /\ r - 1 = k + l /\ r \in 1..(field - 1) /\ k < r
    OBVIOUS
  <2>3. PICK i0 : i0 = field - r  OBVIOUS
  <2>4. PICK j0 : j0 = stream[r] % (field - r + 1)  OBVIOUS
  <2>5. field - 1 \in 0..(field - 1)  OBVIOUS
  <2>6. i0 \in 0..(field - 1) /\ j0 \in 0..i0 /\ after[r] = Swap(after[r - 1], i0, j0)
    BY <2>2, <2>3, <2>4, <2>5, ShuffleStep
  <2>7. r - 1 \in 0..(field - 1)  BY <2>2
  <2>8. after[r - 1] \in Orders(field)  BY <2>5, <2>7, ShufflePermutes
  <2>9. field - k \in 0..(field - 1) \ {i0, j0}  BY <2>2, <2>3, <2>6
  <2>10. j0 \in 0..(field - 1)  BY <2>6
  <2>11. PICK order \in Orders(field) : order = after[r - 1]  BY <2>8
  <2>12. PICK place : place = field - k  OBVIOUS
  <2>13. Swap(order, i0, j0)[place] = order[place]
    <3>1. field \in Nat /\ place \in 0..(field - 1) \ {i0, j0} /\ i0 \in 0..(field - 1)
      BY <2>6, <2>9, <2>12
    <3>2. QED  BY <2>10, <3>1, SwapPermutes
  <2>14. QED  BY <2>1, <2>2, <2>6, <2>11, <2>12, <2>13
<1> HIDE DEF H
<1>3. \A l \in Nat : l \in H  BY <1>1, <1>2, Counting
<1>4. field - 1 - k \in Nat /\ k + (field - 1 - k) = field - 1  OBVIOUS
<1>5. field - 1 - k \in H /\ field - 1 <= field - 1  BY <1>3, <1>4
<1>6. QED  BY <1>4, <1>5 DEF H

\* An order without repetition leaves nobody out.
LEMMA OrdersAreOnto ==
  ASSUME NEW field \in Nat, NEW order \in Orders(field)
  PROVE  {order[rank] : rank \in 0..(field - 1)} = 0..(field - 1)
<1> DEFINE R == 0..(field - 1)
<1>1. order \in Injection(R, R)  BY Fun_IsInj DEF Orders
<1>2. IsFiniteSet(R)  BY FS_Interval
<1> HIDE DEF R
<1>3. order \in Surjection(R, R)  BY <1>1, <1>2, FS_Injection
<1>4. {order[rank] : rank \in R} = R  BY <1>3 DEF Surjection
<1>5. QED  BY <1>4 DEF R

(***************************************************************************)
(* The loop                                                                *)
(***************************************************************************)
DrawTypeOK ==
    /\ n \in MIN_PARTICIPANTS..MAX_PARTICIPANTS
    /\ i \in 1..n
    /\ drawn \in Seq(Nat) /\ Len(drawn) = n - i
    /\ \A k \in 1..(n - i) : drawn[k] \in 0..(n - k)
    /\ perm \in Orders(n)

SoFar == \E after : IsShuffle(after, drawn, n, n - i) /\ perm = after[n - i]

LoopInv == DrawTypeOK /\ SoFar

\* The order the loop starts from.
LEMMA IdentityOrders ==
  ASSUME NEW field \in Nat
  PROVE  Identity(field) \in Orders(field)
BY DEF Identity, Orders

\* A loop that has not drawn yet.
Fresh ==
    n \in MIN_PARTICIPANTS..MAX_PARTICIPANTS /\ i = n /\ drawn = <<>> /\ perm = Identity(n)

\* A loop that has not drawn yet has computed nothing wrong.
LEMMA NothingDrawn == Fresh => LoopInv
<1> SUFFICES ASSUME n \in MIN_PARTICIPANTS..MAX_PARTICIPANTS, i = n, drawn = <<>>,
                    perm = Identity(n)
             PROVE  LoopInv
  BY DEF Fresh
<1>1. n \in Nat /\ n - i = 0 /\ i \in 1..n  BY DEF MIN_PARTICIPANTS, MAX_PARTICIPANTS
<1>2. DrawTypeOK
  <2>1. drawn \in Seq(Nat) /\ Len(drawn) = 0  OBVIOUS
  <2>2. QED  BY <1>1, <2>1, IdentityOrders DEF DrawTypeOK
<1>3. PICK after : IsShuffle(after, drawn, n, 0)  BY ShuffleExists
<1>4. after[0] = Identity(n)  BY <1>3 DEF IsShuffle
<1>5. QED  BY <1>1, <1>2, <1>3, <1>4 DEF LoopInv, SoFar

\* The same of the state after a step, for LargerField.
LEMMA FreshNext == Fresh' => LoopInv'
BY NothingDrawn, PTL

\* One pass of the loop keeps the invariant.
LEMMA SwapLoop ==
  ASSUME LoopInv, SwapNext
  PROVE  LoopInv'
<1>1. /\ n \in Nat \ {0} /\ i \in 1..n /\ i > 1 /\ i' = i - 1 /\ n' = n
      /\ drawn \in Seq(Nat) /\ Len(drawn) = n - i /\ perm \in Orders(n)
  BY DEF LoopInv, DrawTypeOK, SwapNext, MIN_PARTICIPANTS, MAX_PARTICIPANTS
<1>2. PICK j \in 0..(i - 1) : perm' = Swap(perm, i - 1, j) /\ drawn' = Append(drawn, j)
  BY DEF SwapNext
<1> DEFINE r == n - i + 1
<1>3. /\ r \in 1..(n - 1) /\ n - i' = r /\ n - r = i - 1 /\ r - 1 = n - i /\ n - r + 1 = i
      /\ n - i \in Nat /\ r \in Nat
  BY <1>1
<1>4. /\ drawn' \in Seq(Nat) /\ Len(drawn') = r /\ drawn'[r] = j
      /\ \A k \in 1..(n - i) : drawn'[k] = drawn[k]
  BY <1>1, <1>2, <1>3
<1>5. \A k \in 1..r : drawn'[k] \in 0..(n - k)
  <2>1. ASSUME NEW k \in 1..r  PROVE drawn'[k] \in 0..(n - k)
    <3>1. CASE k = r  BY <1>2, <1>3, <1>4, <3>1
    <3>2. CASE k # r
      <4>1. k \in 1..(n - i)  BY <1>3, <3>2
      <4>2. QED  BY <1>4, <4>1 DEF LoopInv, DrawTypeOK
    <3>3. QED  BY <3>1, <3>2
  <2>2. QED  BY <2>1
<1>6. perm' \in Orders(n)
  <2>1. i - 1 \in 0..(n - 1) /\ j \in 0..(n - 1)  BY <1>1
  <2>2. QED  BY <1>1, <1>2, <2>1, SwapPermutes
<1>7. DrawTypeOK'
  BY <1>1, <1>3, <1>4, <1>5, <1>6 DEF LoopInv, DrawTypeOK
<1>8. PICK after : IsShuffle(after, drawn, n, n - i) /\ perm = after[n - i]
  BY DEF LoopInv, SoFar
<1>9. PICK more : IsShuffle(more, drawn', n, r)  BY <1>3, ShuffleExists
<1>10. more[n - i] = after[n - i]
  <2> PICK last \in Nat : last = n - i  BY <1>3
  <2> PICK la, now : la = r /\ now = drawn'  OBVIOUS
  <2>1. 0..last \subseteq 0..la /\ 0..last \subseteq 0..last /\ last \in 0..last  BY <1>3
  <2>2. IsShuffle(more, now, n, la) /\ IsShuffle(after, drawn, n, last)  BY <1>8, <1>9
  <2>3. SameDraws(now, drawn, last)  BY <1>4 DEF SameDraws
  <2> HIDE DEF r
  <2>4. SameOrders(more, after, last)  BY <2>1, <2>2, <2>3, ShufflesAgree, Zenon
  <2>5. QED  BY <2>1, <2>4 DEF SameOrders
<1>11. more[r] = perm'
  <2>1. r \in 0..r /\ r # 0  BY <1>3
  <2>2. more[r] = Swap(more[r - 1], n - r, drawn'[r] % (n - r + 1))
    BY <1>9, <2>1, Zenon DEF IsShuffle
  <2>3. j % i = j  BY <1>1
  <2>4. QED  BY <1>2, <1>3, <1>4, <1>8, <1>10, <2>2, <2>3
<1> HIDE DEF r
<1>12. SoFar'  BY <1>1, <1>3, <1>9, <1>11 DEF SoFar
<1>13. QED  BY <1>7, <1>12 DEF LoopInv

\* So does every step.
LEMMA LoopStep == LoopInv /\ [DrawNext]_drawVars => LoopInv'
<1> SUFFICES ASSUME LoopInv, [DrawNext]_drawVars  PROVE LoopInv'
  OBVIOUS
<1>1. CASE LargerField
  <2>1. n \in MIN_PARTICIPANTS..MAX_PARTICIPANTS /\ n < Largest /\ i = n
    BY <1>1 DEF LoopInv, DrawTypeOK, LargerField
  <2>2. n' \in MIN_PARTICIPANTS..MAX_PARTICIPANTS
    BY <1>1, <2>1, LargestAssumption DEF LargerField, MIN_PARTICIPANTS, MAX_PARTICIPANTS
  <2>3. drawn = <<>>
    <3>1. drawn \in Seq(Nat) /\ Len(drawn) = n - n /\ n \in Nat
      BY <2>1 DEF LoopInv, DrawTypeOK, MIN_PARTICIPANTS
    <3>2. Len(drawn) = 0  BY <3>1
    <3>3. QED  BY <3>1, <3>2
  <2>4. i' = n' /\ drawn' = <<>> /\ perm' = Identity(n)'
    BY <1>1, <2>3 DEF LargerField, Identity
  <2>5. Fresh'  BY <2>2, <2>4 DEF Fresh
  <2>6. QED  BY <2>5, FreshNext
<1>2. CASE SwapNext  BY <1>2, SwapLoop
<1>3. CASE UNCHANGED drawVars
  BY <1>3 DEF drawVars, LoopInv, DrawTypeOK, SoFar
<1>4. QED  BY <1>1, <1>2, <1>3 DEF DrawNext

(***************************************************************************)
(* The inductive invariant of the loop of seed_permutation: the draws so   *)
(* far are in range, the order is one of the join numbers, and it is what  *)
(* the first n - i rounds of the function make of those draws.             *)
(***************************************************************************)
THEOREM LoopInvariant == DrawSpec => []LoopInv
<1>1. DrawInit => LoopInv
  <2> SUFFICES ASSUME DrawInit  PROVE LoopInv
    OBVIOUS
  <2>1. n \in MIN_PARTICIPANTS..MAX_PARTICIPANTS
    BY DEF DrawInit, MIN_PARTICIPANTS, MAX_PARTICIPANTS
  <2>2. QED  BY <2>1, NothingDrawn DEF DrawInit, Fresh
<1>2. QED  BY <1>1, LoopStep, PTL DEF DrawSpec

(***************************************************************************)
(* No entrant is lost or doubled by a swap of seed_permutation, for fields *)
(* of every size the program accepts and whatever is drawn.                *)
(***************************************************************************)
THEOREM ShuffleLosesNobody == DrawSpec => []NobodyIsLost
<1>1. LoopInv => NobodyIsLost
  BY OrdersAreOnto DEF LoopInv, DrawTypeOK, NobodyIsLost, MIN_PARTICIPANTS
<1>2. QED  BY <1>1, LoopInvariant, PTL

\* At its end the loop has run all the rounds.
LEMMA DoneIsTheFunction == LoopInv => LoopIsTheFunction
<1> SUFFICES ASSUME LoopInv, i = 1  PROVE perm = SeedPermutation(drawn, n)
  BY DEF LoopIsTheFunction
<1>1. n \in Nat \ {0}  BY DEF LoopInv, DrawTypeOK, MIN_PARTICIPANTS
<1>2. PICK after : IsShuffle(after, drawn, n, n - 1) /\ perm = after[n - 1]
  BY DEF LoopInv, SoFar
<1>3. PICK run : IsShuffle(run, drawn, n, n - 1) /\ SeedPermutation(drawn, n) = run[n - 1]
  BY <1>1, ShuffleIsRun
<1>4. PICK last \in Nat : last = n - 1 /\ 0..last \subseteq 0..last /\ last \in 0..last  BY <1>1
<1>5. IsShuffle(after, drawn, n, last) /\ IsShuffle(run, drawn, n, last)
  BY <1>2, <1>3, <1>4
<1>6. SameDraws(drawn, drawn, last)  BY DEF SameDraws
<1>7. SameOrders(after, run, last)  BY <1>4, <1>5, <1>6, ShufflesAgree, Zenon
<1>8. QED  BY <1>2, <1>3, <1>4, <1>7 DEF SameOrders

(***************************************************************************)
(* When the loop of seed_permutation ends, the order is the one of the     *)
(* function SeedPermutation, which stands for the loop in the other        *)
(* modules.                                                                *)
(***************************************************************************)
THEOREM LoopComputesTheFunction == DrawSpec => []LoopIsTheFunction
BY DoneIsTheFunction, LoopInvariant, PTL

\* A draw below its modulus is its own remainder.
LEMMA SmallModulo ==
  ASSUME NEW z \in Nat \ {0}, NEW x \in 0..(z - 1)
  PROVE  x % z = x
OBVIOUS

(***************************************************************************)
(* The first draw in which two streams differ shows in the order.          *)
(***************************************************************************)
LEMMA DrawsShow ==
  ASSUME NEW field \in Nat \ {0}, NEW one, NEW two,
         \A k \in 1..(field - 1) : one[k] \in 0..(field - k) /\ two[k] \in 0..(field - k),
         SeedPermutation(one, field) = SeedPermutation(two, field)
  PROVE  \A k \in 1..(field - 1) : one[k] = two[k]
<1> SUFFICES ASSUME NEW T, T = {k \in 1..(field - 1) : one[k] # two[k]}, T # {}
             PROVE  FALSE
  <2>1. PICK T : T = {k \in 1..(field - 1) : one[k] # two[k]}  OBVIOUS
  <2>2. QED  BY <2>1
<1>1. PICK k \in T : \A l \in T : k <= l
  <2>1. T \in SUBSET Nat  OBVIOUS
  <2>2. QED  BY <2>1, LeastNumber
<1>2. k \in 1..(field - 1) /\ one[k] # two[k]  OBVIOUS
<1>3. \A l \in 1..(k - 1) : one[l] = two[l]  BY <1>1, <1>2
<1>4. /\ \A l \in 1..(field - 1) : one[l] \in Nat
      /\ \A l \in 1..(field - 1) : two[l] \in Nat
  OBVIOUS
<1>5. PICK a : IsShuffle(a, one, field, field - 1) /\ SeedPermutation(one, field) = a[field - 1]
  BY ShuffleIsRun
<1>6. PICK b : IsShuffle(b, two, field, field - 1) /\ SeedPermutation(two, field) = b[field - 1]
  BY ShuffleIsRun
<1>7. /\ k - 1 \in Nat /\ field - 1 \in Nat /\ k - 1 <= field - 1 /\ k - 1 \in 0..(k - 1)
      /\ k - 1 \in 0..(field - 1) /\ field - 1 \in 0..(field - 1)
  BY <1>2
<1>8. PICK order : order = a[k - 1] /\ order = b[k - 1]
  <2> PICK last \in Nat : last = k - 1  BY <1>7
  <2>1. PICK la : la = field - 1  OBVIOUS
  <2>2. 0..last \subseteq 0..la /\ SameDraws(one, two, last)
    BY <1>3, <1>7, <2>1 DEF SameDraws
  <2>3. IsShuffle(a, one, field, la) /\ IsShuffle(b, two, field, la)  BY <1>5, <1>6, <2>1
  <2>4. SameOrders(a, b, last)  BY <2>2, <2>3, ShufflesAgree, Zenon
  <2>5. QED  BY <1>7, <2>1, <2>4 DEF SameOrders
<1>9. order \in Orders(field)  BY <1>4, <1>5, <1>7, <1>8, ShufflePermutes
<1>10. PICK i0 : i0 = field - k  OBVIOUS
<1>11. i0 \in 0..(field - 1) /\ one[k] \in 0..i0 /\ two[k] \in 0..i0 /\ i0 \in Nat
  BY <1>2, <1>10
<1>12. one[k] % (i0 + 1) = one[k] /\ two[k] % (i0 + 1) = two[k]
  <2>1. PICK x, y, z : x = one[k] /\ y = two[k] /\ z = i0 + 1  OBVIOUS
  <2>2. z \in Nat \ {0} /\ x \in 0..(z - 1) /\ y \in 0..(z - 1)  BY <1>11, <2>1
  <2>3. x % z = x  BY <2>2, SmallModulo
  <2>4. y % z = y  BY <2>2, SmallModulo
  <2>5. QED  BY <2>1, <2>3, <2>4
<1>13. a[k] = Swap(order, i0, one[k]) /\ b[k] = Swap(order, i0, two[k])
  <2>1. a[k] = Swap(a[k - 1], field - k, one[k] % (field - k + 1))
    BY <1>2, <1>4, <1>5, <1>7, ShuffleStep
  <2>2. b[k] = Swap(b[k - 1], field - k, two[k] % (field - k + 1))
    BY <1>2, <1>4, <1>6, <1>7, ShuffleStep
  <2>3. QED  BY <1>8, <1>10, <1>12, <2>1, <2>2
<1>14. one[k] \in 0..(field - 1) /\ two[k] \in 0..(field - 1)  BY <1>11
<1>15. a[k][i0] = order[one[k]] /\ b[k][i0] = order[two[k]]
  <2>1. \A j \in 0..(field - 1) : Swap(order, i0, j)[i0] = order[j]
    BY <1>9, <1>11, SwapPermutes
  <2>2. QED  BY <1>13, <1>14, <2>1
<1>16. a[k][i0] # b[k][i0]  BY <1>2, <1>9, <1>14, <1>15 DEF Orders
<1>17. a[field - 1][i0] = a[k][i0]  BY <1>2, <1>4, <1>5, <1>10, ShuffleSettles
<1>18. b[field - 1][i0] = b[k][i0]  BY <1>2, <1>4, <1>6, <1>10, ShuffleSettles
<1>19. QED  BY <1>5, <1>6, <1>16, <1>17, <1>18

(***************************************************************************)
(* Different draws give different orders, for every field: no order of the *)
(* entrants is reached by two ways of drawing, so uniform draws of         *)
(* seed_permutation would make every order equally likely.                 *)
(***************************************************************************)
THEOREM EveryOrderHasOneDraw == DrawSpec => []EveryOrderOnce
<1>1. LoopInv => EveryOrderOnce
  <2> SUFFICES ASSUME LoopInv, i = 1, NEW other \in AllDraws, SeedPermutation(other, n) = perm
               PROVE  other = drawn
    BY DEF EveryOrderOnce
  <2>1. n \in Nat \ {0} /\ drawn \in Seq(Nat) /\ Len(drawn) = n - 1
    BY DEF LoopInv, DrawTypeOK, MIN_PARTICIPANTS
  <2>2. SeedPermutation(drawn, n) = perm  BY DoneIsTheFunction DEF LoopIsTheFunction
  <2>3. \A k \in 1..(n - 1) : other[k] \in 0..(n - k) /\ drawn[k] \in 0..(n - k)
    <3>1. ASSUME NEW k \in 1..(n - 1)  PROVE other[k] \in 0..(n - k)
      <4>1. other[k] \in 0..(n - 1) /\ other[k] <= n - k  BY DEF AllDraws
      <4>2. QED  BY <2>1, <4>1
    <3>2. QED  BY <3>1 DEF LoopInv, DrawTypeOK
  <2>4. \A k \in 1..(n - 1) : other[k] = drawn[k]
    <3>1. SeedPermutation(other, n) = SeedPermutation(drawn, n)  BY <2>2
    <3>2. QED  BY <2>1, <2>3, <3>1, DrawsShow
  <2>5. other = [k \in 1..(n - 1) |-> other[k]]  BY DEF AllDraws
  <2>6. drawn = [k \in 1..(n - 1) |-> drawn[k]]  BY <2>1
  <2>7. QED  BY <2>4, <2>5, <2>6
<1>2. QED  BY <1>1, LoopInvariant, PTL

(***************************************************************************)
(* The geometry                                                            *)
(***************************************************************************)

\* A pair of two different things.
LEMMA TwoElements ==
  ASSUME NEW a, NEW b, a # b
  PROVE  Cardinality({a, b}) = 2
<1>1. IsFiniteSet({a}) /\ Cardinality({a}) = 1  BY FS_Singleton
<1>2. Cardinality({a} \cup {b}) = Cardinality({a}) + 1  BY <1>1, FS_AddElement
<1>3. {a} \cup {b} = {a, b}  OBVIOUS
<1>4. QED  BY <1>1, <1>2, <1>3

\* The bracket of an accepted field.
LEMMA FieldBrackets ==
  ASSUME n \in MIN_PARTICIPANTS..MAX_PARTICIPANTS
  PROVE  /\ size \in PowersOfTwo /\ size \in Nat /\ n \in Nat /\ n >= 2
         /\ n <= size /\ size < 2 * n /\ size >= 2
<1>1. size \in PowersOfTwo /\ n <= size /\ size < 2 * n  BY BracketSizeFits DEF size
<1>2. n \in Nat /\ n >= 2  BY DEF MIN_PARTICIPANTS, MAX_PARTICIPANTS
<1>3. size \in Nat  BY <1>1, PowersListed
<1>4. QED  BY <1>1, <1>2, <1>3

\* The fields of a match of the only lane.
LEMMA MatchShape ==
  ASSUME n \in MIN_PARTICIPANTS..MAX_PARTICIPANTS, NEW m \in All
  PROVE  /\ m \in MatchIds({0}, size) /\ m \in [lane : {0}, round : Nat, index : Nat]
         /\ m = [lane |-> 0, round |-> m.round, index |-> m.index]
         /\ m.lane = 0 /\ m.round \in Nat /\ m.index \in Nat
<1>1. size \in PowersOfTwo  BY FieldBrackets
<1>2. m \in MatchIds({0}, size)  BY DEF All
<1>3. QED  BY <1>1, <1>2, MatchFields

\* The matches of the bracket, counted.
LEMMA BracketIsATree ==
  ASSUME n \in MIN_PARTICIPANTS..MAX_PARTICIPANTS
  PROVE  OneTree
<1>1. /\ size \in PowersOfTwo /\ size \in Nat /\ n \in Nat
      /\ n <= size /\ size < 2 * n /\ size >= 2
  BY FieldBrackets
<1>2. size \div 2 < n  BY <1>1
<1>3. Cardinality(All) = size - 1  BY <1>1, OneLessThanItsSlots DEF All
<1>4. Cardinality({m \in All : IsFinal(m, size)}) = 1
  <2>1. PICK final \in All : IsFinal(final, size)  BY <1>1, TheFinal DEF All
  <2>2. ASSUME NEW m \in All, IsFinal(m, size)  PROVE m = final
    <3>1. m.round = final.round /\ m.index = final.index
      BY <2>1, <2>2, MatchShape DEF IsFinal
    <3>2. QED  BY <3>1, MatchShape
  <2>3. {m \in All : IsFinal(m, size)} = {final}  BY <2>1, <2>2
  <2>4. QED  BY <2>3, FS_Singleton
<1>5. ASSUME NEW m \in All
      PROVE  Cardinality({next \in All : FeedsInto(m, next)}) = IF IsFinal(m, size) THEN 0 ELSE 1
  <2>1. CASE IsFinal(m, size)
    <3>1. ASSUME NEW next \in All  PROVE ~FeedsInto(m, next)
      <4>1. next.round < MaxRound(size) /\ next.round \in Nat /\ m.round \in Nat
        BY <1>1, MatchFields DEF All
      <4>2. QED  BY <2>1, <4>1 DEF IsFinal, FeedsInto
    <3>2. {next \in All : FeedsInto(m, next)} = {}  BY <3>1
    <3>3. QED  BY <2>1, <3>2, FS_EmptySet
  <2>2. CASE ~IsFinal(m, size)
    <3>1. PICK next \in All : FeedsInto(m, next)  BY <1>1, <2>2, ParentExists DEF All
    <3>2. ASSUME NEW other \in All, FeedsInto(m, other)  PROVE other = next
      BY <3>1, <3>2, MatchShape, OneWayUp
    <3>3. {other \in All : FeedsInto(m, other)} = {next}  BY <3>1, <3>2
    <3>4. QED  BY <2>2, <3>3, FS_Singleton
  <2>3. QED  BY <2>1, <2>2
<1>6. ASSUME NEW next \in All \ FirstRound
      PROVE  LET feeders == {m \in All : FeedsInto(m, next)}
             IN  Cardinality(feeders) = 2 /\ {IsLeftChild(m) : m \in feeders} = BOOLEAN
  <2> DEFINE feeders == {m \in All : FeedsInto(m, next)}
  <2>1. next \in All /\ next.round # 0  BY DEF FirstRound
  <2>2. PICK left \in All : FeedsInto(left, next) /\ IsLeftChild(left)
    BY <1>1, <2>1, FeedersExist DEF All
  <2>3. PICK right \in All : FeedsInto(right, next) /\ ~IsLeftChild(right)
    BY <1>1, <2>1, FeedersExist DEF All
  <2>4. ASSUME NEW m \in All, FeedsInto(m, next)  PROVE m \in {left, right}
    <3>1. CASE IsLeftChild(m)
      <4>1. IsLeftChild(m) <=> IsLeftChild(left)  BY <2>2, <3>1
      <4>2. m = left  BY <2>1, <2>2, <2>4, <4>1, MatchShape, OneWayUp
      <4>3. QED  BY <4>2
    <3>2. CASE ~IsLeftChild(m)
      <4>1. IsLeftChild(m) <=> IsLeftChild(right)  BY <2>3, <3>2
      <4>2. m = right  BY <2>1, <2>3, <2>4, <4>1, MatchShape, OneWayUp
      <4>3. QED  BY <4>2
    <3>3. QED  BY <3>1, <3>2
  <2>5. feeders = {left, right}  BY <2>2, <2>3, <2>4
  <2>6. left # right  BY <2>2, <2>3
  <2>7. Cardinality(feeders) = 2
    <3>1. Cardinality({left, right}) = 2  BY <2>6, TwoElements
    <3>2. QED  BY <2>5, <3>1, Zenon
  <2>8. IsLeftChild(left) = TRUE /\ IsLeftChild(right) = FALSE
    BY <2>2, <2>3 DEF IsLeftChild
  <2>9. {IsLeftChild(m) : m \in feeders} = BOOLEAN
    <3>1. \A m \in feeders : m = left \/ m = right  BY <2>5
    <3>2. left \in feeders /\ right \in feeders  BY <2>5
    <3>3. \A b : b \in {IsLeftChild(m) : m \in feeders} <=> b \in {TRUE, FALSE}
      BY <2>8, <3>1, <3>2, Zenon
    <3>4. QED  BY <3>3, Zenon
  <2>10. QED  BY <2>7, <2>9
<1>7. QED  BY <1>1, <1>2, <1>3, <1>4, <1>5, <1>6, Zenon DEF OneTree

(***************************************************************************)
(* For every field size the match PDAs form one binary tree: size - 1      *)
(* matches, one final, one successor each, and a left and a right feeder   *)
(* that cannot collide in a slot of advance_winner.                        *)
(***************************************************************************)
THEOREM EveryFieldHasATree == DrawSpec => []OneTree
<1>1. LoopInv => OneTree  BY BracketIsATree DEF LoopInv, DrawTypeOK
<1>2. QED  BY <1>1, LoopInvariant, PTL

\* The pairing of the first round, counted.
LEMMA EveryRankMeets ==
  ASSUME n \in MIN_PARTICIPANTS..MAX_PARTICIPANTS
  PROVE  RanksMeetOnce
<1>1. /\ size \in PowersOfTwo /\ size \in Nat /\ n \in Nat /\ n >= 2
      /\ n <= size /\ size < 2 * n /\ size >= 2
  BY FieldBrackets
<1> DEFINE at(k) == [lane |-> 0, round |-> 0, index |-> k]
           Half == 0..(size \div 2 - 1)
<1>2. \A m : m \in FirstRound <=> \E k \in Half : m = at(k)
  BY <1>1, RoundZero DEF FirstRound, All
<1>3. \A k \in Half : at(k) \in FirstRound /\ at(k).index = k  BY <1>2
<1>4. \A m \in FirstRound : m.index \in Half /\ m = at(m.index)  BY <1>2
<1> HIDE DEF at
<1>5. ASSUME NEW rank \in 0..(n - 1)
      PROVE  Cardinality({m \in FirstRound :
                             rank \in {m.index, OpponentRank(m.index, size)}}) = 1
  <2>1. PICK k \in Half : \A other \in Half :
                             (rank \in {other, OpponentRank(other, size)}) <=> (other = k)
    <3>1. \E k \in 0..(BracketSize(n) \div 2 - 1) :
            \A other \in 0..(BracketSize(n) \div 2 - 1) :
              (rank \in {other, OpponentRank(other, BracketSize(n))}) <=> (other = k)
      BY RankHasOneMatch, Zenon
    <3>2. QED  BY <3>1, Zenon DEF size
  <2>2. {m \in FirstRound : rank \in {m.index, OpponentRank(m.index, size)}} = {at(k)}
    BY <1>3, <1>4, <2>1
  <2>3. QED  BY <2>2, FS_Singleton
<1>6. ASSUME NEW m \in FirstRound
      PROVE  m.index < n /\ m.index # OpponentRank(m.index, size)
  <2>1. m.index \in 0..(BracketSize(n) \div 2 - 1)  BY <1>4 DEF size
  <2>2. m.index \in 0..(n - 1) /\ OpponentRank(m.index, size) # m.index
    BY <2>1, NoDoubleBye DEF size
  <2>3. QED  BY <1>1, <2>2
<1>7. {m.index : m \in {b \in FirstRound : IsBye(b.index, size, n)}} = 0..(size - n - 1)
  <2>1. ASSUME NEW m \in FirstRound, IsBye(m.index, size, n)  PROVE m.index \in 0..(size - n - 1)
    BY <1>1, <1>4, <2>1 DEF IsBye, OpponentRank
  <2>2. ASSUME NEW k \in 0..(size - n - 1)
        PROVE  k \in Half /\ IsBye(k, size, n)
    <3>1. size \div 2 < n /\ size <= 2 * (size \div 2) + 1  BY <1>1
    <3>2. size = 2 * (size \div 2)
      <4>1. size \in {1, 2, 4, 8, 16, 32, 64, 128}  BY <1>1, PowersListed
      <4>2. QED  BY <1>1, <4>1
    <3>3. QED  BY <1>1, <3>1, <3>2 DEF IsBye, OpponentRank
  <2>3. QED  BY <1>3, <2>1, <2>2
<1>8. QED  BY <1>5, <1>6, <1>7, Zenon DEF RanksMeetOnce

(***************************************************************************)
(* For every field size the first round of round0_expected seats every     *)
(* rank once, never pairs two byes, and gives the byes to the top size - n *)
(* ranks.                                                                  *)
(***************************************************************************)
THEOREM EveryFieldMeetsOnce == DrawSpec => []RanksMeetOnce
<1>1. LoopInv => RanksMeetOnce  BY EveryRankMeets DEF LoopInv, DrawTypeOK
<1>2. QED  BY <1>1, LoopInvariant, PTL

(***************************************************************************)
(* The payout                                                              *)
(***************************************************************************)
PoolTypes == gross \in Nat /\ preset \in PayoutPreset /\ validate_custom(preset)

\* The preset stays one that create_tournament lets through.
THEOREM PoolInvariant == PoolSpec => []PoolTypes
<1>1. PoolInit => PoolTypes  BY CheckedAssumption DEF PoolInit, PoolTypes
<1>2. PoolTypes /\ [PoolGrows]_poolVars => PoolTypes'
  BY DEF PoolTypes, PoolGrows, poolVars, validate_custom
<1>3. QED  BY <1>1, <1>2, PTL DEF PoolSpec

\* The fee and the split of such a preset.
LEMMA PoolSplit ==
  ASSUME PoolTypes
  PROVE  /\ gross \in Nat /\ net \in Nat
         /\ protocol_fee(gross) \in Nat /\ net = gross - protocol_fee(gross)
         /\ protocol_fee(gross) * BPS_DENOMINATOR <= gross * PROTOCOL_FEE_BPS
         /\ bps \in [Slots -> Nat] /\ ValidSplit(bps) /\ count \in Slots
         /\ {slot \in Slots : bps[slot] > 0} = 1..count
         /\ \A slot \in Slots : bps[slot] \in Nat /\ (slot > count => bps[slot] = 0)
<1>1. gross \in Nat /\ preset \in PayoutPreset /\ validate_custom(preset)  BY DEF PoolTypes
<1>2. /\ bps \in [Slots -> Nat] /\ ValidSplit(bps) /\ count \in Slots
      /\ {slot \in Slots : bps[slot] > 0} = 1..count
  BY <1>1, GenuineSplits DEF bps, count
<1>3. \A slot \in Slots : bps[slot] \in Nat /\ (slot > count => bps[slot] = 0)
  BY <1>2 DEF Slots, MAX_PAYOUT_SLOTS
<1>4. /\ protocol_fee(gross) \in Nat /\ protocol_fee(gross) <= gross
      /\ protocol_fee(gross) * BPS_DENOMINATOR <= gross * PROTOCOL_FEE_BPS
  BY <1>1 DEF protocol_fee, BPS_DENOMINATOR, PROTOCOL_FEE_BPS
<1>5. QED  BY <1>1, <1>2, <1>3, <1>4 DEF net

\* What a slot below the champion's gets, and what it is due.
LEMMA LowerFloors ==
  ASSUME PoolTypes, NEW slot \in Slots
  PROVE  /\ net * bps[slot] \in Nat
         /\ FlooredShare(net, bps, count, slot) \in Nat
         /\ IsFloor(FlooredShare(net, bps, count, slot), bps[slot])
         /\ slot > count => net * bps[slot] = 0 /\ FlooredShare(net, bps, count, slot) = 0
         /\ slot # 1 => amounts[slot] = FlooredShare(net, bps, count, slot)
<1>1. net \in Nat /\ bps[slot] \in Nat /\ (slot > count => bps[slot] = 0)
      /\ count \in Slots
  BY PoolSplit
<1>2. PICK due : due = net * bps[slot]  OBVIOUS
<1>3. due \in Nat  BY <1>1, <1>2, NaturalProduct
<1>4. slot > count => due = 0  BY <1>1, <1>2
<1>5. /\ due \div BPS_DENOMINATOR \in Nat
      /\ BPS_DENOMINATOR * (due \div BPS_DENOMINATOR) <= due
      /\ due < BPS_DENOMINATOR * (due \div BPS_DENOMINATOR) + BPS_DENOMINATOR
  BY <1>3, FloorBounds
<1>6. FlooredShare(net, bps, count, slot)
        = IF slot <= count THEN due \div BPS_DENOMINATOR ELSE 0
  BY <1>2 DEF FlooredShare
<1>7. slot \in Int /\ count \in Int  BY <1>1 DEF Slots, MAX_PAYOUT_SLOTS
<1>8. PICK share : share = FlooredShare(net, bps, count, slot)  OBVIOUS
<1>9. /\ share \in Nat /\ share * BPS_DENOMINATOR <= due
      /\ due < (share + 1) * BPS_DENOMINATOR
      /\ slot > count => share = 0
  BY <1>3, <1>4, <1>5, <1>6, <1>7, <1>8 DEF BPS_DENOMINATOR
<1>10. slot # 1 => amounts[slot] = share
  BY <1>8 DEF amounts, split_placements
<1>11. QED  BY <1>2, <1>3, <1>4, <1>8, <1>9, <1>10 DEF IsFloor

\* Eight remainders of less than a token, the unfunded ones nothing.
LEMMA Remainders ==
  ASSUME NEW last \in Int, last >= 1, last <= 8, NEW dust \in Int,
         NEW r1 \in Nat, NEW r2 \in Nat, NEW r3 \in Nat, NEW r4 \in Nat,
         NEW r5 \in Nat, NEW r6 \in Nat, NEW r7 \in Nat, NEW r8 \in Nat,
         r1 < 10000, r2 < 10000, r3 < 10000, r4 < 10000,
         r5 < 10000, r6 < 10000, r7 < 10000, r8 < 10000,
         2 > last => r2 = 0, 3 > last => r3 = 0, 4 > last => r4 = 0, 5 > last => r5 = 0,
         6 > last => r6 = 0, 7 > last => r7 = 0, 8 > last => r8 = 0,
         10000 * dust = r1 + r2 + r3 + r4 + r5 + r6 + r7 + r8
  PROVE  0 <= dust /\ dust < last
<1>1. dust >= 0  OBVIOUS
<1>2. 10000 * dust <= 9999 * last  OBVIOUS
<1>3. QED  BY <1>1, <1>2

\* Floors fall short of their shares by less than one token for each funded place.
LEMMA DustBounded ==
  ASSUME NEW pool \in Int, NEW last \in Slots, NEW due \in [Slots -> Nat], NEW floor \in [Slots -> Nat],
         SlotSum(due) = pool * BPS_DENOMINATOR,
         \A slot \in Slots : /\ floor[slot] * BPS_DENOMINATOR <= due[slot]
                             /\ due[slot] < (floor[slot] + 1) * BPS_DENOMINATOR
                             /\ slot > last => due[slot] = 0 /\ floor[slot] = 0
  PROVE  pool - SlotSum(floor) \in 0..(last - 1)
<1>1. Slots = {1, 2, 3, 4, 5, 6, 7, 8}  BY DEF Slots, MAX_PAYOUT_SLOTS
<1> DEFINE rest == [slot \in Slots |-> due[slot] - 10000 * floor[slot]]
<1>2. \A slot \in Slots : /\ due[slot] \in Nat /\ floor[slot] \in Nat
                          /\ rest[slot] \in Nat /\ rest[slot] < 10000
                          /\ slot > last => rest[slot] = 0
                          /\ rest[slot] = due[slot] - 10000 * floor[slot]
  <2>1. ASSUME NEW d \in Nat, NEW f \in Nat, f * BPS_DENOMINATOR <= d,
               d < (f + 1) * BPS_DENOMINATOR
        PROVE  d - 10000 * f \in Nat /\ d - 10000 * f < 10000
    BY <2>1 DEF BPS_DENOMINATOR
  <2>2. \A slot \in Slots : slot > last => due[slot] - 10000 * floor[slot] = 0
    OBVIOUS
  <2>3. \A slot \in Slots : /\ due[slot] - 10000 * floor[slot] \in Nat
                            /\ due[slot] - 10000 * floor[slot] < 10000
    BY <2>1
  <2>4. QED  BY <2>2, <2>3
<1> HIDE DEF rest
<1>3. /\ rest[1] \in Nat /\ rest[2] \in Nat /\ rest[3] \in Nat /\ rest[4] \in Nat
      /\ rest[5] \in Nat /\ rest[6] \in Nat /\ rest[7] \in Nat /\ rest[8] \in Nat
      /\ rest[1] < 10000 /\ rest[2] < 10000 /\ rest[3] < 10000 /\ rest[4] < 10000
      /\ rest[5] < 10000 /\ rest[6] < 10000 /\ rest[7] < 10000 /\ rest[8] < 10000
  BY <1>1, <1>2
<1>4. /\ 2 > last => rest[2] = 0
      /\ 3 > last => rest[3] = 0
      /\ 4 > last => rest[4] = 0
      /\ 5 > last => rest[5] = 0
      /\ 6 > last => rest[6] = 0
      /\ 7 > last => rest[7] = 0
      /\ 8 > last => rest[8] = 0
  BY <1>1, <1>2
<1>5. /\ pool - SlotSum(floor) \in Int
      /\ 10000 * (pool - SlotSum(floor))
        = rest[1] + rest[2] + rest[3] + rest[4] + rest[5] + rest[6] + rest[7] + rest[8]
  <2>1. PICK r1, r2, r3, r4, r5, r6, r7, r8 :
             /\ r1 = rest[1] /\ r2 = rest[2] /\ r3 = rest[3] /\ r4 = rest[4]
             /\ r5 = rest[5] /\ r6 = rest[6] /\ r7 = rest[7] /\ r8 = rest[8]
    OBVIOUS
  <2>2. PICK f1, f2, f3, f4, f5, f6, f7, f8 :
             /\ f1 = floor[1] /\ f2 = floor[2] /\ f3 = floor[3] /\ f4 = floor[4]
             /\ f5 = floor[5] /\ f6 = floor[6] /\ f7 = floor[7] /\ f8 = floor[8]
    OBVIOUS
  <2>3. PICK d1, d2, d3, d4, d5, d6, d7, d8 :
             /\ d1 = due[1] /\ d2 = due[2] /\ d3 = due[3] /\ d4 = due[4]
             /\ d5 = due[5] /\ d6 = due[6] /\ d7 = due[7] /\ d8 = due[8]
    OBVIOUS
  <2>4. /\ f1 \in Nat /\ f2 \in Nat /\ f3 \in Nat /\ f4 \in Nat
        /\ f5 \in Nat /\ f6 \in Nat /\ f7 \in Nat /\ f8 \in Nat
        /\ d1 \in Nat /\ d2 \in Nat /\ d3 \in Nat /\ d4 \in Nat
        /\ d5 \in Nat /\ d6 \in Nat /\ d7 \in Nat /\ d8 \in Nat
    BY <1>1, <2>2, <2>3
  <2>5. /\ r1 = d1 - 10000 * f1 /\ r2 = d2 - 10000 * f2 /\ r3 = d3 - 10000 * f3
        /\ r4 = d4 - 10000 * f4 /\ r5 = d5 - 10000 * f5 /\ r6 = d6 - 10000 * f6
        /\ r7 = d7 - 10000 * f7 /\ r8 = d8 - 10000 * f8
    <3>1. \A slot \in Slots : rest[slot] = due[slot] - 10000 * floor[slot]  BY <1>2
    <3>2. QED  BY <1>1, <2>1, <2>2, <2>3, <3>1
  <2>6. SlotSum(floor) = f1 + f2 + f3 + f4 + f5 + f6 + f7 + f8  BY <2>2 DEF SlotSum
  <2>7. d1 + d2 + d3 + d4 + d5 + d6 + d7 + d8 = pool * 10000
    BY <2>3 DEF SlotSum, BPS_DENOMINATOR
  <2>8. /\ pool - SlotSum(floor) \in Int
        /\ 10000 * (pool - SlotSum(floor)) = r1 + r2 + r3 + r4 + r5 + r6 + r7 + r8
    BY <2>4, <2>5, <2>6, <2>7
  <2>9. QED  BY <2>1, <2>8
<1>6. PICK dust : dust = pool - SlotSum(floor)  OBVIOUS
<1>7. last \in Int /\ last >= 1 /\ last <= 8  BY <1>1
<1>8. 0 <= dust /\ dust < last  BY <1>3, <1>4, <1>5, <1>6, <1>7, Remainders
<1>9. QED  BY <1>5, <1>6, <1>7, <1>8

\* The sums of a split, from SplitAddsUp and the floors.
LEMMA AllGoesOut == PoolTypes => WholePoolGoesOut
<1> SUFFICES ASSUME PoolTypes  PROVE WholePoolGoesOut
  OBVIOUS
<1>1. /\ gross \in Nat /\ net \in Nat /\ count \in Slots
      /\ protocol_fee(gross) \in Nat /\ net = gross - protocol_fee(gross)
      /\ protocol_fee(gross) * BPS_DENOMINATOR <= gross * PROTOCOL_FEE_BPS
      /\ bps \in [Slots -> Nat] /\ ValidSplit(bps)
  BY PoolSplit
<1>2. amounts \in [Slots -> Int] /\ SlotSum(amounts) = net
  <2>1. net \in Int /\ bps \in [Slots -> Int] /\ count \in Int
    BY <1>1 DEF Slots, MAX_PAYOUT_SLOTS
  <2>2. QED  BY <2>1, SplitAddsUp DEF amounts
<1>3. SlotSum(amounts) + protocol_fee(gross) = gross  BY <1>1, <1>2
<1>4. \A slot \in Slots \ {1} : IsFloor(amounts[slot], bps[slot])
  BY LowerFloors
<1>5. \E dust \in 0..(count - 1) : IsFloor(amounts[1] - dust, bps[1])
  <2> DEFINE due == [slot \in Slots |-> net * bps[slot]]
             floor == [slot \in Slots |-> FlooredShare(net, bps, count, slot)]
  <2>1. Slots = {1, 2, 3, 4, 5, 6, 7, 8}  BY DEF Slots, MAX_PAYOUT_SLOTS
  <2>2. SlotSum(due) = net * BPS_DENOMINATOR
    <3>1. bps[1] + bps[2] + bps[3] + bps[4] + bps[5] + bps[6] + bps[7] + bps[8]
            = BPS_DENOMINATOR
      BY <1>1 DEF ValidSplit, SlotSum
    <3>2. /\ bps[1] \in Int /\ bps[2] \in Int /\ bps[3] \in Int /\ bps[4] \in Int
          /\ bps[5] \in Int /\ bps[6] \in Int /\ bps[7] \in Int /\ bps[8] \in Int
      BY <1>1, <2>1
    <3>3. net * (bps[1] + bps[2] + bps[3] + bps[4] + bps[5] + bps[6] + bps[7] + bps[8])
            = net * bps[1] + net * bps[2] + net * bps[3] + net * bps[4]
                + net * bps[5] + net * bps[6] + net * bps[7] + net * bps[8]
      BY <1>1, <3>2, SlotProduct
    <3>4. SlotSum(due) = net * bps[1] + net * bps[2] + net * bps[3] + net * bps[4]
                           + net * bps[5] + net * bps[6] + net * bps[7] + net * bps[8]
      BY <2>1 DEF SlotSum
    <3>5. QED  BY <3>1, <3>3, <3>4
  <2>3. /\ due \in [Slots -> Nat] /\ floor \in [Slots -> Nat]
        /\ \A slot \in Slots : /\ floor[slot] * BPS_DENOMINATOR <= due[slot]
                               /\ due[slot] < (floor[slot] + 1) * BPS_DENOMINATOR
                               /\ slot > count => due[slot] = 0 /\ floor[slot] = 0
    BY LowerFloors DEF IsFloor
  <2>4. \A slot \in Slots : floor[slot] = FlooredShare(net, bps, count, slot)  OBVIOUS
  <2> HIDE DEF due, floor
  <2>5. net - SlotSum(floor) \in 0..(count - 1)  BY <1>1, <2>2, <2>3, DustBounded
  <2>6. amounts[1] - (net - SlotSum(floor)) = floor[1]
    <3>1. PICK low : low = floor[2] + floor[3] + floor[4] + floor[5] + floor[6] + floor[7] + floor[8]
      OBVIOUS
    <3>2. /\ floor[1] \in Nat /\ floor[2] \in Nat /\ floor[3] \in Nat /\ floor[4] \in Nat
          /\ floor[5] \in Nat /\ floor[6] \in Nat /\ floor[7] \in Nat /\ floor[8] \in Nat
      BY <2>1, <2>3
    <3>3. SlotSum(floor) = floor[1] + low /\ low \in Int  BY <3>1, <3>2 DEF SlotSum
    <3>4. amounts[1] + low = net /\ amounts[1] \in Int
      <4>1. \A slot \in Slots \ {1} : amounts[slot] = floor[slot]  BY <2>4, LowerFloors
      <4>2. /\ amounts[2] = floor[2] /\ amounts[3] = floor[3] /\ amounts[4] = floor[4]
            /\ amounts[5] = floor[5] /\ amounts[6] = floor[6] /\ amounts[7] = floor[7]
            /\ amounts[8] = floor[8]
        BY <2>1, <4>1
      <4>3. amounts[1] \in Int  BY <1>2, <2>1
      <4>4. QED  BY <1>2, <3>1, <3>2, <4>2, <4>3 DEF SlotSum
    <3>5. PICK s, top, f : s = SlotSum(floor) /\ top = amounts[1] /\ f = floor[1]  OBVIOUS
    <3>6. /\ s = f + low /\ low \in Int /\ top + low = net /\ top \in Int /\ f \in Int
          /\ net \in Int
      BY <1>1, <3>2, <3>3, <3>4, <3>5
    <3>7. top - (net - s) = f  BY <3>6
    <3>8. QED  BY <3>5, <3>7
  <2>7. IsFloor(floor[1], bps[1])  BY <2>1, <2>4, LowerFloors
  <2>8. QED  BY <2>5, <2>6, <2>7
<1>6. QED  BY <1>1, <1>3, <1>4, <1>5 DEF WholePoolGoesOut

(***************************************************************************)
(* For every pool and every preset that create_tournament accepts, fee and *)
(* prizes add up to the pool, every lower place gets its exact floor, and  *)
(* the champion his own floor and less than one token for each other place *)
(* (split_placements).                                                     *)
(***************************************************************************)
THEOREM NoDustNoDebt == PoolSpec => []WholePoolGoesOut
BY AllGoesOut, PoolInvariant, PTL

\* A share that is no smaller does not round to less.
LEMMA FloorsKeepOrder ==
  ASSUME PoolTypes, NEW high \in Slots, NEW low \in Slots, high <= low, bps[low] <= bps[high],
         bps[high] = 0 <=> high > count
  PROVE  FlooredShare(net, bps, count, low) <= FlooredShare(net, bps, count, high)
<1>1. net \in Nat /\ bps[high] \in Nat /\ bps[low] \in Nat  BY PoolSplit
<1>2. net * bps[low] <= net * bps[high]
  <2>1. net * (bps[high] - bps[low]) \in Nat  BY <1>1, NaturalProduct
  <2>2. net * (bps[high] - bps[low]) = net * bps[high] - net * bps[low]
    BY <1>1, TimesDifference
  <2>3. net * bps[high] \in Nat /\ net * bps[low] \in Nat  BY <1>1, NaturalProduct
  <2>4. QED  BY <2>1, <2>2, <2>3
<1>3. PICK a, b, f, g : /\ a = net * bps[low] /\ b = net * bps[high]
                        /\ f = FlooredShare(net, bps, count, low)
                        /\ g = FlooredShare(net, bps, count, high)
  OBVIOUS
<1>4. /\ a \in Nat /\ b \in Nat /\ f \in Nat /\ g \in Nat
      /\ f * BPS_DENOMINATOR <= a /\ b < (g + 1) * BPS_DENOMINATOR
  BY <1>3, LowerFloors DEF IsFloor
<1>5. f <= g  BY <1>2, <1>3, <1>4 DEF BPS_DENOMINATOR
<1>6. QED  BY <1>3, <1>5

\* A prize is at least the floor of its share, and below the champion's exactly that.
LEMMA PrizeAndFloor ==
  ASSUME PoolTypes, NEW slot \in Slots
  PROVE  /\ amounts[slot] \in Int /\ FlooredShare(net, bps, count, slot) \in Nat
         /\ FlooredShare(net, bps, count, slot) <= amounts[slot]
         /\ slot # 1 => amounts[slot] = FlooredShare(net, bps, count, slot)
<1>1. /\ net \in Nat /\ count \in Slots /\ bps \in [Slots -> Nat] /\ ValidSplit(bps)
  BY PoolSplit
<1>2. 1 \in Slots  BY DEF Slots, MAX_PAYOUT_SLOTS
<1>3. amounts \in [Slots -> Int]
  <2>1. net \in Int /\ bps \in [Slots -> Int] /\ count \in Int
    BY <1>1 DEF Slots, MAX_PAYOUT_SLOTS
  <2>2. QED  BY <2>1, SplitAddsUp DEF amounts
<1>4. FlooredShare(net, bps, count, 1) <= amounts[1]
  <2>1. PICK prizes : prizes = split_placements(net, bps, count)  OBVIOUS
  <2>2. prizes[1] >= FlooredShare(net, bps, count, 1)  BY <1>1, <2>1, SplitIsFair
  <2>3. FlooredShare(net, bps, count, 1) \in Nat /\ prizes[1] \in Int
    BY <1>2, <1>3, <2>1, LowerFloors DEF amounts
  <2>4. QED  BY <2>1, <2>2, <2>3 DEF amounts
<1>5. amounts[slot] \in Int  BY <1>3
<1>6. CASE slot = 1  BY <1>4, <1>5, <1>6, LowerFloors
<1>7. CASE slot # 1
  <2>1. PICK share : share = FlooredShare(net, bps, count, slot)  OBVIOUS
  <2>2. share \in Nat /\ amounts[slot] = share  BY <1>7, <2>1, LowerFloors
  <2>3. share <= amounts[slot]  BY <2>2
  <2>4. QED  BY <2>1, <2>2, <2>3
<1>8. QED  BY <1>6, <1>7

\* The places of an accepted preset, and what they are paid.
LEMMA PlacesRank == PoolTypes => PlacesAreARanking
<1> SUFFICES ASSUME PoolTypes  PROVE PlacesAreARanking
  OBVIOUS
<1>1. /\ net \in Nat /\ count \in Slots /\ bps \in [Slots -> Nat] /\ ValidSplit(bps)
      /\ {slot \in Slots : bps[slot] > 0} = 1..count
  BY PoolSplit
<1>2. Slots = {1, 2, 3, 4, 5, 6, 7, 8}  BY DEF Slots, MAX_PAYOUT_SLOTS
<1>3. \A slot \in Slots : bps[slot] \in Nat /\ (bps[slot] > 0 <=> slot <= count)
  <2>1. \A slot \in Slots : bps[slot] \in Nat  BY <1>1
  <2>2. \A slot \in Slots : bps[slot] > 0 <=> slot \in 1..count  BY <1>1
  <2>3. \A slot \in Slots : slot \in 1..count <=> slot <= count
    BY <1>1 DEF Slots, MAX_PAYOUT_SLOTS
  <2>4. QED  BY <2>1, <2>2, <2>3
<1>4. preset.kind # "Custom" => bps \in {PAYOUT_WTA, PAYOUT_STANDARD, PAYOUT_DEEP}
  BY GenuineSplits DEF PoolTypes, bps, basis_points, WinnerTakesAll, Standard, Deep
<1>5. ASSUME preset.kind # "Custom", NEW high \in Slots, NEW low \in Slots, low = high + 1
      PROVE  amounts[high] >= amounts[low]
  <2>1. bps[low] <= bps[high]
    <3>1. high \in {1, 2, 3, 4, 5, 6, 7}  BY <1>2, <1>5
    <3>2. CASE bps = PAYOUT_WTA  BY <1>5, <3>1, <3>2 DEF PAYOUT_WTA
    <3>3. CASE bps = PAYOUT_STANDARD  BY <1>5, <3>1, <3>3 DEF PAYOUT_STANDARD
    <3>4. CASE bps = PAYOUT_DEEP  BY <1>5, <3>1, <3>4 DEF PAYOUT_DEEP
    <3>5. QED  BY <1>4, <1>5, <3>2, <3>3, <3>4
  <2>2. high \in Nat /\ low \in Nat /\ count \in Nat  BY <1>1, <1>2
  <2>3. bps[high] = 0 <=> high > count  BY <1>3, <2>2
  <2>4. high <= low /\ low # 1  BY <1>2, <1>5
  <2>5. FlooredShare(net, bps, count, low) <= FlooredShare(net, bps, count, high)
    BY <2>1, <2>3, <2>4, FloorsKeepOrder
  <2>6. PICK f, g, a, b : /\ f = FlooredShare(net, bps, count, low) /\ a = amounts[low]
                          /\ g = FlooredShare(net, bps, count, high) /\ b = amounts[high]
    OBVIOUS
  <2>7. f \in Nat /\ g \in Nat /\ a = f /\ b \in Int /\ g <= b
    <3>1. /\ FlooredShare(net, bps, count, low) \in Nat
          /\ amounts[low] = FlooredShare(net, bps, count, low)
      BY <2>4, PrizeAndFloor
    <3>2. /\ FlooredShare(net, bps, count, high) \in Nat /\ amounts[high] \in Int
          /\ FlooredShare(net, bps, count, high) <= amounts[high]
      BY PrizeAndFloor
    <3>3. QED  BY <2>6, <3>1, <3>2
  <2>8. b >= a
    <3>1. f <= g  BY <2>5, <2>6
    <3>2. QED  BY <2>7, <3>1
  <2>9. QED  BY <2>6, <2>8
<1>6. preset.kind # "Custom" =>
        \A slot \in 1..(MAX_PAYOUT_SLOTS - 1) : amounts[slot] >= amounts[slot + 1]
  <2>1. \A slot \in 1..(MAX_PAYOUT_SLOTS - 1) : slot \in Slots /\ slot + 1 \in Slots
    BY DEF Slots, MAX_PAYOUT_SLOTS
  <2>2. QED  BY <1>5, <2>1
<1>7. count <= min_participants(preset)
  <2>1. CASE preset.kind = "Custom"
    <3>1. min_participants(preset) = count  BY <2>1 DEF min_participants, count
    <3>2. QED  BY <1>1, <3>1 DEF Slots, MAX_PAYOUT_SLOTS
  <2>2. CASE preset.kind # "Custom"
    <3>1. preset \in {WinnerTakesAll, Standard, Deep}
      BY <2>2, GenuineSplits DEF PoolTypes
    <3>2. CASE preset = WinnerTakesAll
      <4>1. bps[2] = 0  BY <3>2 DEF bps, basis_points, WinnerTakesAll, PAYOUT_WTA
      <4>2. count = 1  BY <1>1, <1>2, <1>3, <4>1
      <4>3. QED  BY <3>2, <4>2 DEF min_participants, WinnerTakesAll
    <3>3. CASE preset = Standard
      <4>1. bps[4] = 0  BY <3>3 DEF bps, basis_points, Standard, PAYOUT_STANDARD
      <4>2. count <= 3  BY <1>1, <1>2, <1>3, <4>1
      <4>3. QED  BY <3>3, <4>2 DEF min_participants, Standard
    <3>4. CASE preset = Deep
      <4>1. bps[8] = 0  BY <3>4 DEF bps, basis_points, Deep, PAYOUT_DEEP
      <4>2. count <= 7  BY <1>1, <1>2, <1>3, <4>1
      <4>3. QED  BY <3>4, <4>2 DEF min_participants, Deep
    <3>5. QED  BY <3>1, <3>2, <3>3, <3>4
  <2>3. QED  BY <2>1, <2>2
<1>8. QED  BY <1>1, <1>6, <1>7 DEF PlacesAreARanking

(***************************************************************************)
(* For every pool, the funded places of an accepted preset are the first   *)
(* placement_count ones, a built-in preset never pays a lower place more,  *)
(* and no preset pays more places than min_participants asks entrants for. *)
(***************************************************************************)
THEOREM PlacesAreRanked == PoolSpec => []PlacesAreARanking
BY PlacesRank, PoolInvariant, PTL
===============================================================================
