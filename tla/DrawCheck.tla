------------------------------ MODULE DrawCheck -------------------------------
(***************************************************************************)
(* The two pure computations of a draw, for fields of every size: the      *)
(* geometry of Bracket, and the loop of seed_permutation, one swap at a    *)
(* time, against the function SeedPermutation the other modules use.       *)
(***************************************************************************)
EXTENDS Bracket, Seeding, FiniteSets, Sequences

CONSTANTS Largest,          \* bound: the largest field
          LargestShuffled   \* bound: the largest field to shuffle

ASSUME LargestAssumption == Largest \in MIN_PARTICIPANTS..MAX_PARTICIPANTS

VARIABLES n,     \* participant_count
          i,     \* the loop's index
          perm,  \* the order so far
          drawn  \* the positions drawn so far

drawVars == <<n, i, perm, drawn>>

DrawInit == n = MIN_PARTICIPANTS /\ i = n /\ perm = Identity(n) /\ drawn = <<>>

LargerField ==
    /\ n < Largest /\ i = n
    /\ n' = n + 1 /\ i' = n' /\ perm' = Identity(n')
    /\ UNCHANGED drawn

\* while i > 1 { i -= 1; j = next_u64() % (i + 1); perm.swap(i, j) }
SwapNext ==
    /\ i > 1 /\ n <= LargestShuffled
    /\ i' = i - 1
    /\ \E j \in 0..(i - 1) : perm' = Swap(perm, i - 1, j) /\ drawn' = Append(drawn, j)
    /\ UNCHANGED n

DrawNext == LargerField \/ SwapNext

DrawSpec == DrawInit /\ [][DrawNext]_drawVars

size == BracketSize(n)
All == MatchIds({0}, size)
FirstRound == {m \in All : m.round = 0}

(***************************************************************************)
(* The matches form one binary tree: size - 1 of them, one final that      *)
(* feeds nothing, every other match feeds one, and every match after the   *)
(* first round is fed by a left and a right one, which cannot collide in a *)
(* slot (advance_winner).                                                  *)
(***************************************************************************)
OneTree ==
    /\ size \in PowersOfTwo /\ n <= size /\ size \div 2 < n
    /\ Cardinality(All) = size - 1
    /\ Cardinality({m \in All : IsFinal(m, size)}) = 1
    /\ \A m \in All :
         Cardinality({next \in All : FeedsInto(m, next)}) = IF IsFinal(m, size) THEN 0 ELSE 1
    /\ \A next \in All \ FirstRound :
         LET feeders == {m \in All : FeedsInto(m, next)}
         IN  Cardinality(feeders) = 2 /\ {IsLeftChild(m) : m \in feeders} = BOOLEAN

(***************************************************************************)
(* Every seed rank plays in one first-round match, on one side of it; the  *)
(* byes are size - n in number and go to the top ranks, one per match      *)
(* (round0_expected).                                                      *)
(***************************************************************************)
RanksMeetOnce ==
    /\ \A rank \in 0..(n - 1) :
         Cardinality({m \in FirstRound : rank \in {m.index, OpponentRank(m.index, size)}}) = 1
    /\ \A m \in FirstRound : m.index < n /\ m.index # OpponentRank(m.index, size)
    /\ {m.index : m \in {b \in FirstRound : IsBye(b.index, size, n)}} = 0..(size - n - 1)

(***************************************************************************)
(* No entrant is lost or doubled by a swap: the order stays a permutation  *)
(* of the join numbers (seed_permutation).                                 *)
(***************************************************************************)
NobodyIsLost == {perm[rank] : rank \in 0..(n - 1)} = 0..(n - 1)

\* When the loop ends it has computed the function (seeding.rs:59).
LoopIsTheFunction == i = 1 => perm = SeedPermutation(drawn, n)

\* Every way the draws of one seed can come out.
AllDraws == {s \in [1..(n - 1) -> 0..(n - 1)] : \A k \in 1..(n - 1) : s[k] <= n - k}

(***************************************************************************)
(* Different draws give different orders (seed_permutation).  There are as *)
(* many draws as orders, so uniform draws would make every order equally   *)
(* likely.                                                                 *)
(***************************************************************************)
EveryOrderOnce ==
    i = 1 => \A other \in AllDraws : SeedPermutation(other, n) = perm => other = drawn
=============================================================================
