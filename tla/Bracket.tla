------------------------------- MODULE Bracket -------------------------------
(***************************************************************************)
(* The geometry of a single-elimination bracket, as start_tournament.rs    *)
(* and settlement.rs compute it: how many slots a field of n entrants      *)
(* needs, which matches exist, which match a winner advances into, and     *)
(* which seed rank sits where in round 0.  Pure operators, no state.       *)
(* Operators named ...Mutant, here and in the other modules, are bugs the  *)
(* properties are tested against; no specification uses them.              *)
(*                                                                         *)
(* A match is identified by the three numbers that make up its PDA seed:   *)
(* the bracket lane, the round (0 is the first one) and the index in it.   *)
(***************************************************************************)
EXTENDS Integers

\* constants.rs: the smallest and the largest field a tournament accepts.
MIN_PARTICIPANTS == 2
MAX_PARTICIPANTS == 128

(***************************************************************************)
(* Powers of two up to MAX_PARTICIPANTS.  Written as a table because `^'   *)
(* is outside the reach of the arithmetic solvers the proofs use.          *)
(***************************************************************************)
Pow2(k) == CASE k = 0 -> 1  [] k = 1 -> 2  [] k = 2 -> 4  [] k = 3 -> 8
             [] k = 4 -> 16 [] k = 5 -> 32 [] k = 6 -> 64 [] OTHER -> 128

PowersOfTwo == {Pow2(k) : k \in 0..7}

\* The smallest power of two that is at least n: n itself if n is one.
BracketSize(n) == CHOOSE size \in PowersOfTwo : n <= size /\ size < 2 * n

\* bracket_size.trailing_zeros(): the number of rounds.
MaxRound(size) == CHOOSE k \in 0..7 : Pow2(k) = size

\* bracket_size >> (round + 1)
MatchesInRound(size, round) == size \div Pow2(round + 1)

\* The matches start_tournament accepts for a bracket of this size.
MatchIds(lanes, size) ==
    {id \in [lane : lanes, round : 0..(MaxRound(size) - 1), index : 0..(size \div 2 - 1)] :
        id.index < MatchesInRound(size, id.round)}

IsFinal(id, size) == id.round + 1 = MaxRound(size) /\ id.index = 0

FeedsIntoMutant(child, parent) ==  \* the index is not halved
    parent.round = child.round + 1 /\ parent.index = child.index

\* The winner of child moves into parent.  The lanes are not compared.
FeedsInto(child, parent) ==
    /\ parent.round = child.round + 1
    /\ parent.index = child.index \div 2

IsLeftChild(id) == id.index % 2 = 0

OpponentRankMutant(m, size) == m + 1  \* neighbours meet, not the ends

IsByeMutant(m, size, n) == size - 1 - m >= n - 1  \* off by one

(***************************************************************************)
(* Round 0 pairs seed rank m with seed rank size - 1 - m; a rank that no   *)
(* entrant holds is a bye for the other one.                               *)
(***************************************************************************)
OpponentRank(m, size) == size - 1 - m

IsBye(m, size, n) == OpponentRank(m, size) >= n
=============================================================================
