------------------------------- MODULE Seeding -------------------------------
(***************************************************************************)
(* seeding.rs: the permutation of the join order that decides who plays    *)
(* whom.  The 32-byte seed only enters through the 64-bit numbers that     *)
(* splitmix64 derives from it, so a seed is modelled as that stream of     *)
(* numbers: stream[k] is the k-th call of next_u64.  Nothing is assumed of *)
(* the generator: every stream is possible.                                *)
(***************************************************************************)
EXTENDS Integers

Identity(n) == [rank \in 0..(n - 1) |-> rank]

SwapMutant(perm, i, j) == [perm EXCEPT ![i] = perm[j]]  \* half a swap

Swap(perm, i, j) == [perm EXCEPT ![i] = perm[j], ![j] = perm[i]]

SeedPermutationMutant(stream, n) ==  \* never leaves a position where it is
    LET after[k \in 0..(n - 1)] ==
            IF k = 0 THEN Identity(n)
            ELSE Swap(after[k - 1], n - k, stream[k] % (n - k))
    IN  after[n - 1]

SeedPermutationUpMutant(stream, n) ==  \* walks up where the code walks down
    LET after[k \in 0..(n - 1)] ==
            IF k = 0 THEN Identity(n)
            ELSE Swap(after[k - 1], k, stream[k] % (k + 1))
    IN  after[n - 1]

(***************************************************************************)
(* Fisher-Yates: the k-th swap exchanges position i = n - k with position  *)
(* stream[k] % (i + 1); after n - 1 of them position 0 is left.            *)
(***************************************************************************)
SeedPermutation(stream, n) ==
    LET after[k \in 0..(n - 1)] ==
            IF k = 0 THEN Identity(n)
            ELSE Swap(after[k - 1], n - k, stream[k] % (n - k + 1))
    IN  after[n - 1]
=============================================================================
