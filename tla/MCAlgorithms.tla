----------------------------- MODULE MCAlgorithms -----------------------------
(***************************************************************************)
(* The pure computations, draw and payout, as one instance for TLC.  They  *)
(* share nothing: one stays at its beginning while the other goes through  *)
(* its inputs.                                                             *)
(***************************************************************************)
EXTENDS DrawCheck, PayoutCheck

\* The built-in presets and custom ones, two of which validate_custom refuses.
PresetsToCheck ==
    {WinnerTakesAll, Standard, Deep,
     Custom(<<7000, 3000, 0, 0, 0, 0, 0, 0>>),
     Custom(<<3333, 3333, 3334, 0, 0, 0, 0, 0>>),
     Custom(<<1251, 1249, 1250, 1250, 1250, 1250, 1250, 1250>>),
     Custom(<<7000, 0, 3000, 0, 0, 0, 0, 0>>),
     Custom(<<7000, 2000, 0, 0, 0, 0, 0, 0>>)}

AlgorithmsInit == DrawInit /\ PoolInit

AlgorithmsNext ==
    \/ gross = 0 /\ preset = WinnerTakesAll /\ DrawNext /\ UNCHANGED poolVars
    \/ n = MIN_PARTICIPANTS /\ i = n /\ PoolGrows /\ UNCHANGED drawVars

AlgorithmsSpec == AlgorithmsInit /\ [][AlgorithmsNext]_<<drawVars, poolVars>>
=============================================================================
