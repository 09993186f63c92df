----------------------------- MODULE PayoutCheck ------------------------------
(***************************************************************************)
(* Payout against its own definition of a fair split, for a pool that      *)
(* grows token by token.                                                   *)
(***************************************************************************)
EXTENDS Payout

CONSTANTS MaxGross,       \* bound: the largest pool
          CheckedPresets  \* the presets to split it by

ASSUME CheckedAssumption == CheckedPresets \subseteq PayoutPreset

VARIABLES gross, preset

PoolInit == gross = 0 /\ preset \in {p \in CheckedPresets : validate_custom(p)}

PoolGrows == gross < MaxGross /\ gross' = gross + 1 /\ UNCHANGED preset

poolVars == <<gross, preset>>

PoolSpec == PoolInit /\ [][PoolGrows]_poolVars

net == gross - protocol_fee(gross)
count == placement_count(preset)
bps == basis_points(preset)
amounts == split_placements(net, bps, count)

\* i tokens of a share of b basis points: no more than its due, less than one below it.
IsFloor(i, b) == i * BPS_DENOMINATOR <= net * b /\ net * b < (i + 1) * BPS_DENOMINATOR

(***************************************************************************)
(* The whole pool goes out, without dust and without debt: fee and prizes  *)
(* add up to it, every place below the champion gets its exact floor, and  *)
(* the champion its own floor and less than one token per other place.     *)
(***************************************************************************)
WholePoolGoesOut ==
    /\ SlotSum(amounts) + protocol_fee(gross) = gross
    /\ protocol_fee(gross) * BPS_DENOMINATOR <= gross * PROTOCOL_FEE_BPS
    /\ \A i \in Slots \ {1} : IsFloor(amounts[i], bps[i])
    /\ \E dust \in 0..(count - 1) : IsFloor(amounts[1] - dust, bps[1])

(***************************************************************************)
(* The funded places are the first placement_count ones, so that counting  *)
(* them is enough to find them; the built-in presets never pay a lower     *)
(* place more than a higher one; and a preset never needs more entrants    *)
(* than min_participants asks for.                                         *)
(***************************************************************************)
PlacesAreARanking ==
    /\ {i \in Slots : bps[i] > 0} = 1..count
    /\ preset.kind # "Custom" => \A i \in 1..(MAX_PAYOUT_SLOTS - 1) : amounts[i] >= amounts[i + 1]
    /\ count <= min_participants(preset)
=============================================================================
