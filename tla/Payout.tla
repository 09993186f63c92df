------------------------------- MODULE Payout --------------------------------
(***************************************************************************)
(* How a prize pool is split: the payout presets of state/tournament.rs,   *)
(* the protocol fee and split_placements of settlement.rs.  Pure           *)
(* operators on natural numbers.  The code multiplies in u128 and divides  *)
(* before it narrows to u64, so no product here can wrap: a u64 times a    *)
(* u16 fits 80 bits and the quotient is at most the u64 it came from.      *)
(***************************************************************************)
EXTENDS Integers, FiniteSets

PROTOCOL_FEE_BPS == 350
BPS_DENOMINATOR  == 10000
MAX_PAYOUT_SLOTS == 8
Slots            == 1..MAX_PAYOUT_SLOTS

PAYOUT_WTA      == <<10000, 0, 0, 0, 0, 0, 0, 0>>
PAYOUT_STANDARD == <<6000, 2500, 1500, 0, 0, 0, 0, 0>>
PAYOUT_DEEP     == <<4000, 2500, 1500, 1000, 500, 300, 200, 0>>

\* A preset is a record; slots carries the organizer's split of a Custom one.
WinnerTakesAll == [kind |-> "WinnerTakesAll", slots |-> PAYOUT_WTA]
Standard       == [kind |-> "Standard", slots |-> PAYOUT_STANDARD]
Deep           == [kind |-> "Deep", slots |-> PAYOUT_DEEP]
Custom(slots)  == [kind |-> "Custom", slots |-> slots]

PayoutPreset ==
    {preset \in [kind : {"WinnerTakesAll", "Standard", "Deep", "Custom"},
                 slots : [Slots -> Nat]] :
        preset.kind # "Custom" => preset \in {WinnerTakesAll, Standard, Deep}}

\* The sum over the eight slots, spelled out: the arrays of the code are fixed.
SlotSum(f) == f[1] + f[2] + f[3] + f[4] + f[5] + f[6] + f[7] + f[8]

basis_points(preset) == preset.slots

placement_count(preset) == Cardinality({i \in Slots : basis_points(preset)[i] > 0})

min_participants(preset) ==
    CASE preset.kind = "WinnerTakesAll" -> 1
      [] preset.kind = "Standard"       -> 3
      [] preset.kind = "Deep"           -> 7
      [] OTHER                          -> placement_count(preset)

ValidSplitMutant(bps) ==  \* accepts a gap between funded slots
    bps[1] > 0 /\ SlotSum(bps) = BPS_DENOMINATOR

\* Funded winner, no gap between funded slots, and the whole pool is given out.
ValidSplit(bps) ==
    /\ bps[1] > 0
    /\ \A i \in 1..(MAX_PAYOUT_SLOTS - 1) : bps[i] = 0 => bps[i + 1] = 0
    /\ SlotSum(bps) = BPS_DENOMINATOR

validate_custom(preset) == preset.kind = "Custom" => ValidSplit(preset.slots)

protocol_fee(gross) == (gross * PROTOCOL_FEE_BPS) \div BPS_DENOMINATOR

(***************************************************************************)
(* The floor of every slot's share, slots from count + 1 on unfunded; the  *)
(* champion takes what the floors below leave of the net pool.             *)
(***************************************************************************)
FlooredShare(net, bps, count, i) ==
    IF i <= count THEN (net * bps[i]) \div BPS_DENOMINATOR ELSE 0

LowerSum(net, bps, count) ==
    SlotSum([i \in Slots |-> IF i = 1 THEN 0 ELSE FlooredShare(net, bps, count, i)])

split_placementsMutant(net, bps, count) ==  \* the dust stays in the vault
    [i \in Slots |-> FlooredShare(net, bps, count, i)]

split_placements(net, bps, count) ==
    [i \in Slots |-> IF i = 1 THEN net - LowerSum(net, bps, count)
                     ELSE FlooredShare(net, bps, count, i)]
=============================================================================
