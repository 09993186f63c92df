-------------------------------- MODULE Claims --------------------------------
(***************************************************************************)
(* What the README and the comments say of the program, where the program  *)
(* does something else.  Every property below is refuted by a run of its   *)
(* own; README.md tells each story.                                        *)
(***************************************************************************)
EXTENDS BracketChain

(***************************************************************************)
(* partial_refund_chunk.rs:13, "every participant is refunded their full   *)
(* entry_fee".  close_tournament, which anyone may call, also closes the   *)
(* account of a participant that has not been refunded.                    *)
(***************************************************************************)
NoRefundForfeited ==
    status \in {"Cancelled", "PartialCancelled"} =>
        \A p \in Unrefunded : participant[p].account = "Open"

(***************************************************************************)
(* README:79, force_claim_disputed "finalizes a disputed match for the     *)
(* proposed winner after 24h of organizer silence".  It cannot finalize a  *)
(* disputed final of a preset with more than one place.                    *)
(***************************************************************************)
DisputesOutliveNobody ==
    \A m \in Matches :
        (status = "Active" /\ node[m].status = "Active" /\ envelope[m].disputed)
            ~> (status # "Active" \/ node[m].status = "Completed")

(***************************************************************************)
(* propose_result_oracle.rs:151, a value that is not 0 or 1, a "fractional *)
(* median" included, "is rejected".  The code truncates it first.          *)
(***************************************************************************)
WholeValuesOnly ==
    (\A value \in FeedValues : value # 0 /\ value # 2)
        => \A m \in Matches : envelope[m].source # "Oracle"

(***************************************************************************)
(* close_tournament.rs:18, closing the root before its children is "a loss *)
(* to the organizer only".  A tournament created again at the same PDA     *)
(* takes the accounts left over for entrants of its own: they are refunded *)
(* from a vault they never paid into, which cannot pay all it owes.        *)
(***************************************************************************)
VaultCoversRefunds ==
    status \in {"Cancelled", "PartialCancelled"} =>
        EntryFee * Cardinality(Unrefunded \cap OpenParticipants) <= vault

(***************************************************************************)
(* README:43, "A reported match is otherwise irrevocable".  In a bracket   *)
(* an organizer drew at will, the winner of an earlier match overwrites a  *)
(* player of a reported one and makes it playable again.                   *)
(***************************************************************************)
ResultsStand == [][\A m \in Matches : settledBy[m] # NoOne => KeptOrClosed(m)]_vars
=============================================================================
