----------------------------- MODULE Settlement ------------------------------
(***************************************************************************)
(* The instructions that decide a match: the organizer's direct report,    *)
(* the proposal envelope (player or oracle proposes; confirm, dispute,     *)
(* claim, resolve, force-claim and settle act on it), the oracle's set-up, *)
(* and finalize_match of settlement.rs on which they all converge.         *)
(***************************************************************************)
EXTENDS TournamentState

RunnerUpMutant(m, winner) == node[m].player_b  \* whoever won

(***************************************************************************)
(* distribute_prizes: the whole vault is the pool, the organizer deposit   *)
(* included.  placements[1] and [2] are the finalists; the others are      *)
(* whoever the caller names, the tournament itself included: all that is   *)
(* checked of a token account is its program, its mint and its owner, so   *)
(* it may be the vault.  Slots past placement_count are padded.            *)
(***************************************************************************)
RunnerUp(m, winner) ==
    IF winner = node[m].player_a THEN node[m].player_b ELSE node[m].player_a

Placements(m, winner) ==
    LET count == placement_count(payout_preset)
    IN  {[i \in Slots |-> CASE i = 1 -> winner
                            [] i = 2 /\ i <= count -> RunnerUp(m, winner)
                            [] i > 2 /\ i <= count -> rest[i]
                            [] OTHER -> NoOne] : rest \in [3..count -> Wallets]}

BookedPoolMutant ==  \* what was paid in, whatever the vault holds
    OrganizerDeposit + EntryFee * participant_count

\* What the vault's token account holds when the final is settled.
GrossPool == vault

\* What w is sent: its places' amounts, and the fee if it is the treasury.
Sent(w, placements, amounts, fee) ==
    SlotSum([i \in Slots |-> IF placements[i] = w THEN amounts[i] ELSE 0])
        + (IF w = Treasury THEN fee ELSE 0)

\* What leaves the vault: a transfer from the vault to the vault moves nothing.
SentAway(placements, amounts, fee) ==
    SlotSum(amounts) + fee - Sent(TournamentPda, placements, amounts, fee)

DistributePrizes(placements) ==
    LET fee == protocol_fee(GrossPool)
        net == GrossPool - fee
        count == placement_count(payout_preset)
        amounts == split_placements(net, basis_points(payout_preset), count)
    IN  /\ LowerSum(net, basis_points(payout_preset), count) <= net
        /\ vault' = vault - SentAway(placements, amounts, fee)
        /\ wallet' = [w \in Wallets |-> wallet[w] + Sent(w, placements, amounts, fee)]

(***************************************************************************)
(* finalize_match on the final: pay out and complete the tournament.  Only *)
(* a trusted signer may do so when the preset pays more than the champion. *)
(***************************************************************************)
Decided(n, winner) == [n EXCEPT !.winner = winner, !.status = "Completed"]

MayPlaceMutant(trusted) ==  \* the two finalists are known
    trusted \/ placement_count(payout_preset) <= 2

MayPlaceNeverMutant(trusted) == trusted  \* even the champion needs one

MayPlace(trusted) == trusted \/ placement_count(payout_preset) <= 1

CompleteTournament(m, winner, trusted) ==
    /\ MayPlace(trusted)
    /\ \E placements \in Placements(m, winner) : DistributePrizes(placements)
    /\ node' = [node EXCEPT ![m] = Decided(@, winner)]
    /\ status' = "Completed"
    /\ champion' = winner

SeatedMutant(n, left, winner) ==  \* the wrong slot
    LET placed == IF left THEN [n EXCEPT !.player_b = winner]
                          ELSE [n EXCEPT !.player_a = winner]
    IN  IF placed.player_a # NoOne /\ placed.player_b # NoOne
        THEN [placed EXCEPT !.status = "Active"] ELSE placed

SeatedPendingMutant(n, left, winner) ==  \* the second arrival activates nothing
    IF left THEN [n EXCEPT !.player_a = winner] ELSE [n EXCEPT !.player_b = winner]

(***************************************************************************)
(* advance_winner on any other match: write the winner into its slot of    *)
(* the next match, which becomes Active once both slots are taken.  The    *)
(* caller passes the next match; its round and index are checked, its lane *)
(* is not, and neither is what the slot or the status held before.         *)
(***************************************************************************)
Seated(n, left, winner) ==
    LET placed == IF left THEN [n EXCEPT !.player_a = winner]
                          ELSE [n EXCEPT !.player_b = winner]
    IN  IF placed.player_a # NoOne /\ placed.player_b # NoOne
        THEN [placed EXCEPT !.status = "Active"] ELSE placed

AdvanceWinner(m, winner) ==
    /\ \E next \in OpenNodes :
         /\ FeedsInto(m, next)
         /\ node' = [node EXCEPT ![m] = Decided(@, winner),
                                 ![next] = Seated(@, IsLeftChild(m), winner)]
    /\ UNCHANGED <<status, champion, vault, wallet>>

PlayableMutant(m) == node[m].status = "Active"  \* the tournament's is not read

PlayableTwiceMutant(m) == status = "Active"  \* the match's is not read

\* The validation every settlement path shares.
Playable(m) == status = "Active" /\ node[m].status = "Active"

FinalizeMatch(m, winner, trusted, signer) ==
    /\ Playable(m)
    /\ winner \in PlayersOf(m)
    /\ matches_reported' = matches_reported + 1
    /\ \/ IsFinal(m, bracket_size) /\ CompleteTournament(m, winner, trusted)
       \/ ~IsFinal(m, bracket_size) /\ AdvanceWinner(m, winner)
    /\ settledBy' = [settledBy EXCEPT ![m] = signer]
    /\ UNCHANGED <<terms, registration_timer, participant_count, bracket_size,
                   matches_initialized, seeding, organizer_deposit_refunded, envelope,
                   oracle, incarnation>>

CreditMatchStatsMutant(m, winner) ==  \* the slot is credited, not the winner
    /\ PlayersOf(m) \subseteq OpenParticipants
    /\ participant' = [p \in Players |->
           CASE p = node[m].player_a -> [participant[p] EXCEPT !.wins = @ + 1]
             [] p = node[m].player_b -> [participant[p] EXCEPT !.losses = @ + 1]
             [] OTHER -> participant[p]]

(***************************************************************************)
(* credit_match_stats: every settlement but the organizer's direct report  *)
(* takes both Participant accounts and credits a win and a loss.           *)
(***************************************************************************)
CreditMatchStats(m, winner) ==
    /\ PlayersOf(m) \subseteq OpenParticipants
    /\ participant' = [p \in Players |->
           CASE p = winner -> [participant[p] EXCEPT !.wins = @ + 1]
             [] p \in PlayersOf(m) \ {winner} -> [participant[p] EXCEPT !.losses = @ + 1]
             [] OTHER -> participant[p]]

\* report_result: the organizer names the winner, OrganizerOnly mode only.
ReportResult(m, winner) ==
    /\ settlement_mode = "OrganizerOnly"
    /\ FinalizeMatch(m, winner, TRUE, Organizer)
    /\ UNCHANGED participant

(***************************************************************************)
(* Proposals                                                               *)
(***************************************************************************)
Propose(m, source, proposer, winner) ==
    /\ envelope' = [envelope EXCEPT ![m] =
           [source |-> source, proposer |-> proposer, proposed_winner |-> winner,
            claim_timer |-> DisputeWindow, disputed |-> FALSE]]
    /\ UNCHANGED <<tournament, money, participant, node, oracle, settledBy, incarnation>>

NoProposalYetMutant(m) == ~envelope[m].disputed  \* propose again until disputed

NoProposalYet(m) == envelope[m].source = "None"

\* propose_result: a player of the match; the tournament's status is not read.
ProposeResult(m, proposer, winner) ==
    /\ status # "None"
    /\ settlement_mode # "OrganizerOnly"
    /\ node[m].status = "Active"
    /\ NoProposalYet(m)
    /\ proposer \in PlayersOf(m)
    /\ winner \in PlayersOf(m)
    /\ Propose(m, "Player", proposer, winner)

ContestedMutant(e) ==  \* the window is taken off the clock, not added
    [e EXCEPT !.disputed = TRUE, !.claim_timer = 0 - ForceClaimWindow]

Contested(e) == [e EXCEPT !.disputed = TRUE, !.claim_timer = ForceClaimWindow]

(***************************************************************************)
(* dispute_result: re-arms the deadline.  Neither the match's status nor   *)
(* the tournament's nor the old deadline is read.  A disputer signs, so it *)
(* is never NoOne.                                                         *)
(***************************************************************************)
DisputeResult(m, disputer) ==
    /\ status # "None" /\ m \in OpenNodes
    /\ envelope[m].source # "None"
    /\ ~envelope[m].disputed
    /\ \/ /\ envelope[m].source = "Player"
          /\ disputer \in PlayersOf(m) /\ disputer # envelope[m].proposer
       \/ /\ envelope[m].source = "Oracle"
          /\ disputer \in PlayersOf(m) \cup {Organizer}
    /\ envelope' = [envelope EXCEPT ![m] = Contested(@)]
    /\ UNCHANGED <<tournament, money, participant, node, oracle, settledBy, incarnation>>

(***************************************************************************)
(* Settlements of a proposal                                               *)
(***************************************************************************)
Settle(m, winner, trusted, signer) ==
    /\ FinalizeMatch(m, winner, trusted, signer)
    /\ CreditMatchStats(m, winner)

UnchallengedMutant(m) == envelope[m].source # "None"  \* a dispute does not block

Unchallenged(m) == envelope[m].source # "None" /\ ~envelope[m].disputed
WindowElapsed(m) == envelope[m].claim_timer = 0

\* confirm_result: the player that did not sign the proposal.
ConfirmResult(m, signer) ==
    /\ Unchallenged(m)
    /\ signer \in PlayersOf(m)
    /\ signer # envelope[m].proposer
    /\ Settle(m, envelope[m].proposed_winner, FALSE, signer)

\* claim_result: anyone, after the dispute window.
ClaimResult(m) ==
    /\ Unchallenged(m) /\ WindowElapsed(m)
    /\ Settle(m, envelope[m].proposed_winner, FALSE, Relayer)

\* resolve_dispute: the organizer picks the winner of a disputed match.
ResolveDispute(m, winner) ==
    /\ envelope[m].disputed
    /\ Settle(m, winner, TRUE, Organizer)

\* force_claim_disputed: anyone, ForceClaimWindow after the dispute.
ForceClaimDisputed(m) ==
    /\ envelope[m].source # "None" /\ envelope[m].disputed /\ WindowElapsed(m)
    /\ Settle(m, envelope[m].proposed_winner, FALSE, Relayer)

\* settle_final: the arbitrator; as claim_result, with the right to place 3..N.
SettleFinal(m) ==
    /\ Unchallenged(m) /\ WindowElapsed(m)
    /\ Settle(m, envelope[m].proposed_winner, TRUE, Organizer)

(***************************************************************************)
(* Oracle                                                                  *)
(***************************************************************************)
CommitMatchLobbyMutant(m) ==  \* MatchAlreadyCommitted is not checked
    /\ settlement_mode = "Oracle"
    /\ status = "Active"
    /\ node[m].status = "Active"
    /\ PlayersOf(m) \subseteq OpenParticipants
    /\ committed' = committed \cup {m}
    /\ UNCHANGED <<tournament, money, participant, node, envelope, feed_bound, settledBy,
                   incarnation>>

\* commit_match_lobby: the organizer, once per match, while it is playable.
CommitMatchLobby(m) ==
    /\ settlement_mode = "Oracle"
    /\ status = "Active"
    /\ node[m].status = "Active"
    /\ m \notin committed
    /\ PlayersOf(m) \subseteq OpenParticipants
    /\ committed' = committed \cup {m}
    /\ UNCHANGED <<tournament, money, participant, node, envelope, feed_bound, settledBy,
                   incarnation>>

(***************************************************************************)
(* bind_match_feed: the organizer.  A feed with the committed hash is on   *)
(* the protocol's queue; no status is read and a feed may be bound again.  *)
(***************************************************************************)
BindMatchFeed(m) ==
    /\ status # "None" /\ m \in OpenNodes
    /\ m \in committed
    /\ feed_bound' = feed_bound \cup {m}
    /\ UNCHANGED <<tournament, money, participant, node, envelope, committed, settledBy,
                   incarnation>>

(***************************************************************************)
(* propose_result_oracle: anyone relays the bound feed's value.  The value *)
(* is a decimal, here counted in halves: to_u64 refuses a negative one and *)
(* drops the fraction of any other.  0 is player_a, 1 is player_b.         *)
(***************************************************************************)
ToU64(halves) == halves \div 2

ResolveOracleWinner(m, value, winner) ==
    /\ value >= 0
    /\ \/ ToU64(value) = 0 /\ winner = node[m].player_a
       \/ ToU64(value) = 1 /\ winner = node[m].player_b

ProposeResultOracle(m, relayer, value) ==
    /\ status # "None"
    /\ settlement_mode = "Oracle"
    /\ node[m].status = "Active"
    /\ NoProposalYet(m)
    /\ m \in committed /\ m \in feed_bound
    /\ \E winner \in PlayersOf(m) :
         /\ ResolveOracleWinner(m, value, winner)
         /\ Propose(m, "Oracle", relayer, winner)
=============================================================================
