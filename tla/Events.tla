-------------------------------- MODULE Events --------------------------------
(***************************************************************************)
(* The event log (events.rs), as an indexer replays it.  The indexer reads *)
(* no accounts: `view' is what the events emitted so far have told it.  An *)
(* event is an operator that maps the view to the view after it, and every *)
(* instruction of BracketChain is joined with the events it emits, in      *)
(* their order.  request_seed and reveal_seed emit nothing.                *)
(***************************************************************************)
EXTENDS BracketChain

VARIABLE view

eventVars == <<vars, view>>

\* What a ResultProposed event says.
NoProposal == [source |-> "None", proposer |-> NoOne, proposed_winner |-> NoOne]

BlankView ==
    [status   |-> "None", champion |-> NoOne,
     entrants |-> {},                       \* <<wallet, participant_index>>
     draw     |-> <<0, 0, NoSeed>>,         \* bracket_size, participant_count, seed_hash
     winner   |-> [m \in Matches |-> NoOne],
     proposal |-> [m \in Matches |-> NoProposal],
     closing  |-> [m \in Matches |-> "None"],
     disputed |-> {}, committed |-> {}, bound |-> {},
     balance  |-> [w \in Wallets |-> 0]]    \* what the log says of w's tokens

(***************************************************************************)
(* The events                                                              *)
(***************************************************************************)
TournamentCreated(v) ==
    [v EXCEPT !.status = "Registration", !.balance[Organizer] = @ - OrganizerDeposit]

ParticipantRegistered(v, p, index) ==
    [v EXCEPT !.entrants = @ \cup {<<p, index>>}, !.balance[p] = @ - EntryFee]

TournamentStarted(v, size, count, seed) ==
    [v EXCEPT !.status = "Active", !.draw = <<size, count, seed>>]

MatchReported(v, m, winner) == [v EXCEPT !.winner[m] = winner]

Amount(payout) == payout.amount

\* placement_payouts and fee_amount, the latter with its recipient.
TournamentCompleted(v, winner, payouts, fee) ==
    [v EXCEPT !.status = "Completed", !.champion = winner,
              !.balance = [w \in Wallets |-> @[w]
                  + MapThenSumSet(Amount, {payout \in payouts : payout.recipient = w})
                  + (IF w = Treasury THEN fee ELSE 0)]]

TournamentCancelled(v) == [v EXCEPT !.status = "Cancelled"]

TournamentPartiallyCancelled(v) == [v EXCEPT !.status = "PartialCancelled"]

RefundIssued(v, wallets, amount) ==
    [v EXCEPT !.balance = [w \in Wallets |-> @[w] + IF w \in wallets THEN amount ELSE 0]]

ResultProposed(v, m, proposal) == [v EXCEPT !.proposal[m] = proposal]

ResultDisputed(v, m) == [v EXCEPT !.disputed = @ \cup {m}]

\* ResultClaimed with its `forced' flag, DisputeResolved, FinalSettled.
Closed(v, m, how) == [v EXCEPT !.closing[m] = how]

MatchLobbyCommitted(v, m) == [v EXCEPT !.committed = @ \cup {m}]

MatchFeedBound(v, m) == [v EXCEPT !.bound = @ \cup {m}]

\* The event counts the children closed and does not name them.
TournamentClosed(v, rootClosed) ==
    IF rootClosed THEN [v EXCEPT !.status = "None"] ELSE v

(***************************************************************************)
(* The instructions with what they emit                                    *)
(***************************************************************************)
StartedMutant(v, size, seed) ==  \* announced by the first chunk
    IF status = "Registration" THEN TournamentStarted(v, size, participant_count, seed) ELSE v

\* Only the chunk that activates the tournament announces the start.
Started(v, size, seed) ==
    IF status' = "Active" THEN TournamentStarted(v, size, participant_count, seed) ELSE v

\* Only the call that flips the status announces the cancellation.
Cancelled(v) == IF status # "Cancelled" THEN TournamentCancelled(v) ELSE v

RefundedMutant(v, chunk, withDeposit) ==  \* emitted for those already paid, too
    RefundIssued(RefundIssued(v, IF DepositDue(withDeposit) > 0 THEN {Organizer} ELSE {},
                              OrganizerDeposit),
                 chunk, EntryFee)

\* One RefundIssued for the deposit and for each entrant that is paid.
Refunded(v, chunk, withDeposit) ==
    RefundIssued(RefundIssued(v, IF DepositDue(withDeposit) > 0 THEN {Organizer} ELSE {},
                              OrganizerDeposit),
                 Unpaid(chunk), EntryFee)

\* The rows of placement_payouts: only prizes that are not zero.
Payouts(placements) ==
    LET amounts == split_placements(GrossPool - protocol_fee(GrossPool),
                                    basis_points(payout_preset),
                                    placement_count(payout_preset))
    IN  {[place |-> i, recipient |-> placements[i], amount |-> amounts[i]] :
            i \in {slot \in Slots : amounts[slot] > 0}}

\* finalize_match reports the match and, on the final, the completion; the
\* handler adds the event of its own, if it has one.
Finalized(m, winner, how) ==
    LET reported == MatchReported(view, m, winner)
    IN  \/ /\ ~IsFinal(m, bracket_size)
           /\ view' = Closed(reported, m, how)
        \/ /\ IsFinal(m, bracket_size)
           /\ \E placements \in Placements(m, winner) :
                /\ DistributePrizes(placements)
                /\ view' = Closed(TournamentCompleted(reported, winner, Payouts(placements),
                                                      protocol_fee(GrossPool)), m, how)

ProposalShown(m) ==
    [source |-> envelope'[m].source, proposer |-> envelope'[m].proposer,
     proposed_winner |-> envelope'[m].proposed_winner]

ForcedMutant == "ResultClaimed"  \* forced: false

\* force_claim_disputed emits a ResultClaimed with forced = true.
Forced == "ForceClaimed"

EventInit == Init /\ view = BlankView

LifecycleEvents ==
    \/ \E mode \in Modes, preset \in Presets :
          CreateTournament(mode, preset) /\ view' = TournamentCreated(view)
    \/ \E p \in Players :
          JoinTournament(p) /\ view' = ParticipantRegistered(view, p, participant_count)
    \/ RequestSeed /\ UNCHANGED view
    \/ \E seed \in Seeds : RevealSeed(seed) /\ UNCHANGED view
    \/ \E ids \in SUBSET Matches, size \in PowersOfTwo, seed \in Seeds :
          StartTournament(ids, size, seed) /\ view' = Started(view, size, seed)
    \/ PartialCancelTournament /\ view' = TournamentPartiallyCancelled(view)
    \/ \E chunk \in SUBSET Players, withDeposit \in BOOLEAN :
          \/ \E caller \in {Organizer, Relayer} :
                /\ CancelTournament(caller, chunk, withDeposit)
                /\ view' = Refunded(Cancelled(view), chunk, withDeposit)
          \/ /\ PartialRefundChunk(chunk, withDeposit)
             /\ view' = Refunded(view, chunk, withDeposit)
    \/ \E players \in SUBSET Players, nodes \in SUBSET Matches, closeRoot \in BOOLEAN :
          CloseTournament(players, nodes, closeRoot) /\ view' = TournamentClosed(view, closeRoot)

SettlementEvents(m) ==
    LET proposed == envelope[m].proposed_winner
    IN  \/ \E w \in Wallets : ReportResult(m, w) /\ Finalized(m, w, "None")
        \/ \E p, w \in Players :
              ProposeResult(m, p, w) /\ view' = ResultProposed(view, m, ProposalShown(m))
        \/ \E p \in Players : ConfirmResult(m, p) /\ Finalized(m, proposed, "None")
        \/ \E w \in Signers : DisputeResult(m, w) /\ view' = ResultDisputed(view, m)
        \/ \E w \in Players : ResolveDispute(m, w) /\ Finalized(m, w, "DisputeResolved")
        \/ ClaimResult(m) /\ Finalized(m, proposed, "ResultClaimed")
        \/ ForceClaimDisputed(m) /\ Finalized(m, proposed, Forced)
        \/ SettleFinal(m) /\ Finalized(m, proposed, "FinalSettled")
        \/ CommitMatchLobby(m) /\ view' = MatchLobbyCommitted(view, m)
        \/ BindMatchFeed(m) /\ view' = MatchFeedBound(view, m)
        \/ \E relayer \in Signers, value \in FeedValues :
              /\ ProposeResultOracle(m, relayer, value)
              /\ view' = ResultProposed(view, m, ProposalShown(m))

EventNext ==
    \/ Tick /\ UNCHANGED view
    \/ LifecycleEvents
    \/ \E m \in Matches : SettlementEvents(m)

EventSpec == EventInit /\ [][EventNext]_eventVars

(***************************************************************************)
(*                               Properties                                *)
(***************************************************************************)
\* What the log says of match m is what its account says.  A bye advances a
\* player without any event.
MatchShown(m) ==
    /\ view.winner[m] = IF node[m].bye THEN NoOne ELSE node[m].winner
    /\ view.proposal[m] = [source |-> envelope[m].source, proposer |-> envelope[m].proposer,
                           proposed_winner |-> envelope[m].proposed_winner]
    /\ m \in view.disputed <=> envelope[m].disputed
    /\ m \in view.committed <=> m \in committed
    /\ m \in view.bound <=> m \in feed_bound

(***************************************************************************)
(* An indexer that only replays the log shows the tournament the accounts  *)
(* hold: its phase (a bracket still being drawn in chunks looks like open  *)
(* registration), its entrants with their join numbers, the draw they are  *)
(* ranked by, every result, proposal and dispute, and the champion.  No    *)
(* path of the program changes any of these without saying so.             *)
(***************************************************************************)
ViewAgrees ==
    /\ view.status = IF status = "PendingBracketInit" THEN "Registration" ELSE status
    /\ view.entrants = {<<p, participant[p].seed_index>> :
                           p \in {q \in Players : participant[q].account # "Absent"}}
    /\ status \in {"Active", "Completed"} =>
          view.draw = <<bracket_size, participant_count, seed_hash>>
    /\ status = "Completed" => view.champion = champion
    /\ \A m \in OpenNodes : MatchShown(m)

(***************************************************************************)
(* The log is a ledger: summing entry fees, deposits, refunds, prizes and  *)
(* the protocol fee as the events state them gives the balance of every    *)
(* wallet, through any sequence of chunks, retries and settlements, and    *)
(* what a completed tournament still holds.                                *)
(***************************************************************************)
LogIsTheLedger ==
    /\ view.balance = wallet
    /\ view.status = "Completed" => view.balance[TournamentPda] = vault

Justified(m) ==
    LET shown == view.proposal[m]
        disputed == m \in view.disputed
        asProposed == shown.source # "None" /\ view'.winner[m] = shown.proposed_winner
    IN  CASE view'.closing[m] \in {"ResultClaimed", "FinalSettled"} -> asProposed /\ ~disputed
          [] view'.closing[m] = "ForceClaimed" -> asProposed /\ disputed
          [] view'.closing[m] = "DisputeResolved" -> shown.source # "None" /\ disputed
          [] OTHER -> shown.source = "None" \/ (asProposed /\ ~disputed)

(***************************************************************************)
(* The log explains itself: a result is announced once, while the          *)
(* tournament is shown as running, and the events before it justify it: a  *)
(* claimed, confirmed or settled one repeats an undisputed proposal, a     *)
(* forced one a disputed proposal, a resolved one follows a dispute        *)
(* (ResultClaimed.forced, DisputeResolved, FinalSettled in events.rs).  Of *)
(* a seeded draw: a match that is made playable again is announced again.  *)
(***************************************************************************)
LogExplainsItself ==
    [][\A m \in Matches : DrawIsSeeded /\ view'.winner[m] # view.winner[m] =>
          view.winner[m] = NoOne /\ view.status = "Active" /\ Justified(m)]_eventVars

(***************************************************************************)
(* After a cancellation the log goes on until it shows every entrant paid  *)
(* back, if the refunds are sent (RefundFairness): no chunk, retry or      *)
(* change of instruction swallows a RefundIssued.  It does not show whose  *)
(* account was closed before its refund, and hence will have none.         *)
(***************************************************************************)
RefundsAreLogged ==
    RefundFairness => \A p \in Players :
        (/\ view.status \in {"Cancelled", "PartialCancelled"}
         /\ \E index \in 0..(MaxParticipants - 1) : <<p, index>> \in view.entrants)
            ~> (view.balance[p] = 0 \/ participant[p].account = "Closed")
=============================================================================
