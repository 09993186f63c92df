---------------------------- MODULE BracketChain -----------------------------
(***************************************************************************)
(* The BracketChain program over one tournament: every interleaving of the *)
(* instructions its signers may send, and the passing of time.             *)
(***************************************************************************)
EXTENDS Lifecycle, Settlement, FiniteSetsExt

Init ==
    /\ status = "None" /\ champion = NoOne /\ registration_timer = 0
    /\ settlement_mode \in Modes /\ payout_preset \in Presets
    /\ participant_count = 0 /\ bracket_size = 0
    /\ matches_initialized = 0 /\ matches_reported = 0
    /\ vrf_bound = FALSE /\ seed_revealed = FALSE /\ seed_hash = NoSeed
    /\ organizer_deposit_refunded = FALSE
    /\ vault = 0 /\ wallet = [w \in Wallets |-> 0]
    /\ participant = [p \in Players |-> NoParticipant]
    /\ node = [m \in Matches |-> NoNode]
    /\ envelope = [m \in Matches |-> EmptyEnvelope]
    /\ committed = {} /\ feed_bound = {}
    /\ settledBy = [m \in Matches |-> NoOne]
    /\ incarnation = 0

(***************************************************************************)
(* One unit of time passes for every deadline that still lies ahead.       *)
(***************************************************************************)
CountDown(timer) == IF timer = 0 THEN 0 ELSE timer - 1

Tick ==
    /\ registration_timer > 0 \/ \E m \in Matches : envelope[m].claim_timer > 0
    /\ registration_timer' = CountDown(registration_timer)
    /\ envelope' = [m \in Matches |->
           [envelope[m] EXCEPT !.claim_timer = CountDown(envelope[m].claim_timer)]]
    /\ UNCHANGED <<status, terms, counters, champion, seeding, money, participant, node,
                   oracle, settledBy, incarnation>>

LifecycleStep ==
    \/ \E mode \in Modes, preset \in Presets : CreateTournament(mode, preset)
    \/ \E p \in Players : JoinTournament(p)
    \/ RequestSeed
    \/ \E seed \in Seeds : RevealSeed(seed)
    \/ \E ids \in SUBSET Matches, size \in PowersOfTwo, seed \in Seeds :
          StartTournament(ids, size, seed)
    \/ PartialCancelTournament
    \/ \E chunk \in SUBSET Players, withDeposit \in BOOLEAN :
          \/ \E caller \in {Organizer, Relayer} : CancelTournament(caller, chunk, withDeposit)
          \/ PartialRefundChunk(chunk, withDeposit)
    \/ \E players \in SUBSET Players :
          /\ Cardinality(players) <= MaxCloseChunk
          /\ \E nodes \in SUBSET Matches, closeRoot \in BOOLEAN :
                CloseTournament(players, nodes, closeRoot)

SettlementStep(m) ==
    \/ \E w \in Wallets : ReportResult(m, w)
    \/ \E p, w \in Players : ProposeResult(m, p, w)
    \/ \E p \in Players : ConfirmResult(m, p)
    \/ \E w \in Signers : DisputeResult(m, w)
    \/ \E w \in Players : ResolveDispute(m, w)
    \/ ClaimResult(m)
    \/ ForceClaimDisputed(m)
    \/ SettleFinal(m)
    \/ CommitMatchLobby(m)
    \/ BindMatchFeed(m)
    \/ \E relayer \in Signers, value \in FeedValues : ProposeResultOracle(m, relayer, value)

Next ==
    \/ Tick
    \/ LifecycleStep
    \/ \E m \in Matches : SettlementStep(m)

Spec == Init /\ [][Next]_vars

(***************************************************************************)
(*                               Safety                                    *)
(***************************************************************************)
\* Every account holds what its struct declares (state/*.rs).
TypeOK ==
    /\ status \in Status /\ champion \in Wallets \cup {NoOne}
    /\ settlement_mode \in Modes /\ payout_preset \in Presets
    /\ registration_timer \in Nat
    /\ participant_count \in Nat /\ bracket_size \in PowersOfTwo \cup {0}
    /\ matches_initialized \in Nat /\ matches_reported \in Nat
    /\ vrf_bound \in BOOLEAN /\ seed_revealed \in BOOLEAN
    /\ seed_hash \in Seeds \cup {NoSeed}
    /\ organizer_deposit_refunded \in BOOLEAN
    /\ vault \in Int /\ wallet \in [Wallets -> Int]
    /\ participant \in [Players -> Participant]
    /\ node \in [Matches -> MatchNode]
    /\ envelope \in [Matches -> Envelope]
    /\ committed \subseteq Matches /\ feed_bound \subseteq Matches
    /\ settledBy \in [Matches -> Wallets \cup {NoOne}]
    /\ incarnation \in Nat

\* The players whose entry fee the vault still owes, should it be refunded.
Unrefunded == {p \in Players : participant[p].account # "Absent"
                               /\ ~participant[p].refund_paid}

DepositHeld == IF organizer_deposit_refunded THEN 0 ELSE OrganizerDeposit

(***************************************************************************)
(* Until it pays prizes, the vault holds the deposit and every entry fee   *)
(* not yet given back, no more and no less: a refund is paid once, in full,*)
(* in whatever chunks and by whomever it is sent, and the vault can always *)
(* pay the rest.  Once the prizes are paid it holds what was made out to   *)
(* the vault itself and no dust besides, and once it is closed nothing.    *)
(***************************************************************************)
VaultAccounting ==
    vault = CASE status = "None" -> 0
              [] status = "Completed" -> wallet[TournamentPda]
              [] OTHER -> DepositHeld + EntryFee * Cardinality(Unrefunded)

\* What a wallet has paid into the vault and not got back as a refund.
Stake(w) ==
    (IF w = Organizer /\ incarnation > 0 THEN DepositHeld ELSE 0)
        + (IF w \in Unrefunded THEN EntryFee ELSE 0)

(***************************************************************************)
(* A cancelled tournament makes nobody richer: while no prizes are paid,   *)
(* every wallet is short of exactly its own stake (Policy A: cancelling is *)
(* a pure loss for the organizer, never a profit).                         *)
(***************************************************************************)
RefundsMakeWhole ==
    status \notin {"None", "Completed"} => \A w \in Wallets : wallet[w] = -Stake(w)

\* What a completed tournament has paid a wallet.
Prize(w) == wallet[w] + Stake(w)

Pool == OrganizerDeposit + EntryFee * participant_count

\* The prize of a place: a lower one is its floored share of the pool after
\* the fee, the first what these leave of it.
PlacePrize(i) ==
    LET net == Pool - protocol_fee(Pool)
        count == placement_count(payout_preset)
    IN  IF i = 1 THEN net - LowerSum(net, basis_points(payout_preset), count)
        ELSE FlooredShare(net, basis_points(payout_preset), count, i)

PrizeOfPlaces(places) == SlotSum([i \in Slots |-> IF i \in places THEN PlacePrize(i) ELSE 0])

(***************************************************************************)
(* The prizes of a completed tournament, to the token.  They are shares of *)
(* what was ever paid in, the deposit included, by the preset it was       *)
(* created with: somebody has each place, the champion the first and the   *)
(* beaten finalist the second; each wallet has the prizes of its places,   *)
(* the treasury the fee besides, and nobody has anything else; and all of  *)
(* it is given out (distribute_prizes).                                    *)
(***************************************************************************)
PrizesMatchThePreset ==
    status = "Completed" =>
        /\ \E placed \in [1..placement_count(payout_preset) -> Wallets] :
             /\ placed[1] = champion
             /\ 2 \in DOMAIN placed => \A m \in OpenNodes :
                  IsFinal(m, bracket_size) => PlayersOf(m) = {placed[1], placed[2]}
             /\ \A w \in Wallets :
                  Prize(w) = PrizeOfPlaces({i \in DOMAIN placed : placed[i] = w})
                                 + (IF w = Treasury THEN protocol_fee(Pool) ELSE 0)
        /\ MapThenSumSet(Prize, Wallets) = Pool

(***************************************************************************)
(* Whether the bracket is drawn by the seed.  start_tournament sees to it, *)
(* but in OrganizerOnly mode it takes the organizer's word for every slot: *)
(* with FreeEntrants the organizer draws at will, without them it sends    *)
(* what the SDK builds.  What is said of the bracket below is said of a    *)
(* seeded one, and fails of a draw at will (Claims, ResultsStand).         *)
(***************************************************************************)
DrawIsSeeded == settlement_mode = "OrganizerOnly" => FreeEntrants = {}

(***************************************************************************)
(* The bracket is all there: started, and no account closed since.         *)
(***************************************************************************)
BracketIntact ==
    /\ status \in {"Active", "Completed", "PartialCancelled"}
    /\ OpenNodes = MatchIds(Lanes, bracket_size)
    /\ Cardinality(OpenParticipants) = participant_count

Undecided == {m \in OpenNodes : node[m].status # "Completed"}

(***************************************************************************)
(* The counters that decide when a tournament becomes Active and that the  *)
(* indexer reads agree with the accounts, whatever order chunks, byes,     *)
(* results and closes come in.                                             *)
(***************************************************************************)
CountersMatchAccounts ==
    DrawIsSeeded /\ status \in {"PendingBracketInit", "Active"} =>
        /\ matches_initialized = Cardinality(OpenNodes)
        /\ matches_reported = Cardinality(OpenNodes \ Undecided)
        /\ status = "Active" <=> OpenNodes = MatchIds(Lanes, bracket_size)

(***************************************************************************)
(* A bracket never stalls: in an Active tournament some match has both its *)
(* players and waits for a result, wherever the byes fell.                 *)
(***************************************************************************)
SomeMatchIsPlayable ==
    DrawIsSeeded /\ status = "Active" =>
        \E m \in OpenNodes : Playable(m) /\ NoOne \notin PlayersOf(m)

(***************************************************************************)
(* The draw places every entrant in exactly one first-round match and      *)
(* nobody else, whatever the seed, the size of the field and the order the *)
(* chunks of start_tournament land in.                                     *)
(***************************************************************************)
EveryEntrantDrawnOnce ==
    DrawIsSeeded /\ BracketIntact =>
        LET firstRound == {m \in OpenNodes : m.round = 0}
        IN  /\ \A p \in OpenParticipants :
                 Cardinality({m \in firstRound : p \in PlayersOf(m)}) = 1
            /\ \A m \in firstRound : PlayersOf(m) \subseteq OpenParticipants \cup {NoOne}

(***************************************************************************)
(* A slot of a later match holds its feeder's winner once the feeder is    *)
(* decided and is empty before that, byes written by start_tournament and  *)
(* results written by advance_winner alike; and a match is playable        *)
(* exactly when both its slots are taken.                                  *)
(***************************************************************************)
SlotsMirrorFeeders ==
    DrawIsSeeded /\ BracketIntact =>
        /\ \A m \in OpenNodes, next \in OpenNodes :
             FeedsInto(m, next) =>
                 node[m].winner = IF IsLeftChild(m) THEN node[next].player_a
                                                    ELSE node[next].player_b
        /\ \A m \in Undecided : (node[m].status = "Active") <=> (NoOne \notin PlayersOf(m))

(***************************************************************************)
(* Single elimination: a player has at most one undecided match, a beaten  *)
(* player has none, and the win and loss counters of the Participant       *)
(* accounts (credit_match_stats) say what the bracket says.  Counters are  *)
(* only kept outside OrganizerOnly mode.                                   *)
(***************************************************************************)
SingleElimination ==
    BracketIntact /\ settlement_mode # "OrganizerOnly" =>
        \A p \in OpenParticipants :
            LET played == {m \in OpenNodes \ Undecided : p \in PlayersOf(m) /\ ~node[m].bye}
                won == {m \in played : node[m].winner = p}
                ahead == {m \in Undecided : p \in PlayersOf(m)}
            IN  /\ participant[p].wins = Cardinality(won)
                /\ participant[p].losses = Cardinality(played \ won)
                /\ participant[p].losses + Cardinality(ahead) <= 1

(***************************************************************************)
(* A tournament completes only when nothing is left to play: every match   *)
(* is decided, every match is counted in matches_reported, and the         *)
(* champion is the one entrant that was not beaten.  Of a seeded draw:     *)
(* nothing but the draw keeps the final empty while other matches are open.*)
(***************************************************************************)
CompletedMeansDecided ==
    DrawIsSeeded /\ status = "Completed" =>
        /\ matches_reported = bracket_size - 1
        /\ Undecided = {}
        /\ settlement_mode # "OrganizerOnly" =>
             {p \in OpenParticipants : participant[p].losses = 0} \subseteq {champion}

(***************************************************************************)
(* A preset that pays more than the champion is only ever paid out by the  *)
(* organizer or arbitrator, who names the lower places: no player and no   *)
(* relayer settles such a final, by whatever path it is reached.           *)
(***************************************************************************)
PlacesNeedTheOrganizer ==
    status = "Completed" /\ placement_count(payout_preset) > 1 =>
        \A m \in OpenNodes : IsFinal(m, bracket_size) => settledBy[m] = Organizer

(***************************************************************************)
(*                           Action properties                             *)
(***************************************************************************)
\* The step settles match m.
Settles(m) == node[m].status = "Active" /\ node'[m].status = "Completed"

\* The step leaves the account of match m alone, or closes it.
KeptOrClosed(m) == node'[m] = node[m] \/ node'[m] = NoNode

(***************************************************************************)
(* A reported result is irrevocable (README): no later settlement, no      *)
(* winner moving up and no further chunk of start_tournament touches a     *)
(* decided match, until close_tournament removes its account.  Of a seeded *)
(* draw: advance_winner reads neither the slot nor the status it writes,   *)
(* so it is the draw that keeps decided matches out of its way.            *)
(***************************************************************************)
ReportedIsIrrevocable ==
    [][\A m \in Matches :
          DrawIsSeeded /\ node[m].status = "Completed" => KeptOrClosed(m)]_vars

Frozen ==
    /\ status' \in {status, "None"}
    /\ champion' \in {champion, NoOne}
    /\ vault' <= vault
    /\ \A w \in Wallets : wallet'[w] >= wallet[w]
    /\ \A m \in Matches : KeptOrClosed(m)

(***************************************************************************)
(* Terminal statuses freeze the bracket, and the vault only pays out: no   *)
(* result, no reactivation, no new money (tournament.rs: "Terminal - no    *)
(* reactivation"), though proposals and disputes still reach the envelope. *)
(***************************************************************************)
TerminalIsFrozen == [][(status \in TerminalStatus) => Frozen]_vars

SameDraw ==
    /\ seed_hash' = seed_hash
    /\ participant_count' = participant_count
    /\ bracket_size' = bracket_size

(***************************************************************************)
(* The draw is binding: a revealed seed is never replaced, and from the    *)
(* first chunk of start_tournament on neither the seed nor the size of the *)
(* field and of the bracket changes while the tournament exists.           *)
(***************************************************************************)
DrawIsBinding ==
    [][status' # "None" =>
          /\ (seed_revealed => seed_hash' = seed_hash)
          /\ (bracket_size # 0 => SameDraw)]_vars

\* What the two parties of match m were shown is still there.
SameProposal(m) ==
    /\ envelope'[m].source = envelope[m].source
    /\ envelope'[m].proposer = envelope[m].proposer
    /\ envelope'[m].proposed_winner = envelope[m].proposed_winner
    /\ envelope[m].disputed => envelope'[m].disputed

(***************************************************************************)
(* A proposal is never replaced or withdrawn, and a dispute never taken    *)
(* back, as long as its match account exists: the counterparty answers the *)
(* proposal it sees, not one that was swapped in meanwhile.                *)
(***************************************************************************)
ProposalIsBinding ==
    [][\A m \in Matches :
          envelope[m].source # "None" /\ node'[m].status # "Absent" => SameProposal(m)]_vars

\* Who may end an unchallenged and a disputed proposal, and for whom.
UnchallengedEnds(m) ==
    /\ node'[m].winner = envelope[m].proposed_winner
    /\ \/ envelope[m].claim_timer = 0
       \/ settledBy'[m] \in PlayersOf(m) \ {envelope[m].proposer}

DisputedEnds(m) ==
    \/ settledBy'[m] = Organizer
    \/ envelope[m].claim_timer = 0 /\ node'[m].winner = envelope[m].proposed_winner

(***************************************************************************)
(* Who can end a match of a proposal, by whatever instruction.  While it   *)
(* is unchallenged, only its own winner can come of it, and before the     *)
(* window ends only with the consent of a player that did not propose it.  *)
(* Once it is disputed, the organizer decides, and anyone else can only    *)
(* enforce the proposal after the force-claim window.                      *)
(***************************************************************************)
SettlementAuthority ==
    [][\A m \in Matches : Settles(m) /\ envelope[m].source # "None" =>
          IF envelope[m].disputed THEN DisputedEnds(m) ELSE UnchallengedEnds(m)]_vars

(***************************************************************************)
(*                               Liveness                                  *)
(***************************************************************************)
(***************************************************************************)
(* Time passes, and the two permissionless settlements have a cron each    *)
(* that retries them (README, instruction table).  Nothing is assumed of   *)
(* players, organizer or arbitrator.                                       *)
(***************************************************************************)
CronFairness ==
    /\ WF_vars(Tick)
    /\ \A m \in Matches : WF_vars(ClaimResult(m)) /\ WF_vars(ForceClaimDisputed(m))

(***************************************************************************)
(* A match with a proposal does not stay open: it is settled, unless the   *)
(* tournament ends first.  Whether the opponent answers, disputes late or  *)
(* falls silent, and whatever the organizer does or leaves undone.         *)
(***************************************************************************)
ProposalEventuallySettles ==
    \A m \in Matches :
        (status = "Active" /\ node[m].status = "Active" /\ envelope[m].source # "None")
            ~> (status # "Active" \/ node[m].status = "Completed")

(***************************************************************************)
(* If, besides, some player of each playable match reports a result, the   *)
(* bracket drains: no bye, no order of results and no dispute leaves a     *)
(* started tournament without an end.  For presets of one place.           *)
(***************************************************************************)
PlayFairness ==
    \A m \in Matches : WF_vars(\E p, w \in Players : ProposeResult(m, p, w))

BracketFinishes == status = "Active" ~> status # "Active"

(***************************************************************************)
(* Refunds need no one's permission: somebody sends each entrant's refund, *)
(* and the deposit's, once the tournament is cancelled.                    *)
(***************************************************************************)
RefundFairness ==
    /\ \A p \in Players : WF_vars(\/ CancelTournament(Relayer, {p}, FALSE)
                                  \/ PartialRefundChunk({p}, FALSE))
    /\ WF_vars(CancelTournament(Relayer, {}, TRUE) \/ PartialRefundChunk({}, TRUE))

CronSpec == Spec /\ CronFairness /\ RefundFairness

(***************************************************************************)
(* After a cancellation every entrant whose Participant account is not     *)
(* closed on the way gets the entry fee back, beaten or not, and if none   *)
(* is closed the vault is emptied.                                         *)
(***************************************************************************)
RefundsEventually ==
    /\ \A p \in Players :
         (status \in {"Cancelled", "PartialCancelled"} /\ participant[p].account = "Open")
             ~> (participant[p].refund_paid \/ participant[p].account = "Closed")
    /\ (status \in {"Cancelled", "PartialCancelled"})
           ~> (vault = 0 \/ \E p \in Unrefunded : participant[p].account = "Closed")

(***************************************************************************)
(*                              Refinement                                 *)
(***************************************************************************)
EscrowPhase ==
    CASE status = "None" -> IF incarnation = 0 THEN "Unborn" ELSE "Gone"
      [] status \in {"Cancelled", "PartialCancelled"} -> "Refunding"
      [] status = "Completed" -> "PaidOut"
      [] OTHER -> "Open"

EscrowView == INSTANCE Escrow WITH
    phase     <- EscrowPhase,
    paidIn    <- {p \in Players : participant[p].account # "Absent"},
    refunded  <- {p \in Players : participant[p].refund_paid},
    depositIn <- ~organizer_deposit_refunded,
    own       <- wallet[TournamentPda],
    pool      <- vault

(***************************************************************************)
(* The vault of one tournament is an escrow: it is paid out whole as       *)
(* prizes, or piece by piece, each piece once, to those who paid it in.    *)
(* A prize made out to the vault itself stays there.                       *)
(***************************************************************************)
ImplementsEscrow == EscrowView!Spec
=============================================================================
