-------------------------- MODULE BracketChainProofs --------------------------
(***************************************************************************)
(* Theorems about BracketChain, for every set of players, every preset,    *)
(* every fee and deposit, every window and every seed: what the accounts   *)
(* hold, and what the signers may rely on.  A proposal and a draw bind,    *)
(* only the entitled end a match, and the end of a tournament is final.    *)
(* Each of these is an action property; the invariants it rests on are     *)
(* stated before it.                                                       *)
(***************************************************************************)
EXTENDS BracketChain, AlgorithmProofs

(***************************************************************************)
(*                            Type correctness                             *)
(***************************************************************************)
LEMMA WalletTypes ==
  /\ Players \subseteq Wallets
  /\ Organizer \in Wallets /\ Treasury \in Wallets /\ Relayer \in Wallets
  /\ Signers \subseteq Wallets /\ TournamentPda \in Wallets
BY DEF Wallets, Signers

LEMMA MatchesFinite == IsFiniteSet(Matches)
<1>1. BracketSize(MaxParticipants) \in PowersOfTwo
  BY ParametersAssumption, BracketSizeFits
<1>2. QED  BY <1>1, ParametersAssumption, MatchIdsFinite DEF Matches

\* An empty record of each account is a record of it.
LEMMA EmptyAccounts ==
  /\ NoParticipant \in Participant
  /\ NoNode \in MatchNode
  /\ EmptyEnvelope \in Envelope
<1>1. NoParticipant \in Participant  BY DEF NoParticipant, Participant
<1>2. NoNode \in MatchNode  BY DEF NoNode, MatchNode
<1>3. EmptyEnvelope \in Envelope  BY DEF EmptyEnvelope, Envelope, ProposalSource
<1>4. QED  BY <1>1, <1>2, <1>3

\* Init writes well-formed accounts.
LEMMA InitTypes == Init => TypeOK
<1> SUFFICES ASSUME Init  PROVE TypeOK
  OBVIOUS
<1>1. /\ participant \in [Players -> Participant]
      /\ node \in [Matches -> MatchNode]
      /\ envelope \in [Matches -> Envelope]
  BY EmptyAccounts DEF Init
<1>2. /\ wallet \in [Wallets -> Int]
      /\ settledBy \in [Matches -> Wallets \cup {NoOne}]
  BY DEF Init
<1>3. /\ status \in Status /\ champion \in Wallets \cup {NoOne}
      /\ bracket_size \in PowersOfTwo \cup {0} /\ seed_hash \in Seeds \cup {NoSeed}
  BY DEF Init, Status
<1>4. /\ vrf_bound \in BOOLEAN /\ seed_revealed \in BOOLEAN
      /\ organizer_deposit_refunded \in BOOLEAN
  BY Zenon DEF Init
<1>5. QED  BY <1>1, <1>2, <1>3, <1>4 DEF Init, TypeOK

LEMMA CreateTypes ==
  ASSUME TypeOK, NEW mode \in Modes, NEW preset \in Presets,
         CreateTournament(mode, preset)
  PROVE  TypeOK'
<1>1. participant' \in [Players -> Participant]
  BY EmptyAccounts DEF TypeOK, CreateTournament
<1>2. wallet' \in [Wallets -> Int] /\ vault' \in Int
  BY WalletTypes, ParametersAssumption DEF TypeOK, CreateTournament
<1>3. registration_timer' \in Nat /\ incarnation' \in Nat /\ status' \in Status
  BY ParametersAssumption DEF TypeOK, CreateTournament, Status
<1>4. QED
  BY <1>1, <1>2, <1>3
  DEF TypeOK, CreateTournament, counters, seeding, matches, oracle

LEMMA JoinTypes ==
  ASSUME TypeOK, NEW p \in Players, JoinTournament(p)
  PROVE  TypeOK'
<1>1. participant' \in [Players -> Participant]
  BY EmptyAccounts DEF TypeOK, JoinTournament, Participant, NoParticipant
<1>2. wallet' \in [Wallets -> Int] /\ vault' \in Int
  BY WalletTypes, ParametersAssumption DEF TypeOK, JoinTournament
<1>3. participant_count' \in Nat
  BY DEF TypeOK, JoinTournament
<1>4. QED
  BY <1>1, <1>2, <1>3
  DEF TypeOK, JoinTournament, terms, seeding, matches, oracle

LEMMA SeedTypes ==
  ASSUME TypeOK, RequestSeed \/ \E seed \in Seeds : RevealSeed(seed)
  PROVE  TypeOK'
<1>1. CASE RequestSeed
  BY <1>1 DEF TypeOK, RequestSeed, terms, counters, money, matches, oracle
<1>2. CASE \E seed \in Seeds : RevealSeed(seed)
  BY <1>2 DEF TypeOK, RevealSeed, terms, counters, money, matches, oracle
<1>3. QED  BY <1>1, <1>2

\* Whatever start_tournament lets through is a descriptor of real wallets.
LEMMA DrawTypes ==
  ASSUME TypeOK, NEW ids, NEW size, NEW seed, NEW draw \in Draws(ids, size, seed)
  PROVE  \A id \in ids : draw[id] \in Descriptor
<1> DEFINE perm == SeedPermutation(seed, participant_count)
<1>1. ASSUME NEW id, NEW d \in SeededDescriptors(id, size, perm)
      PROVE  d \in Descriptor
  <2>1. \A rank : Holders(perm, rank) \subseteq Wallets \cup {NoOne}
    BY WalletTypes DEF Holders, OpenParticipants
  <2>2. \A m : IsBye(m, size, participant_count) \in BOOLEAN
    BY DEF IsBye
  <2> HIDE DEF perm
  <2>3. CASE id.round = 0
    BY <1>1, <2>1, <2>2, <2>3 DEF SeededDescriptors, SeededRound0, Descriptor
  <2>4. CASE id.round # 0 /\ id.round = 1
    BY <1>1, <2>1, <2>4 DEF SeededDescriptors, SeededRound1Slot, Descriptor
  <2>5. CASE id.round # 0 /\ id.round # 1
    BY <1>1, <2>5 DEF SeededDescriptors, Descriptor
  <2>6. QED  BY <2>3, <2>4, <2>5
<1>2. CASE draw \in SeededDraws(ids, size, seed)
  BY <1>1, <1>2 DEF SeededDraws
<1>3. CASE draw \in FreeDraws(ids)
  BY <1>3 DEF FreeDraws
<1>4. QED  BY <1>2, <1>3 DEF Draws

LEMMA StartTypes ==
  ASSUME TypeOK, NEW ids \in SUBSET Matches, NEW size \in PowersOfTwo, NEW seed \in Seeds,
         StartTournament(ids, size, seed)
  PROVE  TypeOK'
<1>1. PICK draw \in Draws(ids, size, seed) :
        /\ node' = [m \in Matches |-> IF m \in ids THEN NewNode(draw[m]) ELSE node[m]]
        /\ matches_reported' = matches_reported + ByesIn(ids, draw)
  BY DEF StartTournament
<1>2. \A id \in ids : draw[id] \in Descriptor
  BY DrawTypes
<1>3. \A d \in Descriptor : NewNode(d) \in MatchNode
  BY DEF Descriptor, NewNode, MatchNode
<1>4. node' \in [Matches -> MatchNode]
  BY <1>1, <1>2, <1>3 DEF TypeOK
<1>5. Cardinality(ids) \in Nat /\ ByesIn(ids, draw) \in Nat
  <2>1. IsFiniteSet(ids)  BY MatchesFinite, FS_Subset
  <2>2. IsFiniteSet({id \in ids : draw[id].bye})  BY <2>1, FS_Subset
  <2>3. QED  BY <2>1, <2>2, FS_CardinalityType DEF ByesIn
<1>6. matches_reported' \in Nat /\ matches_initialized' \in Nat
  BY <1>1, <1>5 DEF TypeOK, StartTournament
<1>7. envelope' \in [Matches -> Envelope]
  BY EmptyAccounts DEF TypeOK, StartTournament
<1>8. /\ settledBy' \in [Matches -> Wallets \cup {NoOne}]
      /\ committed' \subseteq Matches /\ feed_bound' \subseteq Matches
  BY DEF TypeOK, StartTournament
<1>9. status' \in Status /\ seed_hash' \in Seeds \cup {NoSeed} /\ bracket_size' \in PowersOfTwo
  BY DEF StartTournament, Status
<1>10. QED
  BY <1>4, <1>6, <1>7, <1>8, <1>9 DEF TypeOK, StartTournament, terms, money

\* A refund moves whole numbers of tokens and only ever sets flags.
LEMMA RefundTypes ==
  ASSUME TypeOK, NEW chunk \in SUBSET Players, NEW withDeposit \in BOOLEAN,
         RefundChunk(chunk, withDeposit)
  PROVE  /\ vault' \in Int /\ wallet' \in [Wallets -> Int]
         /\ organizer_deposit_refunded' \in BOOLEAN
         /\ participant' \in [Players -> Participant]
<1> DEFINE unpaid == Unpaid(chunk)
           deposit == DepositDue(withDeposit)
<1>1. deposit \in Nat  BY ParametersAssumption DEF DepositDue
<1>2. Cardinality(unpaid) \in Nat
  <2>1. IsFiniteSet(chunk)  BY PartiesAssumption, FS_Subset
  <2>2. IsFiniteSet(unpaid)  BY <2>1, FS_Subset DEF Unpaid
  <2>3. QED  BY <2>2, FS_CardinalityType
<1>3. /\ vault' = vault - (deposit + EntryFee * Cardinality(unpaid))
      /\ wallet' = [w \in Wallets |-> wallet[w] + (IF w = Organizer THEN deposit ELSE 0)
                                                + (IF w \in unpaid THEN EntryFee ELSE 0)]
      /\ organizer_deposit_refunded' = (organizer_deposit_refunded \/ deposit > 0)
      /\ participant' = [p \in Players |->
             IF p \in unpaid THEN [participant[p] EXCEPT !.refund_paid = TRUE]
             ELSE participant[p]]
  BY Zenon DEF RefundChunk
<1> HIDE DEF unpaid, deposit
<1>4. vault' \in Int
  <2>1. EntryFee * Cardinality(unpaid) \in Int  BY <1>2, ParametersAssumption
  <2>2. QED  BY <1>1, <1>3, <2>1 DEF TypeOK
<1>5. wallet' \in [Wallets -> Int]
  BY <1>1, <1>3, ParametersAssumption DEF TypeOK
<1>6. participant' \in [Players -> Participant]
  BY <1>3 DEF TypeOK, Participant
<1>7. QED  BY <1>3, <1>4, <1>5, <1>6

LEMMA CancelTypes ==
  ASSUME TypeOK, NEW chunk \in SUBSET Players, NEW withDeposit \in BOOLEAN,
         \/ \E caller \in {Organizer, Relayer} : CancelTournament(caller, chunk, withDeposit)
         \/ PartialRefundChunk(chunk, withDeposit)
         \/ PartialCancelTournament
  PROVE  TypeOK'
<1>1. CASE \E caller \in {Organizer, Relayer} : CancelTournament(caller, chunk, withDeposit)
  <2>1. RefundChunk(chunk, withDeposit) /\ status' \in Status
    BY <1>1 DEF CancelTournament, Status
  <2>2. QED
    BY <1>1, <2>1, RefundTypes
    DEF TypeOK, CancelTournament, terms, counters, seeding, matches, oracle
<1>2. CASE PartialRefundChunk(chunk, withDeposit)
  <2>1. RefundChunk(chunk, withDeposit)  BY <1>2 DEF PartialRefundChunk
  <2>2. QED
    BY <1>2, <2>1, RefundTypes
    DEF TypeOK, PartialRefundChunk, tournament, terms, counters, seeding, matches, oracle
<1>3. CASE PartialCancelTournament
  BY <1>3
  DEF TypeOK, Status, PartialCancelTournament, terms, counters, seeding, money, matches, oracle
<1>4. QED  BY <1>1, <1>2, <1>3

LEMMA CloseTypes ==
  ASSUME TypeOK, NEW players \in SUBSET Players, NEW nodes \in SUBSET Matches,
         NEW closeRoot \in BOOLEAN, CloseTournament(players, nodes, closeRoot)
  PROVE  TypeOK'
<1>1. CloseChildren(players, nodes)  BY DEF CloseTournament
<1>2. participant' \in [Players -> Participant]
  BY <1>1 DEF CloseChildren, TypeOK, Participant
<1>3. /\ node' \in [Matches -> MatchNode] /\ envelope' \in [Matches -> Envelope]
      /\ settledBy' \in [Matches -> Wallets \cup {NoOne}]
      /\ committed' \subseteq Matches /\ feed_bound' \subseteq Matches
  BY <1>1, EmptyAccounts DEF CloseChildren, TypeOK
<1>4. CASE NoTournament
  BY <1>2, <1>3, <1>4 DEF TypeOK, NoTournament, CloseTournament, terms, money, Status
<1>5. CASE UNCHANGED <<status, registration_timer, counters, champion, seeding>>
  BY <1>2, <1>3, <1>5 DEF TypeOK, CloseTournament, terms, money, counters, seeding
<1>6. QED  BY <1>4, <1>5 DEF CloseTournament

LEMMA TickTypes ==
  ASSUME TypeOK, Tick
  PROVE  TypeOK'
<1>1. \A timer \in Nat : CountDown(timer) \in Nat
  BY DEF CountDown
<1>2. registration_timer' \in Nat
  BY <1>1 DEF TypeOK, Tick
<1>3. envelope' \in [Matches -> Envelope]
  BY <1>1 DEF TypeOK, Tick, Envelope
<1>4. QED
  BY <1>2, <1>3 DEF TypeOK, Tick, terms, counters, seeding, money, oracle

(***************************************************************************)
(* Paying the prizes: the amounts and the fee add up to the vault, whoever *)
(* is placed.  What is sent to the tournament itself stays in the vault,   *)
(* and nothing else does.                                                  *)
(***************************************************************************)
FinalFee == protocol_fee(GrossPool)

FinalAmounts ==
    split_placements(GrossPool - FinalFee, basis_points(payout_preset),
                     placement_count(payout_preset))

LEMMA SentIsWhole ==
  ASSUME NEW amounts \in [Slots -> Int], NEW fee \in Int, NEW placements, NEW w
  PROVE  Sent(w, placements, amounts, fee) \in Int
<1>1. Slots = {1, 2, 3, 4, 5, 6, 7, 8}  BY DEF Slots, MAX_PAYOUT_SLOTS
<1>2. PICK got : got = [i \in Slots |-> IF placements[i] = w THEN amounts[i] ELSE 0]
  OBVIOUS
<1>3. \A i \in Slots : got[i] \in Int  BY <1>2
<1>4. SlotSum(got) \in Int  BY <1>1, <1>3 DEF SlotSum
<1>5. QED  BY <1>2, <1>4 DEF Sent

LEMMA FinalAddsUp ==
  ASSUME TypeOK
  PROVE  /\ FinalFee \in Int /\ FinalAmounts \in [Slots -> Int]
         /\ SlotSum(FinalAmounts) \in Int /\ SlotSum(FinalAmounts) + FinalFee = vault
<1> DEFINE net == GrossPool - FinalFee
           count == placement_count(payout_preset)
           bps == basis_points(payout_preset)
<1>1. vault \in Int /\ FinalFee \in Int /\ net \in Int
  BY DEF TypeOK, GrossPool, FinalFee, protocol_fee, PROTOCOL_FEE_BPS, BPS_DENOMINATOR
<1>2. bps \in [Slots -> Int]
  BY ParametersAssumption DEF TypeOK, PayoutPreset, basis_points
<1>3. count \in Int
  <2>1. MAX_PAYOUT_SLOTS \in Int  BY DEF MAX_PAYOUT_SLOTS
  <2>2. IsFiniteSet(Slots)  BY <2>1, FS_Interval DEF Slots
  <2>3. IsFiniteSet({i \in Slots : bps[i] > 0})  BY <2>2, FS_Subset
  <2>4. QED  BY <2>3, FS_CardinalityType DEF placement_count
<1>4. FinalAmounts = split_placements(net, bps, count)  BY DEF FinalAmounts
<1>5. net + FinalFee = vault  BY <1>1 DEF GrossPool
<1> HIDE DEF net, count, bps
<1>6. FinalAmounts \in [Slots -> Int] /\ SlotSum(FinalAmounts) = net
  BY <1>1, <1>2, <1>3, <1>4, SplitAddsUp
<1>7. QED  BY <1>1, <1>5, <1>6

LEMMA PrizesLeaveTheVault ==
  ASSUME TypeOK, NEW placements, DistributePrizes(placements)
  PROVE  /\ vault' = Sent(TournamentPda, placements, FinalAmounts, FinalFee)
         /\ wallet' = [w \in Wallets |->
                          wallet[w] + Sent(w, placements, FinalAmounts, FinalFee)]
         /\ vault' \in Int /\ wallet' \in [Wallets -> Int]
<1>1. /\ vault' = vault - SentAway(placements, FinalAmounts, FinalFee)
      /\ wallet' = [w \in Wallets |->
                       wallet[w] + Sent(w, placements, FinalAmounts, FinalFee)]
  BY Zenon DEF DistributePrizes, FinalAmounts, FinalFee
<1>2. \A w : Sent(w, placements, FinalAmounts, FinalFee) \in Int
  BY FinalAddsUp, SentIsWhole
<1>3. vault' = Sent(TournamentPda, placements, FinalAmounts, FinalFee)
  <2>1. /\ SlotSum(FinalAmounts) \in Int /\ FinalFee \in Int
        /\ SlotSum(FinalAmounts) + FinalFee = vault
    BY FinalAddsUp
  <2>2. Sent(TournamentPda, placements, FinalAmounts, FinalFee) \in Int  BY <1>2
  <2>3. QED  BY <1>1, <2>1, <2>2 DEF SentAway
<1>4. wallet' \in [Wallets -> Int]
  BY <1>1, <1>2 DEF TypeOK
<1>5. QED  BY <1>1, <1>2, <1>3, <1>4

\* Out of a vault that is not overdrawn everybody gets something between
\* nothing and all of it: distribute_prizes checks the lower places first.
LEMMA NobodyIsSentMore ==
  ASSUME TypeOK, vault \in Nat, NEW placements, DistributePrizes(placements)
  PROVE  /\ FinalFee \in Nat /\ FinalAmounts \in [Slots -> Nat]
         /\ \A w : Sent(w, placements, FinalAmounts, FinalFee) \in 0..vault
<1> DEFINE net == GrossPool - FinalFee
           count == placement_count(payout_preset)
           bps == basis_points(payout_preset)
<1>1. FinalFee \in 0..vault
  <2>1. PICK gross \in Nat : gross = vault  OBVIOUS
  <2>2. (gross * PROTOCOL_FEE_BPS) \div BPS_DENOMINATOR \in 0..gross
    BY DEF PROTOCOL_FEE_BPS, BPS_DENOMINATOR
  <2>3. QED  BY <2>1, <2>2 DEF FinalFee, GrossPool, protocol_fee
<1>2. net \in Nat  BY <1>1 DEF GrossPool
<1>3. bps \in [Slots -> Nat]
  BY ParametersAssumption DEF TypeOK, PayoutPreset, basis_points
<1>4. LowerSum(net, bps, count) <= net
  BY Zenon DEF DistributePrizes, FinalFee
<1>5. FinalAmounts = split_placements(net, bps, count)  BY DEF FinalAmounts
<1> HIDE DEF net, count, bps
<1>6. \A i \in Slots : FlooredShare(net, bps, count, i) \in Nat
  <2> SUFFICES ASSUME NEW i \in Slots  PROVE FlooredShare(net, bps, count, i) \in Nat
    OBVIOUS
  <2>1. net * bps[i] \in Nat  BY <1>2, <1>3, NaturalProduct
  <2>2. (net * bps[i]) \div BPS_DENOMINATOR \in Nat  BY <2>1, FloorBounds
  <2>3. QED  BY <2>2 DEF FlooredShare
<1>7. Slots = {1, 2, 3, 4, 5, 6, 7, 8}  BY DEF Slots, MAX_PAYOUT_SLOTS
<1>8. LowerSum(net, bps, count) \in Int
  <2>1. PICK low : low = [i \in Slots |-> IF i = 1 THEN 0 ELSE FlooredShare(net, bps, count, i)]
    OBVIOUS
  <2>2. \A i \in Slots : low[i] \in Int  BY <1>6, <2>1
  <2>3. SlotSum(low) \in Int  BY <1>7, <2>2 DEF SlotSum
  <2>4. QED  BY <2>1, <2>3 DEF LowerSum
<1>9. FinalAmounts \in [Slots -> Nat]
  BY <1>2, <1>4, <1>5, <1>6, <1>8 DEF split_placements
<1>10. ASSUME NEW w  PROVE Sent(w, placements, FinalAmounts, FinalFee) \in 0..vault
  <2>1. PICK a \in [Slots -> Nat] : a = FinalAmounts  BY <1>9
  <2>2. PICK got : got = [i \in Slots |-> IF placements[i] = w THEN a[i] ELSE 0]  OBVIOUS
  <2>3. \A i \in Slots : a[i] \in Nat /\ got[i] \in 0..a[i]  BY <2>2
  <2>4. SlotSum(got) \in Nat /\ SlotSum(got) <= SlotSum(a) /\ SlotSum(a) \in Nat
    BY <1>7, <2>3 DEF SlotSum
  <2>5. SlotSum(a) + FinalFee = vault  BY <2>1, FinalAddsUp
  <2>6. Sent(w, placements, FinalAmounts, FinalFee)
          = SlotSum(got) + (IF w = Treasury THEN FinalFee ELSE 0)
    BY <2>1, <2>2 DEF Sent
  <2>7. QED  BY <1>1, <2>4, <2>5, <2>6
<1>11. QED  BY <1>1, <1>9, <1>10

\* A winner is one of the wallets the match account names.
LEMMA FinalizeTypes ==
  ASSUME TypeOK, NEW m \in Matches, NEW winner, NEW trusted \in BOOLEAN,
         NEW signer \in Wallets, FinalizeMatch(m, winner, trusted, signer),
         participant' \in [Players -> Participant]
  PROVE  TypeOK'
<1>1. winner \in Wallets \cup {NoOne}
  BY DEF FinalizeMatch, PlayersOf, TypeOK, MatchNode
<1>2. \A n \in MatchNode : Decided(n, winner) \in MatchNode
  BY <1>1 DEF MatchNode, Decided
<1>3. /\ status' \in Status /\ champion' \in Wallets \cup {NoOne}
      /\ vault' \in Int /\ wallet' \in [Wallets -> Int]
      /\ node' \in [Matches -> MatchNode]
  <2>1. CASE CompleteTournament(m, winner, trusted)
    <3>1. PICK placements \in Placements(m, winner) : DistributePrizes(placements)
      BY <2>1 DEF CompleteTournament
    <3>2. vault' \in Int /\ wallet' \in [Wallets -> Int]
      BY <3>1, PrizesLeaveTheVault
    <3>3. node' \in [Matches -> MatchNode]
      BY <1>2, <2>1 DEF CompleteTournament, TypeOK
    <3>4. status' \in Status /\ champion' \in Wallets \cup {NoOne}
      BY <1>1, <2>1 DEF CompleteTournament, Status
    <3>5. QED  BY <3>2, <3>3, <3>4
  <2>2. CASE AdvanceWinner(m, winner)
    <3>1. PICK next \in OpenNodes :
            node' = [node EXCEPT ![m] = Decided(@, winner),
                                 ![next] = Seated(@, IsLeftChild(m), winner)]
      BY <2>2 DEF AdvanceWinner
    <3>2. \A n \in MatchNode, left \in BOOLEAN : Seated(n, left, winner) \in MatchNode
      BY <1>1 DEF Seated, MatchNode
    <3>3. IsLeftChild(m) \in BOOLEAN
      BY DEF IsLeftChild
    <3>4. node' \in [Matches -> MatchNode]
      BY <1>2, <3>1, <3>2, <3>3 DEF TypeOK, OpenNodes
    <3>5. QED  BY <2>2, <3>4 DEF AdvanceWinner, TypeOK
  <2>3. QED  BY <2>1, <2>2 DEF FinalizeMatch
<1>4. /\ matches_reported' \in Nat
      /\ settledBy' \in [Matches -> Wallets \cup {NoOne}]
  BY DEF FinalizeMatch, TypeOK
<1>5. UNCHANGED <<terms, registration_timer, participant_count, bracket_size,
                  matches_initialized, seeding, organizer_deposit_refunded, envelope,
                  oracle, incarnation>>
  BY DEF FinalizeMatch
<1>6. QED
  BY <1>3, <1>4, <1>5 DEF TypeOK, terms, seeding, oracle

LEMMA SettleTypes ==
  ASSUME TypeOK, NEW m \in Matches, NEW winner, NEW trusted \in BOOLEAN,
         NEW signer \in Wallets, Settle(m, winner, trusted, signer)
  PROVE  TypeOK'
<1>1. participant' \in [Players -> Participant]
  BY DEF Settle, CreditMatchStats, TypeOK, Participant
<1>2. QED  BY <1>1, FinalizeTypes DEF Settle

LEMMA ProposeTypes ==
  ASSUME TypeOK, NEW m \in Matches, NEW source \in ProposalSource,
         NEW proposer \in Wallets, NEW winner \in Wallets \cup {NoOne},
         Propose(m, source, proposer, winner)
  PROVE  TypeOK'
<1>1. envelope' \in [Matches -> Envelope]
  BY ParametersAssumption DEF Propose, TypeOK, Envelope
<1>2. QED
  BY <1>1
  DEF Propose, TypeOK, tournament, terms, counters, seeding, money, oracle

LEMMA SettlementTypes ==
  ASSUME TypeOK, NEW m \in Matches, SettlementStep(m)
  PROVE  TypeOK'
<1>1. CASE \E w \in Wallets : ReportResult(m, w)
  BY <1>1, WalletTypes, FinalizeTypes DEF ReportResult, TypeOK
<1>2. CASE \E p, w \in Players : ProposeResult(m, p, w)
  BY <1>2, WalletTypes, ProposeTypes DEF ProposeResult, ProposalSource
<1>3. CASE \E p \in Players : ConfirmResult(m, p)
  BY <1>3, WalletTypes, SettleTypes DEF ConfirmResult
<1>4. CASE \E w \in Signers : DisputeResult(m, w)
  <2>1. envelope' \in [Matches -> Envelope]
    <3>1. \A e \in Envelope : Contested(e) \in Envelope
      BY ParametersAssumption DEF Envelope, Contested
    <3>2. QED  BY <1>4, <3>1 DEF DisputeResult, TypeOK
  <2>2. UNCHANGED <<tournament, money, participant, node, oracle, settledBy, incarnation>>
    BY <1>4 DEF DisputeResult
  <2>3. QED
    BY <2>1, <2>2 DEF TypeOK, tournament, terms, counters, seeding, money, oracle
<1>5. CASE \E w \in Players : ResolveDispute(m, w)
  BY <1>5, WalletTypes, SettleTypes DEF ResolveDispute
<1>6. CASE ClaimResult(m) \/ ForceClaimDisputed(m) \/ SettleFinal(m)
  BY <1>6, WalletTypes, SettleTypes DEF ClaimResult, ForceClaimDisputed, SettleFinal
<1>7. CASE CommitMatchLobby(m)
  BY <1>7 DEF CommitMatchLobby, TypeOK, tournament, terms, counters, seeding, money
<1>8. CASE BindMatchFeed(m)
  BY <1>8 DEF BindMatchFeed, TypeOK, tournament, terms, counters, seeding, money
<1>9. CASE \E relayer \in Signers, value \in FeedValues : ProposeResultOracle(m, relayer, value)
  <2>1. PICK relayer \in Signers, winner \in PlayersOf(m) : Propose(m, "Oracle", relayer, winner)
    BY <1>9 DEF ProposeResultOracle
  <2>2. winner \in Wallets \cup {NoOne}
    BY DEF PlayersOf, TypeOK, MatchNode
  <2>3. QED  BY <2>1, <2>2, WalletTypes, ProposeTypes DEF ProposalSource
<1>10. QED
  BY <1>1, <1>2, <1>3, <1>4, <1>5, <1>6, <1>7, <1>8, <1>9 DEF SettlementStep

LEMMA LifecycleTypes ==
  ASSUME TypeOK, LifecycleStep
  PROVE  TypeOK'
<1>1. CASE \E mode \in Modes, preset \in Presets : CreateTournament(mode, preset)
  BY <1>1, CreateTypes
<1>2. CASE \E p \in Players : JoinTournament(p)
  BY <1>2, JoinTypes
<1>3. CASE RequestSeed \/ \E seed \in Seeds : RevealSeed(seed)
  BY <1>3, SeedTypes
<1>4. CASE \E ids \in SUBSET Matches, size \in PowersOfTwo, seed \in Seeds :
             StartTournament(ids, size, seed)
  BY <1>4, StartTypes
<1>5. CASE PartialCancelTournament
  BY <1>5, CancelTypes
<1>6. CASE \E chunk \in SUBSET Players, withDeposit \in BOOLEAN :
             \/ \E caller \in {Organizer, Relayer} : CancelTournament(caller, chunk, withDeposit)
             \/ PartialRefundChunk(chunk, withDeposit)
  BY <1>6, CancelTypes
<1>7. CASE \E players \in SUBSET Players :
             /\ Cardinality(players) <= MaxCloseChunk
             /\ \E nodes \in SUBSET Matches, closeRoot \in BOOLEAN :
                   CloseTournament(players, nodes, closeRoot)
  BY <1>7, CloseTypes
<1>8. QED  BY <1>1, <1>2, <1>3, <1>4, <1>5, <1>6, <1>7 DEF LifecycleStep

(***************************************************************************)
(* Every account always holds what its struct declares.                    *)
(***************************************************************************)
THEOREM TypeCorrect == Spec => []TypeOK
<1>1. Init => TypeOK
  BY InitTypes
<1>2. TypeOK /\ [Next]_vars => TypeOK'
  <2> SUFFICES ASSUME TypeOK, [Next]_vars  PROVE TypeOK'
    OBVIOUS
  <2>1. CASE Tick  BY <2>1, TickTypes
  <2>2. CASE LifecycleStep  BY <2>2, LifecycleTypes
  <2>3. CASE \E m \in Matches : SettlementStep(m)  BY <2>3, SettlementTypes
  <2>4. CASE UNCHANGED vars
    BY <2>4
    DEF TypeOK, vars, tournament, terms, counters, seeding, money, matches, oracle
  <2>5. QED  BY <2>1, <2>2, <2>3, <2>4 DEF Next
<1>3. QED  BY <1>1, <1>2, PTL DEF Spec

(***************************************************************************)
(*                       What the signers rely on                          *)
(***************************************************************************)
\* A step that changes neither a match account nor its envelope.
MatchesKept == UNCHANGED <<node, envelope, settledBy>>

\* The instructions that leave every match account and envelope alone.
LEMMA LifecycleKeepsMatches ==
  ASSUME LifecycleStep
  PROVE  \/ MatchesKept
         \/ \E ids \in SUBSET Matches, size \in PowersOfTwo, seed \in Seeds :
               StartTournament(ids, size, seed)
         \/ \E players \in SUBSET Players, nodes \in SUBSET Matches, closeRoot \in BOOLEAN :
               CloseTournament(players, nodes, closeRoot)
BY DEF LifecycleStep, MatchesKept, CreateTournament, JoinTournament, RequestSeed, RevealSeed,
       PartialCancelTournament, CancelTournament, PartialRefundChunk, matches

\* start_tournament writes accounts that were not there, and only those.
LEMMA StartWrites ==
  ASSUME TypeOK, NEW ids \in SUBSET Matches, NEW size, NEW seed,
         StartTournament(ids, size, seed)
  PROVE  /\ \A m \in ids : /\ node[m].status = "Absent"
                           /\ node'[m].status # "Absent"
                           /\ envelope'[m] = EmptyEnvelope
         /\ \A m \in Matches \ ids : node'[m] = node[m] /\ envelope'[m] = envelope[m]
         /\ status \in {"Registration", "PendingBracketInit"}
<1>1. PICK draw \in Draws(ids, size, seed) :
        node' = [m \in Matches |-> IF m \in ids THEN NewNode(draw[m]) ELSE node[m]]
  BY DEF StartTournament
<1>2. envelope' = [m \in Matches |-> IF m \in ids THEN EmptyEnvelope ELSE envelope[m]]
  BY DEF StartTournament
<1>3. \A m \in ids : node[m].status = "Absent"
  BY DEF StartTournament, OpenNodes
<1>4. \A m \in ids : node'[m].status # "Absent"
  BY <1>1 DEF NewNode
<1>5. status \in {"Registration", "PendingBracketInit"}
  BY DEF StartTournament, DrawBracket
<1>6. QED  BY <1>1, <1>2, <1>3, <1>4, <1>5

\* close_tournament removes accounts, and changes no other.
LEMMA CloseWrites ==
  ASSUME TypeOK, NEW players, NEW nodes \in SUBSET Matches, NEW closeRoot,
         CloseTournament(players, nodes, closeRoot)
  PROVE  /\ \A m \in nodes : node'[m] = NoNode /\ envelope'[m] = EmptyEnvelope
         /\ \A m \in Matches \ nodes : node'[m] = node[m] /\ envelope'[m] = envelope[m]
BY DEF CloseTournament, CloseChildren, TypeOK

\* finalize_match decides its match and at most seats the winner in another.
LEMMA FinalizeWrites ==
  ASSUME TypeOK, NEW m \in Matches, NEW winner, NEW trusted, NEW signer,
         FinalizeMatch(m, winner, trusted, signer)
  PROVE  /\ envelope' = envelope
         /\ settledBy'[m] = signer
         /\ node[m].status = "Active" /\ status = "Active"
         /\ winner \in PlayersOf(m)
         /\ node'[m].status = "Completed" /\ node'[m].winner = winner
         /\ \A n \in Matches \ {m} :
              \/ node'[n] = node[n]
              \/ node[n].status # "Absent" /\ node'[n].status \in {node[n].status, "Active"}
         /\ status' \in {"Active", "Completed"}
<1>1. /\ envelope' = envelope
      /\ settledBy'[m] = signer
      /\ node[m].status = "Active" /\ status = "Active"
      /\ winner \in PlayersOf(m)
  BY DEF FinalizeMatch, Playable, TypeOK
<1>2. CASE CompleteTournament(m, winner, trusted)
  BY <1>1, <1>2 DEF CompleteTournament, Decided, TypeOK, MatchNode
<1>3. CASE AdvanceWinner(m, winner)
  <2>1. PICK next \in OpenNodes :
          /\ FeedsInto(m, next)
          /\ node' = [node EXCEPT ![m] = Decided(@, winner),
                                  ![next] = Seated(@, IsLeftChild(m), winner)]
    BY <1>3 DEF AdvanceWinner
  <2>2. m # next /\ next \in Matches /\ node[next].status # "Absent"
    <3>1. m.round \in Int
      BY DEF Matches, MatchIds
    <3>2. QED  BY <2>1, <3>1 DEF FeedsInto, OpenNodes
  <2>3. node'[m] = Decided(node[m], winner)
    BY <2>1, <2>2 DEF TypeOK
  <2>4. node'[next] = Seated(node[next], IsLeftChild(m), winner)
    BY <2>1, <2>2 DEF TypeOK
  <2>5. \A n \in Matches \ {m, next} : node'[n] = node[n]
    BY <2>1 DEF TypeOK
  <2>6. node'[next].status \in {node[next].status, "Active"}
    BY <2>2, <2>4 DEF Seated, TypeOK, MatchNode
  <2>7. node'[m].status = "Completed" /\ node'[m].winner = winner
    BY <2>3 DEF Decided, TypeOK, MatchNode
  <2>8. status' = status
    BY <1>3 DEF AdvanceWinner
  <2>9. QED  BY <1>1, <2>2, <2>5, <2>6, <2>7, <2>8
<1>4. QED  BY <1>2, <1>3 DEF FinalizeMatch

\* The number of players closed at once is bounded by the number of accounts.
LEMMA CloseIsAStep ==
  ASSUME NEW players \in SUBSET Players, NEW nodes \in SUBSET Matches,
         NEW closeRoot \in BOOLEAN, CloseTournament(players, nodes, closeRoot)
  PROVE  LifecycleStep
<1>1. Cardinality(players) + Cardinality(nodes) <= MaxCloseChunk
  BY DEF CloseTournament, CloseChildren
<1>2. Cardinality(players) \in Nat
  BY PartiesAssumption, FS_Subset, FS_CardinalityType
<1>3. Cardinality(nodes) \in Nat
  BY MatchesFinite, FS_Subset, FS_CardinalityType
<1>4. Cardinality(players) <= MaxCloseChunk
  BY <1>1, <1>2, <1>3, ParametersAssumption
<1>5. QED  BY <1>4, Zenon DEF LifecycleStep

(***************************************************************************)
(* A proposal binds: no account is there without its match.                *)
(***************************************************************************)
NoMatchNoProposal ==
    \A m \in Matches : node[m].status = "Absent" => envelope[m].source = "None"

KeepsProposals ==
    \A m \in Matches :
        envelope[m].source # "None" /\ node'[m].status # "Absent" => SameProposal(m)

\* A step that finds an envelope empty, or leaves the proposal in it alone.
LEMMA FillOrKeep ==
  ASSUME NoMatchNoProposal,
         \A m \in Matches :
            \/ node'[m].status # "Absent" /\ envelope[m].source = "None"
            \/ SameProposal(m) /\ (node'[m].status = "Absent" => node[m].status = "Absent")
            \/ envelope'[m].source = "None" /\ node'[m].status = "Absent"
  PROVE  KeepsProposals /\ NoMatchNoProposal'
BY DEF KeepsProposals, NoMatchNoProposal, SameProposal

LEMMA EnvelopeUnchanged ==
  ASSUME NoMatchNoProposal, envelope' = envelope,
         \A m \in Matches : node'[m].status = "Absent" => node[m].status = "Absent"
  PROVE  KeepsProposals /\ NoMatchNoProposal'
<1>1. \A m \in Matches : SameProposal(m)
  BY DEF SameProposal
<1>2. QED  BY <1>1, FillOrKeep

LEMMA LifecycleBinding ==
  ASSUME TypeOK, NoMatchNoProposal, LifecycleStep
  PROVE  KeepsProposals /\ NoMatchNoProposal'
<1>1. CASE MatchesKept
  BY <1>1, EnvelopeUnchanged DEF MatchesKept
<1>2. ASSUME NEW ids \in SUBSET Matches, NEW size \in PowersOfTwo, NEW seed \in Seeds,
             StartTournament(ids, size, seed)
      PROVE  KeepsProposals /\ NoMatchNoProposal'
  <2>1. \A m \in ids : node'[m].status # "Absent" /\ envelope[m].source = "None"
    BY <1>2, StartWrites DEF NoMatchNoProposal
  <2>2. \A m \in Matches \ ids : SameProposal(m) /\ node'[m] = node[m]
    BY <1>2, StartWrites DEF SameProposal
  <2>3. QED  BY <2>1, <2>2, FillOrKeep
<1>3. ASSUME NEW players \in SUBSET Players, NEW nodes \in SUBSET Matches, NEW closeRoot \in BOOLEAN,
             CloseTournament(players, nodes, closeRoot)
      PROVE  KeepsProposals /\ NoMatchNoProposal'
  <2>1. \A m \in nodes : envelope'[m].source = "None" /\ node'[m].status = "Absent"
    BY <1>3, CloseWrites DEF NoNode, EmptyEnvelope
  <2>2. \A m \in Matches \ nodes : SameProposal(m) /\ node'[m] = node[m]
    BY <1>3, CloseWrites DEF SameProposal
  <2>3. QED  BY <2>1, <2>2, FillOrKeep
<1>4. QED  BY <1>1, <1>2, <1>3, LifecycleKeepsMatches

LEMMA FinalizeBinding ==
  ASSUME TypeOK, NoMatchNoProposal, NEW m \in Matches, NEW winner, NEW trusted, NEW signer,
         FinalizeMatch(m, winner, trusted, signer)
  PROVE  KeepsProposals /\ NoMatchNoProposal'
<1>1. /\ envelope' = envelope
      /\ \A n \in Matches : node'[n].status = "Absent" => node[n].status = "Absent"
  BY FinalizeWrites
<1>2. QED  BY <1>1, EnvelopeUnchanged

LEMMA SettlementBinding ==
  ASSUME TypeOK, NoMatchNoProposal, NEW m \in Matches, SettlementStep(m)
  PROVE  KeepsProposals /\ NoMatchNoProposal'
<1>1. CASE \/ \E w \in Wallets : ReportResult(m, w)
           \/ \E p \in Players : ConfirmResult(m, p)
           \/ \E w \in Players : ResolveDispute(m, w)
           \/ ClaimResult(m) \/ ForceClaimDisputed(m) \/ SettleFinal(m)
  <2>1. \E winner, trusted, signer : FinalizeMatch(m, winner, trusted, signer)
    BY <1>1 DEF ReportResult, ConfirmResult, ResolveDispute, ClaimResult,
                ForceClaimDisputed, SettleFinal, Settle
  <2>2. QED  BY <2>1, FinalizeBinding
<1>2. CASE \/ \E p, w \in Players : ProposeResult(m, p, w)
           \/ \E relayer \in Signers, value \in FeedValues :
                 ProposeResultOracle(m, relayer, value)
  <2>1. /\ envelope[m].source = "None" /\ node[m].status = "Active" /\ node' = node
        /\ \A n \in Matches \ {m} : envelope'[n] = envelope[n]
    BY <1>2 DEF ProposeResult, ProposeResultOracle, Propose, NoProposalYet, TypeOK
  <2>2. \A n \in Matches \ {m} : SameProposal(n)
    BY <2>1 DEF SameProposal
  <2>3. QED  BY <2>1, <2>2, FillOrKeep
<1>3. CASE \E w \in Signers : DisputeResult(m, w)
  <2>1. node' = node /\ envelope' = [envelope EXCEPT ![m] = Contested(@)]
    BY <1>3 DEF DisputeResult
  <2>2. \A n \in Matches : SameProposal(n)
    BY <2>1 DEF Contested, SameProposal, TypeOK, Envelope
  <2>3. QED  BY <2>1, <2>2, FillOrKeep
<1>4. CASE CommitMatchLobby(m) \/ BindMatchFeed(m)
  BY <1>4, EnvelopeUnchanged DEF CommitMatchLobby, BindMatchFeed
<1>5. QED  BY <1>1, <1>2, <1>3, <1>4 DEF SettlementStep

LEMMA StepBinding ==
  TypeOK /\ NoMatchNoProposal /\ [Next]_vars => KeepsProposals /\ NoMatchNoProposal'
<1> SUFFICES ASSUME TypeOK, NoMatchNoProposal, [Next]_vars
             PROVE  KeepsProposals /\ NoMatchNoProposal'
  OBVIOUS
<1>1. CASE Tick
  <2>1. /\ node' = node
        /\ envelope' = [m \in Matches |->
               [envelope[m] EXCEPT !.claim_timer = CountDown(envelope[m].claim_timer)]]
    BY <1>1 DEF Tick
  <2>2. \A m \in Matches : SameProposal(m)
    BY <2>1 DEF SameProposal, TypeOK, Envelope
  <2>3. QED  BY <2>1, <2>2, FillOrKeep
<1>2. CASE LifecycleStep  BY <1>2, LifecycleBinding
<1>3. CASE \E m \in Matches : SettlementStep(m)  BY <1>3, SettlementBinding
<1>4. CASE UNCHANGED vars
  BY <1>4, EnvelopeUnchanged DEF vars, matches
<1>5. QED  BY <1>1, <1>2, <1>3, <1>4 DEF Next

LEMMA NoMatchNoProposalAlways == Spec => []NoMatchNoProposal
<1>1. Init => NoMatchNoProposal
  BY DEF Init, NoMatchNoProposal, EmptyEnvelope
<1>2. QED  BY <1>1, StepBinding, TypeCorrect, PTL DEF Spec

(***************************************************************************)
(* As long as its match account exists, a proposal is never replaced or    *)
(* withdrawn and a dispute never taken back, whatever instructions race    *)
(* for the envelope and however often the PDA is created.                  *)
(***************************************************************************)
THEOREM ProposalsBind == Spec => ProposalIsBinding
<1>1. TypeOK /\ NoMatchNoProposal /\ [Next]_vars => [KeepsProposals]_vars
  BY StepBinding
<1>2. QED
  BY <1>1, TypeCorrect, NoMatchNoProposalAlways, PTL
  DEF Spec, ProposalIsBinding, KeepsProposals

(***************************************************************************)
(* Who may end a match.  report_result reads no envelope, so the theorem   *)
(* needs that it never meets a proposal: an OrganizerOnly tournament has   *)
(* none.  A PDA created again could find one, hence MaxIncarnations <= 1.  *)
(***************************************************************************)
OrganizerOnlyHasNoProposals ==
    /\ incarnation = 0 => status = "None" /\ \A m \in Matches : node[m].status = "Absent"
    /\ settlement_mode = "OrganizerOnly" => \A m \in Matches : envelope[m].source = "None"

Authorized(m) ==
    Settles(m) /\ envelope[m].source # "None" =>
        IF envelope[m].disputed THEN DisputedEnds(m) ELSE UnchallengedEnds(m)

LEMMA FinalizeAuthority ==
  ASSUME TypeOK, NEW m \in Matches, NEW winner, NEW trusted, NEW signer,
         FinalizeMatch(m, winner, trusted, signer), Authorized(m)
  PROVE  \A n \in Matches : Authorized(n)
<1>1. \A n \in Matches \ {m} : ~Settles(n)
  BY FinalizeWrites DEF Settles
<1>2. QED  BY <1>1 DEF Authorized

LEMMA SettlementAuthorized ==
  ASSUME TypeOK, OrganizerOnlyHasNoProposals, NEW m \in Matches, SettlementStep(m)
  PROVE  \A n \in Matches : Authorized(n)
<1>1. CASE \E w \in Wallets : ReportResult(m, w)
  <2>1. settlement_mode = "OrganizerOnly" /\ \E winner : FinalizeMatch(m, winner, TRUE, Organizer)
    BY <1>1 DEF ReportResult
  <2>2. Authorized(m)
    BY <2>1 DEF OrganizerOnlyHasNoProposals, Authorized
  <2>3. QED  BY <2>1, <2>2, FinalizeAuthority
<1>2. ASSUME NEW p \in Players, ConfirmResult(m, p)
      PROVE  \A n \in Matches : Authorized(n)
  <2>1. FinalizeMatch(m, envelope[m].proposed_winner, FALSE, p)
    BY <1>2 DEF ConfirmResult, Settle
  <2>2. settledBy'[m] = p /\ node'[m].winner = envelope[m].proposed_winner
    BY <2>1, FinalizeWrites
  <2>3. Authorized(m)
    BY <1>2, <2>2 DEF Authorized, ConfirmResult, Unchallenged, UnchallengedEnds
  <2>4. QED  BY <2>1, <2>3, FinalizeAuthority
<1>3. ASSUME NEW w \in Players, ResolveDispute(m, w)
      PROVE  \A n \in Matches : Authorized(n)
  <2>1. FinalizeMatch(m, w, TRUE, Organizer)
    BY <1>3 DEF ResolveDispute, Settle
  <2>2. settledBy'[m] = Organizer
    BY <2>1, FinalizeWrites
  <2>3. Authorized(m)
    BY <1>3, <2>2 DEF Authorized, ResolveDispute, DisputedEnds
  <2>4. QED  BY <2>1, <2>3, FinalizeAuthority
<1>4. CASE ClaimResult(m) \/ SettleFinal(m)
  <2>1. \E trusted, signer :
          FinalizeMatch(m, envelope[m].proposed_winner, trusted, signer)
    BY <1>4 DEF ClaimResult, SettleFinal, Settle
  <2>2. node'[m].winner = envelope[m].proposed_winner
    BY <2>1, FinalizeWrites
  <2>3. Authorized(m)
    BY <1>4, <2>2
    DEF Authorized, ClaimResult, SettleFinal, Unchallenged, WindowElapsed, UnchallengedEnds
  <2>4. QED  BY <2>1, <2>3, FinalizeAuthority
<1>5. CASE ForceClaimDisputed(m)
  <2>1. FinalizeMatch(m, envelope[m].proposed_winner, FALSE, Relayer)
    BY <1>5 DEF ForceClaimDisputed, Settle
  <2>2. node'[m].winner = envelope[m].proposed_winner
    BY <2>1, FinalizeWrites
  <2>3. Authorized(m)
    BY <1>5, <2>2 DEF Authorized, ForceClaimDisputed, WindowElapsed, DisputedEnds
  <2>4. QED  BY <2>1, <2>3, FinalizeAuthority
<1>6. CASE \/ \E p, w \in Players : ProposeResult(m, p, w)
           \/ \E w \in Signers : DisputeResult(m, w)
           \/ CommitMatchLobby(m) \/ BindMatchFeed(m)
           \/ \E relayer \in Signers, value \in FeedValues :
                 ProposeResultOracle(m, relayer, value)
  <2>1. node' = node
    BY <1>6 DEF ProposeResult, ProposeResultOracle, Propose, DisputeResult,
                CommitMatchLobby, BindMatchFeed
  <2>2. QED  BY <2>1 DEF Authorized, Settles
<1>7. QED  BY <1>1, <1>2, <1>3, <1>4, <1>5, <1>6 DEF SettlementStep

LEMMA LifecycleAuthorized ==
  ASSUME TypeOK, LifecycleStep
  PROVE  \A n \in Matches : Authorized(n)
<1>1. CASE MatchesKept
  BY <1>1 DEF MatchesKept, Authorized, Settles
<1>2. ASSUME NEW ids \in SUBSET Matches, NEW size \in PowersOfTwo, NEW seed \in Seeds,
             StartTournament(ids, size, seed)
      PROVE  \A n \in Matches : Authorized(n)
  BY <1>2, StartWrites DEF Authorized, Settles
<1>3. ASSUME NEW players \in SUBSET Players, NEW nodes \in SUBSET Matches, NEW closeRoot \in BOOLEAN,
             CloseTournament(players, nodes, closeRoot)
      PROVE  \A n \in Matches : Authorized(n)
  BY <1>3, CloseWrites DEF Authorized, Settles, NoNode
<1>4. QED  BY <1>1, <1>2, <1>3, LifecycleKeepsMatches

\* OrganizerOnlyHasNoProposals is inductive.
LEMMA LifecycleNoProposals ==
  ASSUME MaxIncarnations <= 1, TypeOK, NoMatchNoProposal, OrganizerOnlyHasNoProposals,
         LifecycleStep
  PROVE  OrganizerOnlyHasNoProposals'
<1>1. CASE \E mode \in Modes, preset \in Presets : CreateTournament(mode, preset)
  <2>1. incarnation = 0 /\ incarnation' = 1 /\ envelope' = envelope
    BY <1>1, ParametersAssumption DEF CreateTournament, TypeOK, matches
  <2>2. QED  BY <2>1 DEF OrganizerOnlyHasNoProposals, NoMatchNoProposal
<1>2. CASE \/ \E p \in Players : JoinTournament(p)
           \/ RequestSeed
           \/ \E seed \in Seeds : RevealSeed(seed)
           \/ PartialCancelTournament
           \/ \E chunk \in SUBSET Players, withDeposit \in BOOLEAN :
                 \/ \E caller \in {Organizer, Relayer} :
                       CancelTournament(caller, chunk, withDeposit)
                 \/ PartialRefundChunk(chunk, withDeposit)
  <2>1. /\ UNCHANGED <<settlement_mode, node, envelope, incarnation>>
        /\ status = "None" => status' = "None"
    BY <1>2 DEF JoinTournament, RequestSeed, RevealSeed, PartialCancelTournament,
                CancelTournament, PartialRefundChunk, tournament, terms, matches
  <2>2. QED  BY <2>1 DEF OrganizerOnlyHasNoProposals
<1>3. ASSUME NEW ids \in SUBSET Matches, NEW size \in PowersOfTwo, NEW seed \in Seeds,
             StartTournament(ids, size, seed)
      PROVE  OrganizerOnlyHasNoProposals'
  <2>1. UNCHANGED <<settlement_mode, incarnation>> /\ status # "None"
    BY <1>3, StartWrites DEF StartTournament, terms
  <2>2. \A m \in Matches : envelope'[m] \in {envelope[m], EmptyEnvelope}
    BY <1>3, StartWrites
  <2>3. QED  BY <2>1, <2>2 DEF OrganizerOnlyHasNoProposals, EmptyEnvelope
<1>4. ASSUME NEW players \in SUBSET Players, NEW nodes \in SUBSET Matches, NEW closeRoot \in BOOLEAN,
             CloseTournament(players, nodes, closeRoot)
      PROVE  OrganizerOnlyHasNoProposals'
  <2>1. UNCHANGED <<settlement_mode, incarnation>> /\ status # "None"
    BY <1>4 DEF CloseTournament, TerminalStatus, terms
  <2>2. \A m \in Matches : envelope'[m] \in {envelope[m], EmptyEnvelope}
    BY <1>4, CloseWrites
  <2>3. QED  BY <2>1, <2>2 DEF OrganizerOnlyHasNoProposals, EmptyEnvelope
<1>5. QED  BY <1>1, <1>2, <1>3, <1>4 DEF LifecycleStep

LEMMA SettlementNoProposals ==
  ASSUME TypeOK, OrganizerOnlyHasNoProposals, NEW m \in Matches, SettlementStep(m)
  PROVE  OrganizerOnlyHasNoProposals'
<1>1. CASE \/ \E w \in Wallets : ReportResult(m, w)
           \/ \E p \in Players : ConfirmResult(m, p)
           \/ \E w \in Players : ResolveDispute(m, w)
           \/ ClaimResult(m) \/ ForceClaimDisputed(m) \/ SettleFinal(m)
  <2>1. \E winner, trusted, signer : FinalizeMatch(m, winner, trusted, signer)
    BY <1>1 DEF ReportResult, ConfirmResult, ResolveDispute, ClaimResult,
                ForceClaimDisputed, SettleFinal, Settle
  <2>2. UNCHANGED <<settlement_mode, envelope, incarnation>> /\ status = "Active"
    BY <2>1 DEF FinalizeMatch, Playable, terms
  <2>3. QED  BY <2>2 DEF OrganizerOnlyHasNoProposals
<1>2. CASE \/ \E p, w \in Players : ProposeResult(m, p, w)
           \/ \E relayer \in Signers, value \in FeedValues :
                 ProposeResultOracle(m, relayer, value)
  <2>1. /\ settlement_mode # "OrganizerOnly" /\ status # "None"
        /\ UNCHANGED <<settlement_mode, incarnation>>
    BY <1>2 DEF ProposeResult, ProposeResultOracle, Propose, tournament, terms
  <2>2. QED  BY <2>1 DEF OrganizerOnlyHasNoProposals
<1>3. CASE \E w \in Signers : DisputeResult(m, w)
  <2>1. /\ envelope[m].source # "None" /\ status # "None"
        /\ UNCHANGED <<settlement_mode, incarnation>>
    BY <1>3 DEF DisputeResult, tournament, terms
  <2>2. QED  BY <2>1 DEF OrganizerOnlyHasNoProposals
<1>4. CASE CommitMatchLobby(m) \/ BindMatchFeed(m)
  <2>1. UNCHANGED <<status, settlement_mode, node, envelope, incarnation>>
    BY <1>4 DEF CommitMatchLobby, BindMatchFeed, tournament, terms
  <2>2. QED  BY <2>1 DEF OrganizerOnlyHasNoProposals
<1>5. QED  BY <1>1, <1>2, <1>3, <1>4 DEF SettlementStep

LEMMA StepAuthority ==
  ASSUME MaxIncarnations <= 1
  PROVE  TypeOK /\ NoMatchNoProposal /\ OrganizerOnlyHasNoProposals /\ [Next]_vars
           => OrganizerOnlyHasNoProposals' /\ [\A m \in Matches : Authorized(m)]_vars
<1> SUFFICES ASSUME TypeOK, NoMatchNoProposal, OrganizerOnlyHasNoProposals, [Next]_vars
             PROVE  OrganizerOnlyHasNoProposals' /\ [\A m \in Matches : Authorized(m)]_vars
  OBVIOUS
<1>1. CASE Tick
  <2>1. /\ UNCHANGED <<status, settlement_mode, node, incarnation>>
        /\ envelope' = [m \in Matches |->
               [envelope[m] EXCEPT !.claim_timer = CountDown(envelope[m].claim_timer)]]
    BY <1>1 DEF Tick, terms
  <2>2. \A m \in Matches : envelope'[m].source = envelope[m].source
    BY <2>1 DEF TypeOK, Envelope
  <2>3. QED  BY <2>1, <2>2 DEF OrganizerOnlyHasNoProposals, Authorized, Settles
<1>2. CASE LifecycleStep  BY <1>2, LifecycleNoProposals, LifecycleAuthorized
<1>3. CASE \E m \in Matches : SettlementStep(m)
  BY <1>3, SettlementNoProposals, SettlementAuthorized
<1>4. CASE UNCHANGED vars
  BY <1>4 DEF vars, tournament, terms, matches, OrganizerOnlyHasNoProposals
<1>5. QED  BY <1>1, <1>2, <1>3, <1>4 DEF Next

(***************************************************************************)
(* Whatever instruction ends a match with a proposal: an unchallenged one  *)
(* ends for its own winner, after the window or with the consent of a      *)
(* player that did not propose it, and a disputed one ends by the          *)
(* organizer, or for the proposed winner after the second window.          *)
(***************************************************************************)
THEOREM OnlyTheEntitledSettle ==
  ASSUME MaxIncarnations <= 1
  PROVE  Spec => SettlementAuthority
<1>1. Init => OrganizerOnlyHasNoProposals
  BY DEF Init, OrganizerOnlyHasNoProposals, NoNode, EmptyEnvelope
<1>2. QED
  BY <1>1, StepAuthority, TypeCorrect, NoMatchNoProposalAlways, PTL
  DEF Spec, SettlementAuthority, Authorized

(***************************************************************************)
(* The draw binds: a bracket is only ever drawn with a seed that cannot    *)
(* be replaced any more.                                                   *)
(***************************************************************************)
DrawnMeansSealed ==
    /\ seed_revealed => vrf_bound
    /\ status \in {"None", "Registration"} => bracket_size = 0
    /\ bracket_size # 0 /\ vrf_bound => seed_revealed

KeepsDraw ==
    status' # "None" =>
        /\ seed_revealed => seed_hash' = seed_hash
        /\ bracket_size # 0 => SameDraw

LEMMA LifecycleDraw ==
  ASSUME TypeOK, DrawnMeansSealed, LifecycleStep
  PROVE  KeepsDraw /\ DrawnMeansSealed'
<1>1. CASE \E mode \in Modes, preset \in Presets : CreateTournament(mode, preset)
  <2>1. UNCHANGED <<counters, seeding>> /\ status = "None"
    BY <1>1 DEF CreateTournament
  <2>2. QED  BY <2>1 DEF KeepsDraw, SameDraw, DrawnMeansSealed, counters, seeding
<1>2. CASE \E p \in Players : JoinTournament(p)
  <2>1. UNCHANGED <<bracket_size, seeding>> /\ status = "Registration" /\ status' = "Registration"
    BY <1>2 DEF JoinTournament
  <2>2. QED  BY <2>1 DEF KeepsDraw, SameDraw, DrawnMeansSealed, seeding
<1>3. CASE RequestSeed \/ \E seed \in Seeds : RevealSeed(seed)
  <2>1. /\ ~seed_revealed /\ vrf_bound'
        /\ UNCHANGED <<status, participant_count, bracket_size>>
        /\ \/ status = "Registration" /\ seed_revealed' = seed_revealed
           \/ vrf_bound /\ seed_revealed'
    BY <1>3 DEF RequestSeed, RevealSeed, counters
  <2>2. bracket_size = 0
    BY <2>1 DEF DrawnMeansSealed
  <2>3. QED  BY <2>1, <2>2 DEF KeepsDraw, DrawnMeansSealed
<1>4. ASSUME NEW ids \in SUBSET Matches, NEW size \in PowersOfTwo, NEW seed \in Seeds,
             StartTournament(ids, size, seed)
      PROVE  KeepsDraw /\ DrawnMeansSealed'
  <2>1. /\ bracket_size' = size /\ seed_hash' = seed
        /\ UNCHANGED <<participant_count, vrf_bound, seed_revealed>>
        /\ status' \in {"PendingBracketInit", "Active"}
    BY <1>4 DEF StartTournament
  <2>2. CASE /\ status = "Registration"
             /\ \/ vrf_bound /\ seed_revealed /\ seed = seed_hash
                \/ ~vrf_bound /\ settlement_mode = "OrganizerOnly"
    BY <2>1, <2>2 DEF KeepsDraw, DrawnMeansSealed
  <2>3. CASE status = "PendingBracketInit" /\ size = bracket_size /\ seed = seed_hash
    BY <2>1, <2>3 DEF KeepsDraw, SameDraw, DrawnMeansSealed
  <2>4. QED  BY <1>4, <2>2, <2>3 DEF StartTournament, DrawBracket
<1>5. CASE \/ PartialCancelTournament
           \/ \E chunk \in SUBSET Players, withDeposit \in BOOLEAN :
                 \/ \E caller \in {Organizer, Relayer} :
                       CancelTournament(caller, chunk, withDeposit)
                 \/ PartialRefundChunk(chunk, withDeposit)
  <2>1. UNCHANGED <<counters, seeding>> /\ status' \in {"Cancelled", "PartialCancelled"}
    BY <1>5 DEF PartialCancelTournament, CancelTournament, PartialRefundChunk, tournament
  <2>2. QED  BY <2>1 DEF KeepsDraw, SameDraw, DrawnMeansSealed, counters, seeding
<1>6. ASSUME NEW players \in SUBSET Players, NEW nodes \in SUBSET Matches, NEW closeRoot \in BOOLEAN,
             CloseTournament(players, nodes, closeRoot)
      PROVE  KeepsDraw /\ DrawnMeansSealed'
  <2>1. CASE NoTournament
    BY <2>1 DEF NoTournament, KeepsDraw, DrawnMeansSealed
  <2>2. CASE UNCHANGED <<status, counters, seeding>>
    BY <2>2 DEF KeepsDraw, SameDraw, DrawnMeansSealed, counters, seeding
  <2>3. QED  BY <1>6, <2>1, <2>2 DEF CloseTournament
<1>7. QED  BY <1>1, <1>2, <1>3, <1>4, <1>5, <1>6 DEF LifecycleStep

\* No settlement touches the draw.
LEMMA SettlementDraw ==
  ASSUME TypeOK, NEW m \in Matches, SettlementStep(m)
  PROVE  /\ UNCHANGED <<participant_count, bracket_size, seeding>>
         /\ \/ status' = status
            \/ status = "Active" /\ status' = "Completed"
<1>1. CASE \/ \E w \in Wallets : ReportResult(m, w)
           \/ \E p \in Players : ConfirmResult(m, p)
           \/ \E w \in Players : ResolveDispute(m, w)
           \/ ClaimResult(m) \/ ForceClaimDisputed(m) \/ SettleFinal(m)
  <2>1. \E winner, trusted, signer : FinalizeMatch(m, winner, trusted, signer)
    BY <1>1 DEF ReportResult, ConfirmResult, ResolveDispute, ClaimResult,
                ForceClaimDisputed, SettleFinal, Settle
  <2>2. QED
    BY <2>1, FinalizeWrites DEF FinalizeMatch
<1>2. CASE \/ \E p, w \in Players : ProposeResult(m, p, w)
           \/ \E w \in Signers : DisputeResult(m, w)
           \/ CommitMatchLobby(m) \/ BindMatchFeed(m)
           \/ \E relayer \in Signers, value \in FeedValues :
                 ProposeResultOracle(m, relayer, value)
  BY <1>2 DEF ProposeResult, ProposeResultOracle, Propose, DisputeResult,
              CommitMatchLobby, BindMatchFeed, tournament, counters
<1>3. QED  BY <1>1, <1>2 DEF SettlementStep

LEMMA StepDraw ==
  TypeOK /\ DrawnMeansSealed /\ [Next]_vars => DrawnMeansSealed' /\ KeepsDraw
<1> SUFFICES ASSUME TypeOK, DrawnMeansSealed, [Next]_vars
             PROVE  DrawnMeansSealed' /\ KeepsDraw
  OBVIOUS
<1>1. CASE Tick \/ UNCHANGED vars
  <2>1. UNCHANGED <<status, counters, seeding>>
    BY <1>1 DEF Tick, vars, tournament
  <2>2. QED  BY <2>1 DEF KeepsDraw, SameDraw, DrawnMeansSealed, counters, seeding
<1>2. CASE LifecycleStep  BY <1>2, LifecycleDraw
<1>3. ASSUME NEW m \in Matches, SettlementStep(m)
      PROVE  DrawnMeansSealed' /\ KeepsDraw
  BY <1>3, SettlementDraw DEF KeepsDraw, SameDraw, DrawnMeansSealed, seeding
<1>4. QED  BY <1>1, <1>2, <1>3 DEF Next

(***************************************************************************)
(* A revealed seed is never replaced, and from the first chunk of          *)
(* start_tournament on neither the seed nor the size of the field and of   *)
(* the bracket changes while the tournament exists.                        *)
(***************************************************************************)
THEOREM DrawsBind == Spec => DrawIsBinding
<1>1. Init => DrawnMeansSealed
  BY Zenon DEF Init, DrawnMeansSealed
<1>2. TypeOK /\ DrawnMeansSealed /\ [Next]_vars => DrawnMeansSealed' /\ [KeepsDraw]_vars
  BY StepDraw
<1>3. QED
  BY <1>1, <1>2, TypeCorrect, PTL DEF Spec, DrawIsBinding, KeepsDraw

(***************************************************************************)
(* The end of a tournament is final.                                       *)
(***************************************************************************)
\* A refund only moves money out of the vault.
LEMMA RefundPaysOut ==
  ASSUME TypeOK, NEW chunk \in SUBSET Players, NEW withDeposit \in BOOLEAN,
         RefundChunk(chunk, withDeposit)
  PROVE  vault' <= vault /\ \A w \in Wallets : wallet'[w] >= wallet[w]
<1> DEFINE unpaid == Unpaid(chunk)
           deposit == DepositDue(withDeposit)
           fees == EntryFee * Cardinality(unpaid)
<1>1. /\ vault' = vault - (deposit + fees)
      /\ wallet' = [w \in Wallets |-> wallet[w] + (IF w = Organizer THEN deposit ELSE 0)
                                                + (IF w \in unpaid THEN EntryFee ELSE 0)]
  BY Zenon DEF RefundChunk
<1>2. deposit \in Nat
  BY ParametersAssumption DEF DepositDue
<1>3. fees \in Nat
  <2>1. unpaid \in SUBSET Players  BY DEF Unpaid
  <2>2. IsFiniteSet(unpaid)  BY <2>1, PartiesAssumption, FS_Subset
  <2>3. Cardinality(unpaid) \in Nat  BY <2>2, FS_CardinalityType
  <2>4. QED  BY <2>3, ParametersAssumption, NaturalProduct
<1> HIDE DEF unpaid, deposit, fees
<1>4. QED  BY <1>1, <1>2, <1>3, ParametersAssumption DEF TypeOK

\* A step that changes no match, no status and no balance.
LEMMA NothingMoves ==
  ASSUME TypeOK, UNCHANGED <<status, champion, vault, wallet, node>>
  PROVE  Frozen
BY DEF Frozen, KeptOrClosed, TypeOK

LEMMA LifecycleFrozen ==
  ASSUME TypeOK, status \in TerminalStatus, LifecycleStep
  PROVE  Frozen
<1>1. CASE RequestSeed \/ \E seed \in Seeds : RevealSeed(seed)
  <2>1. UNCHANGED <<status, champion, vault, wallet, node>>
    BY <1>1 DEF RequestSeed, RevealSeed, money, matches
  <2>2. QED  BY <2>1, NothingMoves
<1>2. CASE \/ \E mode \in Modes, preset \in Presets : CreateTournament(mode, preset)
           \/ \E p \in Players : JoinTournament(p)
           \/ \E ids \in SUBSET Matches, size \in PowersOfTwo, seed \in Seeds :
                 StartTournament(ids, size, seed)
           \/ PartialCancelTournament
  BY <1>2 DEF TerminalStatus, CreateTournament, JoinTournament, StartTournament, DrawBracket,
              PartialCancelTournament
<1>3. ASSUME NEW chunk \in SUBSET Players, NEW withDeposit \in BOOLEAN,
             \/ \E caller \in {Organizer, Relayer} : CancelTournament(caller, chunk, withDeposit)
             \/ PartialRefundChunk(chunk, withDeposit)
      PROVE  Frozen
  <2>1. RefundChunk(chunk, withDeposit) /\ UNCHANGED <<status, champion, node>>
    BY <1>3 DEF CancelTournament, PartialRefundChunk, TerminalStatus, tournament, matches
  <2>2. QED  BY <2>1, RefundPaysOut DEF Frozen, KeptOrClosed
<1>4. ASSUME NEW players \in SUBSET Players, NEW nodes \in SUBSET Matches, NEW closeRoot \in BOOLEAN,
             CloseTournament(players, nodes, closeRoot)
      PROVE  Frozen
  <2>1. UNCHANGED <<vault, wallet>>
        /\ \/ status' = "None" /\ champion' = NoOne
           \/ UNCHANGED <<status, champion>>
    BY <1>4 DEF CloseTournament, NoTournament, money
  <2>2. \A m \in Matches : KeptOrClosed(m)
    BY <1>4, CloseWrites DEF KeptOrClosed
  <2>3. QED  BY <2>1, <2>2 DEF Frozen, TypeOK
<1>5. QED  BY <1>1, <1>2, <1>3, <1>4 DEF LifecycleStep

LEMMA SettlementFrozen ==
  ASSUME TypeOK, status \in TerminalStatus, NEW m \in Matches, SettlementStep(m)
  PROVE  Frozen
<1>1. \A winner, trusted, signer : ~FinalizeMatch(m, winner, trusted, signer)
  BY DEF FinalizeMatch, Playable, TerminalStatus
<1>2. CASE \/ \E w \in Wallets : ReportResult(m, w)
           \/ \E p \in Players : ConfirmResult(m, p)
           \/ \E w \in Players : ResolveDispute(m, w)
           \/ ClaimResult(m) \/ ForceClaimDisputed(m) \/ SettleFinal(m)
  BY <1>1, <1>2 DEF ReportResult, ConfirmResult, ResolveDispute, ClaimResult,
                    ForceClaimDisputed, SettleFinal, Settle
<1>3. CASE \/ \E p, w \in Players : ProposeResult(m, p, w)
           \/ \E w \in Signers : DisputeResult(m, w)
           \/ CommitMatchLobby(m) \/ BindMatchFeed(m)
           \/ \E relayer \in Signers, value \in FeedValues :
                 ProposeResultOracle(m, relayer, value)
  <2>1. UNCHANGED <<status, champion, vault, wallet, node>>
    BY <1>3 DEF ProposeResult, ProposeResultOracle, Propose, DisputeResult,
                CommitMatchLobby, BindMatchFeed, tournament, money
  <2>2. QED  BY <2>1, NothingMoves
<1>4. QED  BY <1>2, <1>3 DEF SettlementStep

(***************************************************************************)
(* Once a tournament is completed or cancelled, no instruction decides a   *)
(* match, changes the champion, brings the tournament back or moves money  *)
(* into the vault, until its accounts are closed.                          *)
(***************************************************************************)
THEOREM TheEndIsFinal == Spec => TerminalIsFrozen
<1>1. TypeOK /\ [Next]_vars => [(status \in TerminalStatus) => Frozen]_vars
  <2> SUFFICES ASSUME TypeOK, status \in TerminalStatus, Next  PROVE Frozen
    OBVIOUS
  <2>1. CASE Tick
    <3>1. UNCHANGED <<status, champion, vault, wallet, node>>
      BY <2>1 DEF Tick, money
    <3>2. QED  BY <3>1, NothingMoves
  <2>2. CASE LifecycleStep  BY <2>2, LifecycleFrozen
  <2>3. CASE \E m \in Matches : SettlementStep(m)  BY <2>3, SettlementFrozen
  <2>4. QED  BY <2>1, <2>2, <2>3 DEF Next
<1>2. QED
  BY <1>1, TypeCorrect, PTL DEF Spec, TerminalIsFrozen
===============================================================================
