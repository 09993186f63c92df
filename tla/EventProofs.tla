------------------------------ MODULE EventProofs ------------------------------
(***************************************************************************)
(* Theorems about Events, for every instance: an indexer that replays the  *)
(* log holds the balances and the tournament the accounts hold, and can    *)
(* tell from the log why each result stands.  Every instruction with its   *)
(* events is a step of BracketChain (EventSpecImplements), so what is      *)
(* proved of BracketChain holds here, and what is left to show is that     *)
(* each event says what its instruction did.  The ledger needs no          *)
(* hypothesis; the rest is for brackets of one lane, drawn as validated,   *)
(* at a PDA that is created once: without these a winner moving up may     *)
(* land on a decided match, whose result the log then announces twice.     *)
(***************************************************************************)
EXTENDS Events, AdvancementProofs

(***************************************************************************)
(* An instruction with its events is the instruction.                      *)
(***************************************************************************)
LEMMA EventsAreSteps ==
  [EventNext]_eventVars => [Next]_vars
<1> SUFFICES ASSUME [EventNext]_eventVars  PROVE [Next]_vars
  OBVIOUS
<1>1. CASE Tick \/ UNCHANGED eventVars
  BY <1>1 DEF eventVars, Next
<1>2. CASE LifecycleEvents
  <2>1. CASE \E players \in SUBSET Players, nodes \in SUBSET Matches, closeRoot \in BOOLEAN :
               CloseTournament(players, nodes, closeRoot)
    BY <2>1, CloseIsAStep DEF Next
  <2>2. CASE ~ \E players \in SUBSET Players, nodes \in SUBSET Matches, closeRoot \in BOOLEAN :
               CloseTournament(players, nodes, closeRoot)
    <3>1. LifecycleStep  BY <1>2, <2>2, Zenon DEF LifecycleEvents, LifecycleStep
    <3>2. QED  BY <3>1 DEF Next
  <2>3. QED  BY <2>1, <2>2
<1>3. CASE \E m \in Matches : SettlementEvents(m)
  <2>1. \E m \in Matches : SettlementStep(m)
    BY <1>3, Zenon DEF SettlementEvents, SettlementStep
  <2>2. QED  BY <2>1 DEF Next
<1>4. QED  BY <1>1, <1>2, <1>3 DEF EventNext

LEMMA EventSpecImplements == EventSpec => Spec
BY EventsAreSteps, PTL DEF EventSpec, EventInit, Spec

(***************************************************************************)
(* The ledger                                                              *)
(***************************************************************************)
\* The vault is never overdrawn: every refund is checked against it, and the prizes
\* are its parts.
VaultIsNatural == vault \in Nat

\* The amounts of some payouts, summed.
LEMMA AmountsSummed ==
  ASSUME NEW S, IsFiniteSet(S)
  PROVE  MapThenSumSet(Amount, S) = Total([x \in S |-> Amount(x)], S)
<1> DEFINE Again(g) == g = [s \in SUBSET S |->
                              IF s = {} THEN 0 ELSE Amount(AnyOf(s)) + g[s \ {AnyOf(s)}]]
           iter == CHOOSE g : Again(g)
<1>1. MapThenSumSet(Amount, S) = iter[S]
  BY Zenon DEF MapThenSumSet, MapThenFoldSet, AnyOf
<1>2. PICK f : f = [x \in S |-> Amount(x)]  OBVIOUS
<1>3. \A s \in SUBSET S : s # {} => f[AnyOf(s)] = Amount(AnyOf(s))
  BY <1>2, AnyOfIsOne
<1>4. \A g : Again(g) <=> IsSum(g, f, S)
  BY <1>3 DEF IsSum
<1>5. \E g : Again(g)  BY <1>4, TotalIsSum
<1>6. Again(iter)  BY <1>5
<1>7. IsSum(iter, f, S)  BY <1>4, <1>6
<1> HIDE DEF iter
<1>8. Total(f, S) = iter[S]  BY <1>7, TotalIsSum
<1>9. QED  BY <1>1, <1>2, <1>8

LEMMA SlotsFinite == IsFiniteSet(Slots)
<1>1. 1 \in Int /\ MAX_PAYOUT_SLOTS \in Int  BY DEF MAX_PAYOUT_SLOTS
<1>2. QED  BY <1>1, FS_Interval DEF Slots

\* A sum of one.
LEMMA OneShare ==
  ASSUME NEW j \in Slots, NEW share \in Int
  PROVE  SlotSum([i \in Slots |-> IF i = j THEN share ELSE 0]) = share
<1>1. Slots = {1, 2, 3, 4, 5, 6, 7, 8}  BY DEF Slots, MAX_PAYOUT_SLOTS
<1>2. PICK f : f = [i \in Slots |-> IF i = j THEN share ELSE 0]  OBVIOUS
<1>3. \A i \in Slots : f[i] = IF i = j THEN share ELSE 0  BY <1>2
<1>4. SlotSum(f) = share  BY <1>1, <1>3 DEF SlotSum
<1>5. QED  BY <1>2, <1>4

\* The rows of placement_payouts with a recipient add up to what distribute_prizes
\* transfers to it: a prize of nothing has no row, and needs none.
LEMMA RowsAddUp ==
  ASSUME NEW placements, NEW amounts \in [Slots -> Nat], NEW w, NEW payouts,
         payouts = {[place |-> i, recipient |-> placements[i], amount |-> amounts[i]] :
                       i \in {slot \in Slots : amounts[slot] > 0}}
  PROVE  MapThenSumSet(Amount, {payout \in payouts : payout.recipient = w})
           = Received(w, placements, amounts)
<1>1. PICK row : row = [i \in Slots |->
                          [place |-> i, recipient |-> placements[i], amount |-> amounts[i]]]
  OBVIOUS
<1>2. \A i \in Slots : /\ row[i].place = i /\ row[i].recipient = placements[i]
                       /\ row[i].amount = amounts[i]
  BY <1>1
<1>3. PICK share : share = [i \in Slots |-> IF placements[i] = w THEN amounts[i] ELSE 0]
  OBVIOUS
<1>4. share \in [Slots -> Int] /\ \A i \in Slots : share[i] \in Int
  BY <1>3
<1>5. PICK rows : rows = {payout \in payouts : payout.recipient = w}  OBVIOUS
<1>6. \A i \in Slots : row[i] \in rows <=> (amounts[i] > 0 /\ placements[i] = w)
  <2>1. \A i \in Slots : row[i] \in payouts <=> amounts[i] > 0
    BY <1>1, <1>2
  <2>2. QED  BY <1>2, <1>5, <2>1
<1>7. \A x \in rows : \E i \in Slots : x = row[i] /\ amounts[i] > 0 /\ placements[i] = w
  <2>1. \A x \in payouts : \E i \in Slots : x = row[i]  BY <1>1
  <2>2. QED  BY <1>5, <1>6, <2>1
<1>8. IsFiniteSet(rows)
  <2>1. row \in Surjection(Slots, {row[i] : i \in Slots})  BY <1>1 DEF Surjection
  <2>2. IsFiniteSet({row[i] : i \in Slots})  BY <2>1, SlotsFinite, FS_Surjection
  <2>3. rows \subseteq {row[i] : i \in Slots}  BY <1>7
  <2>4. QED  BY <2>2, <2>3, FS_Subset
<1>9. \A i \in Slots : row[i] \in rows \/ share[i] = 0  BY <1>3, <1>6
<1>10. Total([x \in rows |-> Received(x, row, share)], rows) = SlotSum(share)
  BY <1>4, <1>8, <1>9, SlotTotals
<1>11. ASSUME NEW x \in rows
       PROVE  Received(x, row, share) = Amount(x)
  <2>1. PICK j \in Slots : x = row[j] /\ placements[j] = w  BY <1>7
  <2>2. \A i \in Slots : row[i] = x <=> i = j  BY <1>2, <2>1
  <2>3. Received(x, row, share) = SlotSum([i \in Slots |-> IF i = j THEN share[j] ELSE 0])
    <3>1. [i \in Slots |-> IF row[i] = x THEN share[i] ELSE 0]
            = [i \in Slots |-> IF i = j THEN share[j] ELSE 0]
      BY <2>2
    <3>2. QED  BY <3>1 DEF Received
  <2>4. Received(x, row, share) = share[j]  BY <1>4, <2>3, OneShare
  <2>5. QED  BY <1>2, <1>3, <2>1, <2>4 DEF Amount
<1>12. [x \in rows |-> Received(x, row, share)] = [x \in rows |-> Amount(x)]
  BY <1>11
<1>13. MapThenSumSet(Amount, rows) = SlotSum(share)
  BY <1>8, <1>10, <1>12, AmountsSummed
<1>14. QED  BY <1>3, <1>5, <1>13 DEF Received

\* What distribute_prizes splits is never negative.
LEMMA AmountsAreNatural ==
  ASSUME TypeOK, VaultIsNatural, NEW placements, DistributePrizes(placements),
         NEW amounts, amounts = split_placements(GrossPool - protocol_fee(GrossPool),
                                                 basis_points(payout_preset),
                                                 placement_count(payout_preset))
  PROVE  amounts \in [Slots -> Nat]
<1>1. PICK bps, count : bps = basis_points(payout_preset) /\ count = placement_count(payout_preset)
  OBVIOUS
<1>2. bps \in [Slots -> Nat]
  BY <1>1, ParametersAssumption DEF TypeOK, PayoutPreset, basis_points
<1>3. count \in Int
  <2>1. IsFiniteSet(Slots)  BY SlotsFinite
  <2>2. {i \in Slots : bps[i] > 0} \subseteq Slots  OBVIOUS
  <2>3. Cardinality({i \in Slots : bps[i] > 0}) \in Nat
    BY <2>1, <2>2, FS_Subset, FS_CardinalityType
  <2>4. QED  BY <1>1, <2>3 DEF placement_count
<1>4. PICK net \in Nat : net = GrossPool - protocol_fee(GrossPool)
  <2>1. PICK pool \in Nat : pool = vault  BY DEF VaultIsNatural
  <2>2. pool - (pool * PROTOCOL_FEE_BPS) \div BPS_DENOMINATOR \in Nat
    BY DEF PROTOCOL_FEE_BPS, BPS_DENOMINATOR
  <2>3. QED  BY <2>1, <2>2 DEF GrossPool, protocol_fee
<1>5. \A i \in Slots : FlooredShare(net, bps, count, i) \in Nat
  <2> SUFFICES ASSUME NEW i \in Slots  PROVE FlooredShare(net, bps, count, i) \in Nat
    OBVIOUS
  <2>1. net * bps[i] \in Nat  BY <1>2, NaturalProduct
  <2>2. (net * bps[i]) \div BPS_DENOMINATOR \in Nat  BY <2>1, FloorBounds
  <2>3. QED  BY <2>2 DEF FlooredShare
<1>6. LowerSum(net, bps, count) \in Int /\ LowerSum(net, bps, count) <= net
  <2>1. bps \in [Slots -> Int] /\ net \in Int  BY <1>2
  <2>2. QED  BY <1>1, <1>3, <1>4, <2>1, SplitAddsUp DEF DistributePrizes
<1>7. amounts = split_placements(net, bps, count)  BY <1>1, <1>4
<1>8. \A i \in Slots : amounts[i] \in Nat
  BY <1>5, <1>6, <1>7 DEF split_placements
<1>9. QED  BY <1>7, <1>8 DEF split_placements

(***************************************************************************)
(* The view                                                                *)
(***************************************************************************)
Shown == [source : ProposalSource, proposer : Wallets \cup {NoOne},
          proposed_winner : Wallets \cup {NoOne}]

Closing == {"None", "ResultClaimed", "ForceClaimed", "DisputeResolved", "FinalSettled"}

\* What an indexer's view is made of.
View == [status : Status, champion : Wallets \cup {NoOne},
         entrants : SUBSET (Players \X Nat),
         draw : (PowersOfTwo \cup {0}) \X Nat \X (Seeds \cup {NoSeed}),
         winner : [Matches -> Wallets \cup {NoOne}],
         proposal : [Matches -> Shown], closing : [Matches -> Closing],
         disputed : SUBSET Matches, committed : SUBSET Matches, bound : SUBSET Matches,
         balance : [Wallets -> Int]]

LEMMA BlankTyped == BlankView \in View
BY DEF BlankView, View, Status, NoProposal, Shown, Closing, ProposalSource

\* The events that state an amount.
LEMMA PaymentsTyped ==
  ASSUME NEW v \in View
  PROVE  /\ TournamentCreated(v) \in View
         /\ TournamentCreated(v).balance = [v.balance EXCEPT ![Organizer] = @ - OrganizerDeposit]
         /\ \A p \in Players, index \in Nat :
              /\ ParticipantRegistered(v, p, index) \in View
              /\ ParticipantRegistered(v, p, index).balance = [v.balance EXCEPT ![p] = @ - EntryFee]
<1>1. /\ TournamentCreated(v) \in View
      /\ TournamentCreated(v).balance = [v.balance EXCEPT ![Organizer] = @ - OrganizerDeposit]
  <2>1. Organizer \in Wallets /\ OrganizerDeposit \in Nat  BY WalletTypes, ParametersAssumption
  <2>2. [v.balance EXCEPT ![Organizer] = @ - OrganizerDeposit] \in [Wallets -> Int]
    BY <2>1 DEF View
  <2>3. QED  BY <2>2 DEF TournamentCreated, View, Status
<1>2. ASSUME NEW p \in Players, NEW index \in Nat
      PROVE  /\ ParticipantRegistered(v, p, index) \in View
             /\ ParticipantRegistered(v, p, index).balance = [v.balance EXCEPT ![p] = @ - EntryFee]
  <2>1. p \in Wallets /\ EntryFee \in Nat  BY WalletTypes, ParametersAssumption
  <2>2. v.entrants \cup {<<p, index>>} \in SUBSET (Players \X Nat)  BY DEF View
  <2>3. [v.balance EXCEPT ![p] = @ - EntryFee] \in [Wallets -> Int]  BY <2>1 DEF View
  <2>4. QED  BY <2>2, <2>3 DEF ParticipantRegistered, View
<1>3. QED  BY <1>1, <1>2

LEMMA RefundsTyped ==
  ASSUME NEW v \in View, NEW chunk, NEW withDeposit
  PROVE  /\ Refunded(v, chunk, withDeposit) \in View
         /\ Refunded(v, chunk, withDeposit).balance =
              [w \in Wallets |->
                 v.balance[w] + (IF w = Organizer /\ DepositDue(withDeposit) > 0
                                 THEN OrganizerDeposit ELSE 0)
                              + (IF w \in Unpaid(chunk) THEN EntryFee ELSE 0)]
<1>1. \A u \in View : \A wallets : \A amount \in Int :
        /\ RefundIssued(u, wallets, amount) \in View
        /\ RefundIssued(u, wallets, amount).balance =
             [w \in Wallets |-> u.balance[w] + IF w \in wallets THEN amount ELSE 0]
  BY DEF RefundIssued, View
<1>2. PICK paid : paid = IF DepositDue(withDeposit) > 0 THEN {Organizer} ELSE {}
  OBVIOUS
<1>3. PICK u : u = RefundIssued(v, paid, OrganizerDeposit)  OBVIOUS
<1>4. /\ u \in View
      /\ u.balance = [w \in Wallets |-> v.balance[w] + IF w \in paid THEN OrganizerDeposit ELSE 0]
  BY <1>1, <1>3, ParametersAssumption
<1>5. /\ RefundIssued(u, Unpaid(chunk), EntryFee) \in View
      /\ RefundIssued(u, Unpaid(chunk), EntryFee).balance =
             [w \in Wallets |-> u.balance[w] + IF w \in Unpaid(chunk) THEN EntryFee ELSE 0]
  BY <1>1, <1>4, ParametersAssumption
<1>6. Refunded(v, chunk, withDeposit) = RefundIssued(u, Unpaid(chunk), EntryFee)
  BY <1>2, <1>3 DEF Refunded
<1>7. QED  BY <1>2, <1>4, <1>5, <1>6

\* The others state none.
LEMMA OthersTyped ==
  ASSUME NEW v \in View
  PROVE  /\ TournamentCancelled(v) \in View /\ TournamentCancelled(v).balance = v.balance
         /\ TournamentPartiallyCancelled(v) \in View
         /\ TournamentPartiallyCancelled(v).balance = v.balance
         /\ \A closed \in BOOLEAN : /\ TournamentClosed(v, closed) \in View
                                   /\ TournamentClosed(v, closed).balance = v.balance
         /\ \A size \in PowersOfTwo, count \in Nat, seed \in Seeds :
              /\ TournamentStarted(v, size, count, seed) \in View
              /\ TournamentStarted(v, size, count, seed).balance = v.balance
         /\ \A m \in Matches :
              /\ \A w \in Wallets \cup {NoOne} : /\ MatchReported(v, m, w) \in View
                                               /\ MatchReported(v, m, w).balance = v.balance
              /\ \A p \in Shown : /\ ResultProposed(v, m, p) \in View
                                  /\ ResultProposed(v, m, p).balance = v.balance
              /\ \A how \in Closing : /\ Closed(v, m, how) \in View
                                      /\ Closed(v, m, how).balance = v.balance
              /\ ResultDisputed(v, m) \in View /\ ResultDisputed(v, m).balance = v.balance
              /\ MatchLobbyCommitted(v, m) \in View
              /\ MatchLobbyCommitted(v, m).balance = v.balance
              /\ MatchFeedBound(v, m) \in View /\ MatchFeedBound(v, m).balance = v.balance
<1>1. /\ TournamentCancelled(v) \in View /\ TournamentCancelled(v).balance = v.balance
      /\ TournamentPartiallyCancelled(v) \in View
      /\ TournamentPartiallyCancelled(v).balance = v.balance
      /\ \A closed \in BOOLEAN : /\ TournamentClosed(v, closed) \in View
                                /\ TournamentClosed(v, closed).balance = v.balance
  BY DEF View, TournamentCancelled, TournamentPartiallyCancelled, TournamentClosed, Status
<1>2. ASSUME NEW size \in PowersOfTwo, NEW count \in Nat, NEW seed \in Seeds
      PROVE  /\ TournamentStarted(v, size, count, seed) \in View
             /\ TournamentStarted(v, size, count, seed).balance = v.balance
  BY DEF View, TournamentStarted, Status
<1>3. ASSUME NEW m \in Matches, NEW w \in Wallets \cup {NoOne}
      PROVE  MatchReported(v, m, w) \in View /\ MatchReported(v, m, w).balance = v.balance
  BY DEF View, MatchReported
<1>4. ASSUME NEW m \in Matches, NEW p \in Shown
      PROVE  ResultProposed(v, m, p) \in View /\ ResultProposed(v, m, p).balance = v.balance
  BY DEF View, ResultProposed
<1>5. ASSUME NEW m \in Matches, NEW how \in Closing
      PROVE  Closed(v, m, how) \in View /\ Closed(v, m, how).balance = v.balance
  BY DEF View, Closed
<1>6. ASSUME NEW m \in Matches
      PROVE  /\ ResultDisputed(v, m) \in View /\ ResultDisputed(v, m).balance = v.balance
             /\ MatchLobbyCommitted(v, m) \in View
             /\ MatchLobbyCommitted(v, m).balance = v.balance
             /\ MatchFeedBound(v, m) \in View /\ MatchFeedBound(v, m).balance = v.balance
  BY DEF View, ResultDisputed, MatchLobbyCommitted, MatchFeedBound
<1>7. QED  BY <1>1, <1>2, <1>3, <1>4, <1>5, <1>6

(***************************************************************************)
(* Each instruction moves what its events say.                             *)
(***************************************************************************)
Balanced == view.balance = wallet

Ledger == VaultIsNatural /\ view \in View /\ Balanced

LEMMA CreateLedger ==
  ASSUME TypeOK, Ledger, NEW mode, NEW preset, CreateTournament(mode, preset),
         view' = TournamentCreated(view)
  PROVE  Ledger'
<1>1. vault' = OrganizerDeposit /\ wallet' = [wallet EXCEPT ![Organizer] = @ - OrganizerDeposit]
  BY DEF CreateTournament
<1>2. view' \in View
      /\ view'.balance = [view.balance EXCEPT ![Organizer] = @ - OrganizerDeposit]
  BY PaymentsTyped DEF Ledger
<1>3. QED  BY <1>1, <1>2, ParametersAssumption DEF Ledger, VaultIsNatural, Balanced

LEMMA JoinLedger ==
  ASSUME TypeOK, Ledger, NEW p \in Players, JoinTournament(p),
         view' = ParticipantRegistered(view, p, participant_count)
  PROVE  Ledger'
<1>1. vault' = vault + EntryFee /\ wallet' = [wallet EXCEPT ![p] = @ - EntryFee]
  BY DEF JoinTournament
<1>2. view' \in View /\ view'.balance = [view.balance EXCEPT ![p] = @ - EntryFee]
  BY PaymentsTyped DEF Ledger, TypeOK
<1>3. QED  BY <1>1, <1>2, ParametersAssumption DEF Ledger, VaultIsNatural, Balanced

\* One RefundIssued for the deposit and one for each fee that is paid back.
LEMMA RefundLedger ==
  ASSUME TypeOK, Ledger, NEW chunk \in SUBSET Players, NEW withDeposit \in BOOLEAN,
         RefundChunk(chunk, withDeposit),
         NEW v \in View, v.balance = view.balance, view' = Refunded(v, chunk, withDeposit)
  PROVE  Ledger'
<1>1. PICK deposit, total :
        /\ deposit = DepositDue(withDeposit)
        /\ total = deposit + EntryFee * Cardinality(Unpaid(chunk))
  OBVIOUS
<1>2. /\ total <= vault /\ vault' = vault - total
      /\ wallet' = [w \in Wallets |-> wallet[w] + (IF w = Organizer THEN deposit ELSE 0)
                                   + (IF w \in Unpaid(chunk) THEN EntryFee ELSE 0)]
  BY <1>1, Zenon DEF RefundChunk
<1>3. deposit \in Nat /\ deposit = IF deposit > 0 THEN OrganizerDeposit ELSE 0
  BY <1>1, ParametersAssumption DEF DepositDue
<1>4. total \in Int
  <2>1. Cardinality(Unpaid(chunk)) \in Nat  BY RefundSettlesDebts, Zenon
  <2>2. EntryFee * Cardinality(Unpaid(chunk)) \in Nat
    BY <2>1, ParametersAssumption, NaturalProduct
  <2>3. QED  BY <1>1, <1>3, <2>2
<1>5. vault' \in Nat  BY <1>2, <1>4 DEF Ledger, VaultIsNatural
<1>6. view' \in View
      /\ view'.balance = [w \in Wallets |->
           v.balance[w] + (IF w = Organizer /\ deposit > 0 THEN OrganizerDeposit ELSE 0)
                        + (IF w \in Unpaid(chunk) THEN EntryFee ELSE 0)]
  <2>1. /\ Refunded(v, chunk, withDeposit) \in View
        /\ Refunded(v, chunk, withDeposit).balance =
             [w \in Wallets |->
                v.balance[w] + (IF w = Organizer /\ DepositDue(withDeposit) > 0
                                THEN OrganizerDeposit ELSE 0)
                             + (IF w \in Unpaid(chunk) THEN EntryFee ELSE 0)]
    BY RefundsTyped
  <2>2. QED  BY <1>1, <2>1, Zenon
<1>7. view'.balance = wallet'
  <2>1. v.balance = wallet  BY DEF Ledger, Balanced
  <2>2. \A w \in Wallets : (IF w = Organizer /\ deposit > 0 THEN OrganizerDeposit ELSE 0)
                               = (IF w = Organizer THEN deposit ELSE 0)
    BY <1>3
  <2>3. QED  BY <1>2, <1>6, <2>1, <2>2
<1>8. QED  BY <1>5, <1>6, <1>7 DEF Ledger, VaultIsNatural, Balanced

\* The rows of TournamentCompleted and its fee are what distribute_prizes transfers.
LEMMA CompletionLedger ==
  ASSUME TypeOK, Ledger, NEW placements, DistributePrizes(placements),
         NEW v \in View, v.balance = view.balance, NEW winner \in Wallets \cup {NoOne}
  PROVE  LET w == TournamentCompleted(v, winner, Payouts(placements), protocol_fee(GrossPool))
         IN  w \in View /\ w.balance = wallet' /\ vault' \in Nat
<1>1. PICK amounts, fee :
        /\ fee = protocol_fee(GrossPool)
        /\ amounts = split_placements(GrossPool - fee, basis_points(payout_preset),
                                      placement_count(payout_preset))
  OBVIOUS
<1>2. amounts \in [Slots -> Nat]  BY <1>1, AmountsAreNatural DEF Ledger
<1>3. PICK payouts : payouts = Payouts(placements)  OBVIOUS
<1>4. \A w : MapThenSumSet(Amount, {payout \in payouts : payout.recipient = w})
               = Received(w, placements, amounts)
  <2>1. payouts = {[place |-> i, recipient |-> placements[i], amount |-> amounts[i]] :
                     i \in {slot \in Slots : amounts[slot] > 0}}
    BY <1>1, <1>3, Zenon DEF Payouts
  <2>2. QED  BY <1>2, <2>1, RowsAddUp
<1>5. PICK credit :
        credit = [w \in Wallets |-> v.balance[w] + Received(w, placements, amounts)
                                     + (IF w = Treasury THEN fee ELSE 0)]
  OBVIOUS
<1>6. wallet' = [w \in Wallets |-> wallet[w] + Received(w, placements, amounts)
                                    + (IF w = Treasury THEN fee ELSE 0)]
  <2>1. fee = FinalFee /\ amounts = FinalAmounts  BY <1>1 DEF FinalFee, FinalAmounts
  <2>2. wallet' = [w \in Wallets |-> wallet[w] + Sent(w, placements, amounts, fee)]
    BY <2>1, PrizesLeaveTheVault
  <2>3. fee \in Int  BY <2>1, FinalAddsUp
  <2>4. \A w \in Wallets : wallet[w] \in Int  BY DEF TypeOK
  <2>5. ASSUME NEW w \in Wallets
        PROVE  wallet[w] + Sent(w, placements, amounts, fee)
                 = wallet[w] + Received(w, placements, amounts)
                             + (IF w = Treasury THEN fee ELSE 0)
    <3>1. Received(w, placements, amounts) \in Int
      <4>1. [i \in Slots |-> IF placements[i] = w THEN amounts[i] ELSE 0] \in [Slots -> Int]
        BY <1>2
      <4>2. PICK got \in [Slots -> Int] :
              got = [i \in Slots |-> IF placements[i] = w THEN amounts[i] ELSE 0]
        BY <4>1
      <4>3. got[1] \in Int /\ got[2] \in Int /\ got[3] \in Int /\ got[4] \in Int
            /\ got[5] \in Int /\ got[6] \in Int /\ got[7] \in Int /\ got[8] \in Int
        BY DEF Slots, MAX_PAYOUT_SLOTS
      <4>4. SlotSum(got) \in Int  BY <4>3 DEF SlotSum
      <4>5. QED  BY <4>2, <4>4 DEF Received
    <3>2. Sent(w, placements, amounts, fee)
            = Received(w, placements, amounts) + (IF w = Treasury THEN fee ELSE 0)
      BY DEF Sent, Received
    <3>3. QED  BY <2>3, <2>4, <3>1, <3>2
  <2>6. QED  BY <2>2, <2>5
<1>7. credit = wallet'
  <2>1. v.balance = wallet  BY DEF Ledger, Balanced
  <2>2. QED  BY <1>5, <1>6, <2>1
<1>8. vault' \in Nat /\ wallet' \in [Wallets -> Int]
  <2>1. Sent(TournamentPda, placements, FinalAmounts, FinalFee) \in Nat
    BY NobodyIsSentMore DEF Ledger, VaultIsNatural
  <2>2. QED  BY <2>1, PrizesLeaveTheVault
<1>9. TournamentCompleted(v, winner, payouts, fee)
        = [v EXCEPT !.status = "Completed", !.champion = winner, !.balance = credit]
  <2>1. credit = [w \in Wallets |-> v.balance[w]
                   + MapThenSumSet(Amount, {payout \in payouts : payout.recipient = w})
                   + (IF w = Treasury THEN fee ELSE 0)]
    BY <1>4, <1>5
  <2>2. QED  BY <2>1, Zenon DEF TournamentCompleted
<1>10. /\ TournamentCompleted(v, winner, payouts, fee) \in View
       /\ TournamentCompleted(v, winner, payouts, fee).balance = wallet'
  BY <1>7, <1>8, <1>9 DEF View, Status
<1>11. QED  BY <1>1, <1>3, <1>8, <1>10

LEMMA FinalizedLedger ==
  ASSUME TypeOK, Ledger, NEW m \in Matches, NEW winner, NEW trusted, NEW signer,
         FinalizeMatch(m, winner, trusted, signer), NEW how \in Closing,
         Finalized(m, winner, how)
  PROVE  Ledger'
<1>1. winner \in Wallets \cup {NoOne}
  BY DEF FinalizeMatch, PlayersOf, TypeOK, MatchNode
<1>2. PICK reported : reported = MatchReported(view, m, winner)  OBVIOUS
<1>3. reported \in View /\ reported.balance = view.balance
  BY <1>1, <1>2, OthersTyped, Zenon DEF Ledger
<1>4. CASE ~IsFinal(m, bracket_size)
  <2>1. view' = Closed(reported, m, how)  BY <1>2, <1>4, Zenon DEF Finalized
  <2>2. UNCHANGED <<vault, wallet>>  BY <1>4 DEF FinalizeMatch, AdvanceWinner
  <2>3. view' \in View /\ view'.balance = view.balance
    BY <1>3, <2>1, OthersTyped
  <2>4. QED  BY <2>2, <2>3 DEF Ledger, VaultIsNatural, Balanced
<1>5. CASE IsFinal(m, bracket_size)
  <2>1. PICK placements \in Placements(m, winner) :
          /\ DistributePrizes(placements)
          /\ view' = Closed(TournamentCompleted(reported, winner, Payouts(placements),
                                                protocol_fee(GrossPool)), m, how)
    BY <1>2, <1>5, Zenon DEF Finalized
  <2>2. PICK completed : completed = TournamentCompleted(reported, winner, Payouts(placements),
                                                         protocol_fee(GrossPool))
    OBVIOUS
  <2>3. completed \in View /\ completed.balance = wallet' /\ vault' \in Nat
    BY <1>1, <1>3, <2>1, <2>2, CompletionLedger
  <2>4. view' \in View /\ view'.balance = wallet'
    BY <2>1, <2>2, <2>3, OthersTyped
  <2>5. QED  BY <2>3, <2>4 DEF Ledger, VaultIsNatural, Balanced
<1>6. QED  BY <1>4, <1>5

\* An instruction that moves no token, with events that state no amount.
LEMMA QuietLedger ==
  ASSUME Ledger, UNCHANGED <<vault, wallet>>, view' \in View, view'.balance = view.balance
  PROVE  Ledger'
BY DEF Ledger, VaultIsNatural, Balanced

LEMMA LifecycleLedger ==
  ASSUME TypeOK, Ledger, LifecycleEvents
  PROVE  Ledger'
<1> USE DEF Ledger
<1>1. CASE \E mode \in Modes, preset \in Presets :
              CreateTournament(mode, preset) /\ view' = TournamentCreated(view)
  BY <1>1, CreateLedger
<1>2. CASE \E p \in Players :
              JoinTournament(p) /\ view' = ParticipantRegistered(view, p, participant_count)
  BY <1>2, JoinLedger
<1>3. CASE (RequestSeed \/ \E seed \in Seeds : RevealSeed(seed)) /\ UNCHANGED view
  <2>1. UNCHANGED <<vault, wallet>>  BY <1>3 DEF RequestSeed, RevealSeed, money
  <2>2. QED  BY <1>3, <2>1, QuietLedger
<1>4. ASSUME NEW ids \in SUBSET Matches, NEW size \in PowersOfTwo, NEW seed \in Seeds,
             StartTournament(ids, size, seed), view' = Started(view, size, seed)
      PROVE  Ledger'
  <2>1. UNCHANGED <<vault, wallet>>  BY <1>4 DEF StartTournament, money
  <2>2. view' \in View /\ view'.balance = view.balance
    BY <1>4, OthersTyped DEF Started, TypeOK
  <2>3. QED  BY <2>1, <2>2, QuietLedger
<1>5. CASE PartialCancelTournament /\ view' = TournamentPartiallyCancelled(view)
  <2>1. UNCHANGED <<vault, wallet>>  BY <1>5 DEF PartialCancelTournament, money
  <2>2. QED  BY <1>5, <2>1, OthersTyped, QuietLedger
<1>6. ASSUME NEW chunk \in SUBSET Players, NEW withDeposit \in BOOLEAN,
             NEW caller, CancelTournament(caller, chunk, withDeposit),
             view' = Refunded(Cancelled(view), chunk, withDeposit)
      PROVE  Ledger'
  <2>1. RefundChunk(chunk, withDeposit)  BY <1>6 DEF CancelTournament
  <2>2. Cancelled(view) \in View /\ Cancelled(view).balance = view.balance
    BY OthersTyped DEF Cancelled
  <2>3. QED  BY <1>6, <2>1, <2>2, RefundLedger
<1>7. ASSUME NEW chunk \in SUBSET Players, NEW withDeposit \in BOOLEAN,
             PartialRefundChunk(chunk, withDeposit), view' = Refunded(view, chunk, withDeposit)
      PROVE  Ledger'
  <2>1. RefundChunk(chunk, withDeposit)  BY <1>7 DEF PartialRefundChunk
  <2>2. QED  BY <1>7, <2>1, RefundLedger
<1>8. ASSUME NEW players, NEW nodes, NEW closeRoot \in BOOLEAN,
             CloseTournament(players, nodes, closeRoot), view' = TournamentClosed(view, closeRoot)
      PROVE  Ledger'
  <2>1. UNCHANGED <<vault, wallet>>  BY <1>8 DEF CloseTournament, money
  <2>2. QED  BY <1>8, <2>1, OthersTyped, QuietLedger
<1> USE DEF LifecycleEvents
<1>9. QED  BY <1>1, <1>2, <1>3, <1>4, <1>5, <1>6, <1>7, <1>8, Zenon

LEMMA SettlementLedger ==
  ASSUME TypeOK, TypeOK', Ledger, NEW m \in Matches, SettlementEvents(m)
  PROVE  Ledger'
<1>1. ASSUME NEW winner, NEW trusted, NEW signer, NEW how \in Closing,
             FinalizeMatch(m, winner, trusted, signer), Finalized(m, winner, how)
      PROVE  Ledger'
  BY <1>1, FinalizedLedger
<1>2. ASSUME UNCHANGED money, view' = ResultProposed(view, m, ProposalShown(m))
      PROVE  Ledger'
  <2>1. ProposalShown(m) \in Shown  BY DEF ProposalShown, Shown, TypeOK, Envelope
  <2>2. view' \in View /\ view'.balance = view.balance
    BY <1>2, <2>1, OthersTyped DEF Ledger
  <2>3. QED  BY <1>2, <2>2, QuietLedger DEF money
<1>3. ASSUME UNCHANGED money,
             \/ view' = ResultDisputed(view, m)
             \/ view' = MatchLobbyCommitted(view, m)
             \/ view' = MatchFeedBound(view, m)
      PROVE  Ledger'
  <2>1. view' \in View /\ view'.balance = view.balance
    BY <1>3, OthersTyped DEF Ledger
  <2>2. QED  BY <1>3, <2>1, QuietLedger DEF money
<1>4. {"None", "ResultClaimed", Forced, "DisputeResolved", "FinalSettled"} \subseteq Closing
  BY DEF Closing, Forced
<1>5. CASE \E w \in Wallets : ReportResult(m, w) /\ Finalized(m, w, "None")
  BY <1>1, <1>4, <1>5 DEF ReportResult
<1>6. CASE \E p, w \in Players :
              ProposeResult(m, p, w) /\ view' = ResultProposed(view, m, ProposalShown(m))
  BY <1>2, <1>6 DEF ProposeResult, Propose
<1>7. CASE \E p \in Players :
              ConfirmResult(m, p) /\ Finalized(m, envelope[m].proposed_winner, "None")
  BY <1>1, <1>4, <1>7 DEF ConfirmResult, Settle
<1>8. CASE \E w \in Signers : DisputeResult(m, w) /\ view' = ResultDisputed(view, m)
  BY <1>3, <1>8 DEF DisputeResult
<1>9. CASE \E w \in Players : ResolveDispute(m, w) /\ Finalized(m, w, "DisputeResolved")
  BY <1>1, <1>4, <1>9 DEF ResolveDispute, Settle
<1>10. CASE \/ ClaimResult(m) /\ Finalized(m, envelope[m].proposed_winner, "ResultClaimed")
            \/ ForceClaimDisputed(m) /\ Finalized(m, envelope[m].proposed_winner, Forced)
            \/ SettleFinal(m) /\ Finalized(m, envelope[m].proposed_winner, "FinalSettled")
  BY <1>1, <1>4, <1>10 DEF ClaimResult, ForceClaimDisputed, SettleFinal, Settle
<1>11. CASE \/ CommitMatchLobby(m) /\ view' = MatchLobbyCommitted(view, m)
            \/ BindMatchFeed(m) /\ view' = MatchFeedBound(view, m)
  BY <1>3, <1>11 DEF CommitMatchLobby, BindMatchFeed
<1>12. CASE \E relayer \in Signers, value \in FeedValues :
              /\ ProposeResultOracle(m, relayer, value)
              /\ view' = ResultProposed(view, m, ProposalShown(m))
  BY <1>2, <1>12 DEF ProposeResultOracle, Propose
<1>13. QED
  BY <1>5, <1>6, <1>7, <1>8, <1>9, <1>10, <1>11, <1>12, Zenon DEF SettlementEvents

LEMMA StepLedger ==
  TypeOK /\ TypeOK' /\ Ledger /\ [EventNext]_eventVars => Ledger'
<1> SUFFICES ASSUME TypeOK, TypeOK', Ledger, [EventNext]_eventVars  PROVE Ledger'
  OBVIOUS
<1>1. CASE (Tick /\ UNCHANGED view) \/ UNCHANGED eventVars
  BY <1>1, QuietLedger DEF Tick, eventVars, vars, money, Ledger
<1>2. CASE LifecycleEvents  BY <1>2, LifecycleLedger
<1>3. CASE \E m \in Matches : SettlementEvents(m)  BY <1>3, SettlementLedger
<1>4. QED  BY <1>1, <1>2, <1>3 DEF EventNext

LEMMA InitLedger == EventInit => Ledger
<1> SUFFICES ASSUME EventInit  PROVE Ledger
  OBVIOUS
<1>1. vault = 0 /\ wallet = [w \in Wallets |-> 0]  BY DEF EventInit, Init
<1>2. view = BlankView /\ view.balance = [w \in Wallets |-> 0]  BY DEF EventInit, BlankView
<1>3. QED  BY <1>1, <1>2, BlankTyped DEF Ledger, VaultIsNatural, Balanced

LEMMA LedgerAlways == EventSpec => []Ledger
<1>1. EventSpec => []TypeOK  BY EventSpecImplements, TypeCorrect, PTL
<1>2. QED  BY <1>1, InitLedger, StepLedger, PTL DEF EventSpec

(***************************************************************************)
(* The vault's own account is nobody's until the final, and what the final *)
(* leaves in it is what was made out to it.  The log shows when that was.  *)
(***************************************************************************)
Kept ==
    /\ view.status = "Completed" <=> status = "Completed"
    /\ wallet[TournamentPda] = IF status = "Completed" THEN vault ELSE 0

LEMMA RefundedKeep ==
  ASSUME TypeOK, Ledger, Kept, NEW chunk, NEW withDeposit, RefundChunk(chunk, withDeposit),
         status # "Completed", status' # "Completed", NEW v \in View, v.status # "Completed",
         view' = Refunded(v, chunk, withDeposit)
  PROVE  Kept'
<1>1. wallet'[TournamentPda] = wallet[TournamentPda]
  <2>1. TournamentPda # Organizer /\ TournamentPda \notin Players /\ TournamentPda \in Wallets
    BY PartiesAssumption, WalletTypes DEF Signers
  <2>2. TournamentPda \notin Unpaid(chunk)
    BY <2>1 DEF RefundChunk, Unpaid, OpenParticipants
  <2>3. wallet[TournamentPda] \in Int  BY <2>1 DEF TypeOK
  <2>4. PICK deposit : deposit = DepositDue(withDeposit)  OBVIOUS
  <2>5. wallet' = [w \in Wallets |-> wallet[w] + (IF w = Organizer THEN deposit ELSE 0)
                                   + (IF w \in Unpaid(chunk) THEN EntryFee ELSE 0)]
    BY <2>4, Zenon DEF RefundChunk
  <2>6. QED  BY <2>1, <2>2, <2>3, <2>5
<1>2. view'.status = v.status
  <2>1. \A u \in View : \A wallets, amount :
          RefundIssued(u, wallets, amount).status = u.status
    BY DEF RefundIssued, View
  <2>2. \A u \in View : \A wallets : \A amount \in Int : RefundIssued(u, wallets, amount) \in View
    BY DEF RefundIssued, View
  <2>3. QED  BY <2>1, <2>2, ParametersAssumption DEF Refunded
<1>3. QED  BY <1>1, <1>2 DEF Kept

LEMMA LifecycleKept ==
  ASSUME TypeOK, Ledger, Kept, LifecycleEvents
  PROVE  Kept'
<1> USE DEF Ledger
<1>1. ASSUME NEW mode \in Modes, NEW preset \in Presets, CreateTournament(mode, preset),
             view' = TournamentCreated(view)
      PROVE  Kept'
  <2>1. wallet'[TournamentPda] = wallet[TournamentPda]
    BY <1>1, PartiesAssumption DEF CreateTournament, TypeOK, Signers
  <2>2. status = "None" /\ status' = "Registration"  BY <1>1 DEF CreateTournament
  <2>3. view'.status = "Registration"  BY <1>1 DEF TournamentCreated, View
  <2>4. QED  BY <2>1, <2>2, <2>3 DEF Kept
<1>2. ASSUME NEW p \in Players, JoinTournament(p),
             view' = ParticipantRegistered(view, p, participant_count)
      PROVE  Kept'
  <2>1. wallet'[TournamentPda] = wallet[TournamentPda]
    BY <1>2, PartiesAssumption DEF JoinTournament, TypeOK, Signers
  <2>2. status = "Registration" /\ status' = status  BY <1>2 DEF JoinTournament
  <2>3. view'.status = view.status  BY <1>2 DEF ParticipantRegistered, View
  <2>4. QED  BY <2>1, <2>2, <2>3 DEF Kept
<1>3. CASE (RequestSeed \/ \E seed \in Seeds : RevealSeed(seed)) /\ UNCHANGED view
  <2>1. UNCHANGED <<vault, wallet, status, view>>  BY <1>3 DEF RequestSeed, RevealSeed, money
  <2>2. QED  BY <2>1 DEF Kept
<1>4. ASSUME NEW ids \in SUBSET Matches, NEW size \in PowersOfTwo, NEW seed \in Seeds,
             StartTournament(ids, size, seed), view' = Started(view, size, seed)
      PROVE  Kept'
  <2>1. UNCHANGED <<vault, wallet>>  BY <1>4 DEF StartTournament, money
  <2>2. status \in {"Registration", "PendingBracketInit"}
        /\ status' \in {"Active", "PendingBracketInit"}
    BY <1>4 DEF StartTournament, DrawBracket
  <2>3. view'.status \in {view.status, "Active"}
    BY <1>4 DEF Started, TournamentStarted, View
  <2>4. QED  BY <2>1, <2>2, <2>3 DEF Kept
<1>5. CASE PartialCancelTournament /\ view' = TournamentPartiallyCancelled(view)
  <2>1. UNCHANGED <<vault, wallet>> /\ status = "Active" /\ status' = "PartialCancelled"
    BY <1>5 DEF PartialCancelTournament, money
  <2>2. view'.status = "PartialCancelled"  BY <1>5 DEF TournamentPartiallyCancelled, View
  <2>3. QED  BY <2>1, <2>2 DEF Kept
<1>6. ASSUME NEW chunk \in SUBSET Players, NEW withDeposit \in BOOLEAN,
             NEW caller, CancelTournament(caller, chunk, withDeposit),
             view' = Refunded(Cancelled(view), chunk, withDeposit)
      PROVE  Kept'
  <2>1. RefundChunk(chunk, withDeposit) /\ status # "Completed" /\ status' # "Completed"
    BY <1>6 DEF CancelTournament
  <2>2. Cancelled(view) \in View  BY OthersTyped DEF Cancelled
  <2>3. Cancelled(view).status # "Completed"
    BY <2>1 DEF Cancelled, TournamentCancelled, View, Kept
  <2>4. QED  BY <1>6, <2>1, <2>2, <2>3, RefundedKeep
<1>7. ASSUME NEW chunk \in SUBSET Players, NEW withDeposit \in BOOLEAN,
             PartialRefundChunk(chunk, withDeposit), view' = Refunded(view, chunk, withDeposit)
      PROVE  Kept'
  <2>1. RefundChunk(chunk, withDeposit) /\ status # "Completed" /\ status' # "Completed"
    BY <1>7 DEF PartialRefundChunk, tournament
  <2>2. QED  BY <1>7, <2>1, RefundedKeep DEF Kept
<1>8. ASSUME NEW players, NEW nodes, NEW closeRoot \in BOOLEAN,
             CloseTournament(players, nodes, closeRoot), view' = TournamentClosed(view, closeRoot)
      PROVE  Kept'
  <2>1. UNCHANGED <<vault, wallet>>  BY <1>8 DEF CloseTournament, money
  <2>2. CASE closeRoot
    <3>1. vault = 0 /\ status' = "None"  BY <1>8, <2>2 DEF CloseTournament, NoTournament
    <3>2. view'.status = "None"  BY <1>8, <2>2 DEF TournamentClosed, View
    <3>3. QED  BY <2>1, <3>1, <3>2 DEF Kept
  <2>3. CASE ~closeRoot
    <3>1. UNCHANGED <<status, view>>  BY <1>8, <2>3 DEF CloseTournament, TournamentClosed
    <3>2. QED  BY <2>1, <3>1 DEF Kept
  <2>4. QED  BY <2>2, <2>3
<1> USE DEF LifecycleEvents
<1>9. QED  BY <1>1, <1>2, <1>3, <1>4, <1>5, <1>6, <1>7, <1>8, Zenon

\* What Finalized does to the view.
LEMMA FinalizedFields ==
  ASSUME view \in View, NEW m \in Matches, NEW winner \in Wallets \cup {NoOne}, NEW how,
         Finalized(m, winner, how)
  PROVE  /\ view'.winner = [view.winner EXCEPT ![m] = winner]
         /\ view'.closing = [view.closing EXCEPT ![m] = how]
         /\ view'.entrants = view.entrants /\ view'.draw = view.draw
         /\ view'.proposal = view.proposal /\ view'.disputed = view.disputed
         /\ view'.committed = view.committed /\ view'.bound = view.bound
         /\ IF IsFinal(m, bracket_size)
            THEN view'.status = "Completed" /\ view'.champion = winner
            ELSE view'.status = view.status /\ view'.champion = view.champion
<1>1. PICK reported : reported = MatchReported(view, m, winner)  OBVIOUS
<1>2. reported \in View  BY <1>1 DEF MatchReported, View
<1>3. /\ reported.winner = [view.winner EXCEPT ![m] = winner]
      /\ reported.closing = view.closing
      /\ reported.entrants = view.entrants /\ reported.draw = view.draw
      /\ reported.proposal = view.proposal /\ reported.disputed = view.disputed
      /\ reported.committed = view.committed /\ reported.bound = view.bound
      /\ reported.status = view.status /\ reported.champion = view.champion
  BY <1>1 DEF MatchReported, View
<1>4. CASE ~IsFinal(m, bracket_size)
  <2>1. view' = Closed(reported, m, how)  BY <1>1, <1>4, Zenon DEF Finalized
  <2>2. QED  BY <1>2, <1>3, <1>4, <2>1 DEF Closed, View
<1>5. CASE IsFinal(m, bracket_size)
  <2>1. PICK payouts, fee : view' = Closed(TournamentCompleted(reported, winner, payouts, fee),
                                           m, how)
    BY <1>1, <1>5, Zenon DEF Finalized
  <2>2. PICK credit, completed :
          /\ completed = [reported EXCEPT !.status = "Completed", !.champion = winner,
                                          !.balance = credit]
          /\ completed = TournamentCompleted(reported, winner, payouts, fee)
    BY Zenon DEF TournamentCompleted
  <2>3. /\ completed.winner = reported.winner /\ completed.closing = reported.closing
        /\ completed.entrants = reported.entrants /\ completed.draw = reported.draw
        /\ completed.proposal = reported.proposal /\ completed.disputed = reported.disputed
        /\ completed.committed = reported.committed /\ completed.bound = reported.bound
        /\ completed.status = "Completed" /\ completed.champion = winner
    BY <1>2, <2>2 DEF View
  <2>4. view' = Closed(completed, m, how)  BY <2>1, <2>2
  <2>5. QED  BY <1>3, <1>5, <2>3, <2>4 DEF Closed
<1>6. QED  BY <1>4, <1>5

LEMMA FinalizedKept ==
  ASSUME TypeOK, Ledger, Kept, NEW m \in Matches, NEW winner, NEW trusted, NEW signer,
         FinalizeMatch(m, winner, trusted, signer), NEW how, Finalized(m, winner, how)
  PROVE  Kept'
<1>1. winner \in Wallets \cup {NoOne} /\ status = "Active"
  BY DEF FinalizeMatch, Playable, PlayersOf, TypeOK, MatchNode
<1>2. CASE ~IsFinal(m, bracket_size)
  <2>1. UNCHANGED <<vault, wallet, status>>  BY <1>2 DEF FinalizeMatch, AdvanceWinner
  <2>2. view'.status = view.status  BY <1>1, <1>2, FinalizedFields DEF Ledger
  <2>3. QED  BY <2>1, <2>2 DEF Kept
<1>3. CASE IsFinal(m, bracket_size)
  <2>1. view'.status = "Completed"  BY <1>1, <1>3, FinalizedFields DEF Ledger
  <2>2. PICK placements : DistributePrizes(placements) /\ status' = "Completed"
    BY <1>3 DEF FinalizeMatch, CompleteTournament
  <2>3. /\ vault' = Sent(TournamentPda, placements, FinalAmounts, FinalFee) /\ vault' \in Int
        /\ wallet' = [w \in Wallets |->
                         wallet[w] + Sent(w, placements, FinalAmounts, FinalFee)]
    BY <2>2, PrizesLeaveTheVault
  <2>4. wallet[TournamentPda] = 0  BY <1>1 DEF Kept
  <2>5. QED  BY <2>1, <2>2, <2>3, <2>4, WalletTypes DEF Kept
<1>4. QED  BY <1>2, <1>3

LEMMA SettlementKept ==
  ASSUME TypeOK, Ledger, Kept, NEW m \in Matches, SettlementEvents(m)
  PROVE  Kept'
<1>1. ASSUME NEW winner, NEW trusted, NEW signer, NEW how,
             FinalizeMatch(m, winner, trusted, signer), Finalized(m, winner, how)
      PROVE  Kept'
  BY <1>1, FinalizedKept
<1>2. ASSUME UNCHANGED money, UNCHANGED status, view'.status = view.status
      PROVE  Kept'
  BY <1>2 DEF Kept, money
<1>3. \A p : /\ ResultProposed(view, m, p).status = view.status
             /\ ResultDisputed(view, m).status = view.status
             /\ MatchLobbyCommitted(view, m).status = view.status
             /\ MatchFeedBound(view, m).status = view.status
  BY DEF ResultProposed, ResultDisputed, MatchLobbyCommitted, MatchFeedBound, Ledger, View
<1>5. CASE \E w \in Wallets : ReportResult(m, w) /\ Finalized(m, w, "None")
  BY <1>1, <1>5 DEF ReportResult
<1>6. CASE \E p, w \in Players :
              ProposeResult(m, p, w) /\ view' = ResultProposed(view, m, ProposalShown(m))
  BY <1>2, <1>3, <1>6 DEF ProposeResult, Propose, tournament
<1>7. CASE \E p \in Players :
              ConfirmResult(m, p) /\ Finalized(m, envelope[m].proposed_winner, "None")
  BY <1>1, <1>7 DEF ConfirmResult, Settle
<1>8. CASE \E w \in Signers : DisputeResult(m, w) /\ view' = ResultDisputed(view, m)
  BY <1>2, <1>3, <1>8 DEF DisputeResult, tournament
<1>9. CASE \E w \in Players : ResolveDispute(m, w) /\ Finalized(m, w, "DisputeResolved")
  BY <1>1, <1>9 DEF ResolveDispute, Settle
<1>10. CASE \/ ClaimResult(m) /\ Finalized(m, envelope[m].proposed_winner, "ResultClaimed")
            \/ ForceClaimDisputed(m) /\ Finalized(m, envelope[m].proposed_winner, Forced)
            \/ SettleFinal(m) /\ Finalized(m, envelope[m].proposed_winner, "FinalSettled")
  BY <1>1, <1>10 DEF ClaimResult, ForceClaimDisputed, SettleFinal, Settle
<1>11. CASE \/ CommitMatchLobby(m) /\ view' = MatchLobbyCommitted(view, m)
            \/ BindMatchFeed(m) /\ view' = MatchFeedBound(view, m)
  BY <1>2, <1>3, <1>11 DEF CommitMatchLobby, BindMatchFeed, tournament
<1>12. CASE \E relayer \in Signers, value \in FeedValues :
              /\ ProposeResultOracle(m, relayer, value)
              /\ view' = ResultProposed(view, m, ProposalShown(m))
  BY <1>2, <1>3, <1>12 DEF ProposeResultOracle, Propose, tournament
<1>13. QED
  BY <1>5, <1>6, <1>7, <1>8, <1>9, <1>10, <1>11, <1>12, Zenon DEF SettlementEvents

LEMMA StepKept ==
  TypeOK /\ Ledger /\ Kept /\ [EventNext]_eventVars => Kept'
<1> SUFFICES ASSUME TypeOK, Ledger, Kept, [EventNext]_eventVars  PROVE Kept'
  OBVIOUS
<1>1. CASE (Tick /\ UNCHANGED view) \/ UNCHANGED eventVars
  BY <1>1 DEF Tick, eventVars, vars, money, tournament, Kept
<1>2. CASE LifecycleEvents  BY <1>2, LifecycleKept
<1>3. CASE \E m \in Matches : SettlementEvents(m)  BY <1>3, SettlementKept
<1>4. QED  BY <1>1, <1>2, <1>3 DEF EventNext

LEMMA InitKept == EventInit => Kept
BY WalletTypes DEF EventInit, Init, BlankView, Kept

(***************************************************************************)
(* The log is a ledger: the entry fees, deposits, refunds, prizes and fees *)
(* the events state add up to the balance of every wallet, for every       *)
(* preset and field, whatever chunks, retries and settlements come in      *)
(* whatever order, and however often the PDA is created.                   *)
(***************************************************************************)
THEOREM TheLogIsALedger == EventSpec => []LogIsTheLedger
<1>1. EventSpec => [](TypeOK /\ Ledger)
  BY EventSpecImplements, TypeCorrect, LedgerAlways, PTL
<1>2. Ledger /\ Kept => LogIsTheLedger  BY DEF Ledger, Balanced, Kept, LogIsTheLedger
<1>3. QED  BY <1>1, <1>2, InitKept, StepKept, PTL DEF EventSpec

(***************************************************************************)
(* What the view shows                                                     *)
(*                                                                         *)
(* Besides the matches there are, the argument needs that the log has said *)
(* nothing of those there are not (Unmentioned), until close_tournament    *)
(* takes matches away: the accounts start_tournament writes then find a    *)
(* blank page.  And a drawn bracket has a size, so that its seed is sealed *)
(* (DrawnMeansSealed) and the draw announced is the draw for good.         *)
(***************************************************************************)
HeaderShown ==
    /\ view.status = IF status = "PendingBracketInit" THEN "Registration" ELSE status
    /\ view.entrants = {<<p, participant[p].seed_index>> :
                           p \in {q \in Players : participant[q].account # "Absent"}}
    /\ status \in {"Active", "Completed"} =>
          view.draw = <<bracket_size, participant_count, seed_hash>>
    /\ status = "Completed" => view.champion = champion

DrawnHasSize == status \in {"Active", "Completed"} => bracket_size # 0

HeaderInv == HeaderShown /\ DrawnHasSize

Unmentioned(m) ==
    /\ view.winner[m] = NoOne /\ view.proposal[m] = NoProposal
    /\ m \notin view.disputed /\ m \notin view.committed /\ m \notin view.bound

\* Before the first tournament, and until the end of one, nothing is closed.
Live == incarnation = 0 \/ status \in OpenStatus

DisputesAnswer == \A m \in Matches : envelope[m].disputed => envelope[m].source # "None"

MatchesInv ==
    /\ \A m \in OpenNodes : MatchShown(m)
    /\ Live => \A m \in Matches \ OpenNodes : Unmentioned(m)
    /\ DisputesAnswer

LEMMA ShownIsAgreed == HeaderInv /\ MatchesInv => ViewAgrees
BY DEF HeaderInv, HeaderShown, MatchesInv, ViewAgrees

\* What a step may leave alone.
SameEntrants ==
    \A p \in Players : /\ participant'[p].account = "Absent" <=> participant[p].account = "Absent"
                       /\ participant'[p].seed_index = participant[p].seed_index

SameMatch(m) ==
    /\ node'[m].bye = node[m].bye /\ node'[m].winner = node[m].winner
    /\ envelope'[m].source = envelope[m].source
    /\ envelope'[m].proposer = envelope[m].proposer
    /\ envelope'[m].proposed_winner = envelope[m].proposed_winner
    /\ envelope'[m].disputed = envelope[m].disputed
    /\ m \in committed' <=> m \in committed
    /\ m \in feed_bound' <=> m \in feed_bound

SameRecord(m) ==
    /\ view'.winner[m] = view.winner[m] /\ view'.proposal[m] = view.proposal[m]
    /\ m \in view'.disputed <=> m \in view.disputed
    /\ m \in view'.committed <=> m \in view.committed
    /\ m \in view'.bound <=> m \in view.bound

SameRecords == \A m \in Matches : SameRecord(m)

SameHeader ==
    /\ view'.status = view.status /\ view'.entrants = view.entrants
    /\ view'.draw = view.draw /\ view'.champion = view.champion

LEMMA MatchStaysShown ==
  ASSUME NEW m \in Matches, SameMatch(m), SameRecord(m), MatchShown(m)
  PROVE  MatchShown(m)'
BY DEF SameMatch, SameRecord, MatchShown

\* The instructions that write no match.
LEMMA MatchesStay ==
  ASSUME MatchesInv, SameRecords, UNCHANGED <<node, oracle>>, Live' => Live,
         \A m \in Matches : SameMatch(m)
  PROVE  MatchesInv'
<1>1. OpenNodes' = OpenNodes  BY DEF OpenNodes
<1>2. \A m \in OpenNodes' : MatchShown(m)'
  BY <1>1, MatchStaysShown DEF MatchesInv, SameRecords, OpenNodes
<1>3. Live' => \A m \in Matches \ OpenNodes' : Unmentioned(m)'
  BY <1>1 DEF MatchesInv, SameRecords, SameRecord, Unmentioned
<1>4. DisputesAnswer'  BY DEF MatchesInv, DisputesAnswer, SameMatch
<1>5. QED  BY <1>2, <1>3, <1>4 DEF MatchesInv

LEMMA UntouchedMatches ==
  ASSUME UNCHANGED matches
  PROVE  UNCHANGED <<node, oracle>> /\ \A m \in Matches : SameMatch(m)
BY DEF matches, oracle, SameMatch

\* The instructions that move the tournament on, with what they emit.
LEMMA CreateShows ==
  ASSUME MaxIncarnations <= 1, Enrolled, view \in View, HeaderInv, MatchesInv,
         NEW mode, NEW preset, CreateTournament(mode, preset), view' = TournamentCreated(view)
  PROVE  HeaderInv' /\ MatchesInv'
<1>1. incarnation = 0 /\ status = "None" /\ status' = "Registration"
  BY ParametersAssumption DEF CreateTournament, Enrolled, TypeOK
<1>2. \A p \in Players : participant[p].account = "Absent" /\ participant'[p].account = "Absent"
  BY <1>1 DEF CreateTournament, Enrolled, UnbornIsEmpty, NoParticipant
<1>3. /\ view'.status = "Registration" /\ view'.entrants = view.entrants
      /\ SameRecords
  BY DEF TournamentCreated, View, SameRecords, SameRecord
<1>4. HeaderInv'
  BY <1>1, <1>2, <1>3 DEF HeaderInv, HeaderShown, DrawnHasSize
<1>5. UNCHANGED matches  BY DEF CreateTournament
<1>6. MatchesInv'  BY <1>1, <1>3, <1>5, UntouchedMatches, MatchesStay DEF Live
<1>7. QED  BY <1>4, <1>6

LEMMA JoinShows ==
  ASSUME Enrolled, view \in View, HeaderInv, MatchesInv, NEW p \in Players, JoinTournament(p),
         view' = ParticipantRegistered(view, p, participant_count)
  PROVE  HeaderInv' /\ MatchesInv'
<1>1. /\ status = "Registration" /\ UNCHANGED <<status, incarnation, matches>>
      /\ participant[p].account = "Absent"
  BY DEF JoinTournament, Enrolled, NobodyClosedEarly, OpenStatus, TypeOK, Participant
<1>2. /\ participant'[p].account = "Open" /\ participant'[p].seed_index = participant_count
      /\ \A q \in Players \ {p} : participant'[q] = participant[q]
  BY DEF JoinTournament, Enrolled, TypeOK, NoParticipant
<1>3. /\ view'.status = view.status
      /\ view'.entrants = view.entrants \cup {<<p, participant_count>>}
      /\ SameRecords
  BY DEF ParticipantRegistered, View, SameRecords, SameRecord
<1>4. HeaderInv'
  <2>1. {q \in Players : participant'[q].account # "Absent"}
          = {q \in Players : participant[q].account # "Absent"} \cup {p}
    BY <1>2
  <2>2. view'.entrants = {<<q, participant'[q].seed_index>> :
                            q \in {q \in Players : participant'[q].account # "Absent"}}
    BY <1>1, <1>2, <1>3, <2>1 DEF HeaderInv, HeaderShown
  <2>3. QED  BY <1>1, <1>3, <2>2 DEF HeaderInv, HeaderShown, DrawnHasSize
<1>5. MatchesInv'  BY <1>1, <1>3, UntouchedMatches, MatchesStay DEF Live
<1>6. QED  BY <1>4, <1>5

\* An instruction of the tournament after which the view shows its phase.
LEMMA PhaseShows ==
  ASSUME HeaderInv, MatchesInv, SameRecords, UNCHANGED <<matches, incarnation>>, SameEntrants,
         view'.entrants = view.entrants, view'.draw = view.draw,
         view'.champion = view.champion,
         view'.status = IF status' = "PendingBracketInit" THEN "Registration" ELSE status',
         status' \in OpenStatus => status' = status,
         status' \in {"Active", "Completed"} =>
            /\ status' = status
            /\ UNCHANGED <<bracket_size, participant_count, seed_hash, champion>>
  PROVE  HeaderInv' /\ MatchesInv'
<1>1. {<<p, participant'[p].seed_index>> :
          p \in {q \in Players : participant'[q].account # "Absent"}}
        = {<<p, participant[p].seed_index>> :
             p \in {q \in Players : participant[q].account # "Absent"}}
  <2>1. {q \in Players : participant'[q].account # "Absent"}
          = {q \in Players : participant[q].account # "Absent"}
    BY DEF SameEntrants
  <2>2. QED  BY <2>1 DEF SameEntrants
<1>2. HeaderInv'  BY <1>1 DEF HeaderInv, HeaderShown, DrawnHasSize
<1>3. Live' => Live  BY DEF Live
<1>4. MatchesInv'  BY <1>3, UntouchedMatches, MatchesStay
<1>5. QED  BY <1>2, <1>4

LEMMA SeedShows ==
  ASSUME Enrolled, DrawnMeansSealed, view \in View, HeaderInv, MatchesInv,
         RequestSeed \/ \E seed \in Seeds : RevealSeed(seed), UNCHANGED view
  PROVE  HeaderInv' /\ MatchesInv'
<1>1. /\ UNCHANGED <<status, matches, incarnation, participant, participant_count,
                     bracket_size, champion>>
      /\ status \in {"Active", "Completed"} => seed_hash' = seed_hash
  BY DEF RequestSeed, RevealSeed, counters, DrawnMeansSealed, HeaderInv, DrawnHasSize
<1>2. SameEntrants /\ SameRecords  BY <1>1 DEF SameEntrants, SameRecords, SameRecord
<1>3. view.status = IF status = "PendingBracketInit" THEN "Registration" ELSE status
  BY DEF HeaderInv, HeaderShown
<1>4. QED  BY <1>1, <1>2, <1>3, PhaseShows

\* A refund changes flags and balances, which the header does not show.
LEMMA RefundShows ==
  ASSUME Enrolled, view \in View, HeaderInv, MatchesInv, NEW chunk \in SUBSET Players,
         NEW withDeposit \in BOOLEAN, RefundChunk(chunk, withDeposit),
         UNCHANGED <<matches, incarnation>>, status' \in {"Cancelled", "PartialCancelled"},
         NEW v \in View, v.status = status', v.entrants = view.entrants, v.draw = view.draw,
         v.champion = view.champion, v.winner = view.winner, v.proposal = view.proposal,
         v.disputed = view.disputed, v.committed = view.committed, v.bound = view.bound,
         view' = Refunded(v, chunk, withDeposit)
  PROVE  HeaderInv' /\ MatchesInv'
<1>1. SameEntrants
  BY DEF RefundChunk, SameEntrants, Enrolled, TypeOK, Participant
<1>2. PICK paid, unpaid : view' = RefundIssued(RefundIssued(v, paid, OrganizerDeposit),
                                             unpaid, EntryFee)
  BY DEF Refunded
<1>3. /\ view'.status = v.status /\ view'.entrants = v.entrants /\ view'.draw = v.draw
      /\ view'.champion = v.champion /\ view'.winner = v.winner
      /\ view'.proposal = v.proposal /\ view'.disputed = v.disputed
      /\ view'.committed = v.committed /\ view'.bound = v.bound
  BY <1>2 DEF RefundIssued, View
<1>4. SameRecords  BY <1>3 DEF SameRecords, SameRecord
<1>5. QED  BY <1>1, <1>3, <1>4, PhaseShows DEF OpenStatus

LEMMA CancelShows ==
  ASSUME Enrolled, view \in View, HeaderInv, MatchesInv, NEW chunk \in SUBSET Players,
         NEW withDeposit \in BOOLEAN,
         \/ \E caller \in {Organizer, Relayer} :
               /\ CancelTournament(caller, chunk, withDeposit)
               /\ view' = Refunded(Cancelled(view), chunk, withDeposit)
         \/ /\ PartialRefundChunk(chunk, withDeposit)
            /\ view' = Refunded(view, chunk, withDeposit)
  PROVE  HeaderInv' /\ MatchesInv'
<1>1. CASE \E caller \in {Organizer, Relayer} :
              /\ CancelTournament(caller, chunk, withDeposit)
              /\ view' = Refunded(Cancelled(view), chunk, withDeposit)
  <2>1. /\ RefundChunk(chunk, withDeposit) /\ UNCHANGED <<matches, incarnation>>
        /\ status' = "Cancelled"
    BY <1>1 DEF CancelTournament
  <2>2. PICK v : v = Cancelled(view)  OBVIOUS
  <2>3. view.status = IF status = "PendingBracketInit" THEN "Registration" ELSE status
    BY DEF HeaderInv, HeaderShown
  <2>4. /\ v \in View /\ v.status = "Cancelled" /\ v.entrants = view.entrants
        /\ v.draw = view.draw /\ v.champion = view.champion /\ v.winner = view.winner
        /\ v.proposal = view.proposal /\ v.disputed = view.disputed
        /\ v.committed = view.committed /\ v.bound = view.bound
    BY <2>2, <2>3 DEF Cancelled, TournamentCancelled, View, Status
  <2>5. view' = Refunded(v, chunk, withDeposit)  BY <1>1, <2>2
  <2>6. QED  BY <2>1, <2>4, <2>5, RefundShows
<1>2. CASE PartialRefundChunk(chunk, withDeposit) /\ view' = Refunded(view, chunk, withDeposit)
  <2>1. /\ RefundChunk(chunk, withDeposit) /\ UNCHANGED <<matches, incarnation>>
        /\ status = "PartialCancelled" /\ status' = "PartialCancelled"
    BY <1>2 DEF PartialRefundChunk, tournament
  <2>2. view.status = status'  BY <2>1 DEF HeaderInv, HeaderShown
  <2>3. QED  BY <1>2, <2>1, <2>2, RefundShows
<1>3. QED  BY <1>1, <1>2

LEMMA PartialCancelShows ==
  ASSUME Enrolled, view \in View, HeaderInv, MatchesInv, PartialCancelTournament,
         view' = TournamentPartiallyCancelled(view)
  PROVE  HeaderInv' /\ MatchesInv'
<1>1. status' = "PartialCancelled" /\ UNCHANGED <<matches, incarnation, participant>>
  BY DEF PartialCancelTournament
<1>2. /\ view'.status = "PartialCancelled" /\ view'.entrants = view.entrants
      /\ view'.draw = view.draw /\ view'.champion = view.champion
      /\ SameRecords
  BY DEF TournamentPartiallyCancelled, View, SameRecords, SameRecord
<1>3. SameEntrants  BY <1>1 DEF SameEntrants
<1>4. QED  BY <1>1, <1>2, <1>3, PhaseShows DEF OpenStatus

\* start_tournament writes its accounts on blank pages, and the chunk that
\* activates the tournament announces the draw all its chunks share.
LEMMA StartShows ==
  ASSUME Enrolled, view \in View, HeaderInv, MatchesInv,
         NEW ids \in SUBSET Matches, NEW size \in PowersOfTwo, NEW seed \in Seeds,
         StartTournament(ids, size, seed), view' = Started(view, size, seed)
  PROVE  HeaderInv' /\ MatchesInv'
<1>1. /\ status \in {"Registration", "PendingBracketInit"}
      /\ status' \in {"Active", "PendingBracketInit"}
      /\ bracket_size' = size /\ seed_hash' = seed /\ size # 0
      /\ UNCHANGED <<participant_count, participant, incarnation>>
  BY DEF StartTournament, DrawBracket, PowersOfTwo, Pow2
<1>2. ASSUME status' = "Active"
      PROVE  HeaderInv'
  <2>1. /\ view'.status = "Active" /\ view'.entrants = view.entrants
        /\ view'.draw = <<size, participant_count, seed>>
    BY <1>2 DEF Started, TournamentStarted, View
  <2>2. QED  BY <1>1, <1>2, <2>1 DEF HeaderInv, HeaderShown, DrawnHasSize
<1>3. ASSUME status' = "PendingBracketInit"
      PROVE  HeaderInv'
  <2>1. view' = view  BY <1>3 DEF Started
  <2>2. QED  BY <1>1, <1>3, <2>1 DEF HeaderInv, HeaderShown, DrawnHasSize
<1>4. SameRecords
  BY DEF Started, TournamentStarted, View, SameRecords, SameRecord
<1>5. /\ \A m \in ids : /\ node[m].status = "Absent" /\ node'[m].status # "Absent"
                        /\ envelope'[m] = EmptyEnvelope
      /\ \A m \in Matches \ ids : node'[m] = node[m] /\ envelope'[m] = envelope[m]
  BY StartWrites DEF Enrolled
<1>6. committed' = committed \ ids /\ feed_bound' = feed_bound \ ids
  BY DEF StartTournament
<1>7. ASSUME NEW m \in ids
      PROVE  MatchShown(m)'
  <2>1. node'[m].bye \/ node'[m].winner = NoOne
    BY DEF StartTournament, NewNode
  <2>2. Unmentioned(m)  BY <1>1, <1>5 DEF MatchesInv, Live, OpenStatus, OpenNodes
  <2>3. view'.winner[m] = NoOne /\ view'.proposal[m] = NoProposal
        /\ m \notin view'.disputed /\ m \notin view'.committed /\ m \notin view'.bound
    BY <1>4, <2>2 DEF Unmentioned, SameRecords, SameRecord
  <2>4. QED
    BY <1>5, <1>6, <2>1, <2>3 DEF MatchShown, NoProposal, EmptyEnvelope
<1>8. ASSUME NEW m \in OpenNodes, m \notin ids
      PROVE  MatchShown(m)'
  <2>1. SameMatch(m)  BY <1>5, <1>6, <1>8 DEF SameMatch, OpenNodes
  <2>2. QED  BY <1>4, <2>1, MatchStaysShown DEF MatchesInv, SameRecords, OpenNodes
<1>9. OpenNodes' = OpenNodes \cup ids  BY <1>5 DEF OpenNodes
<1>10. \A m \in Matches \ OpenNodes' : Unmentioned(m)'
  BY <1>1, <1>4, <1>9
  DEF MatchesInv, Live, OpenStatus, Unmentioned, SameRecords, SameRecord
<1>11. DisputesAnswer'
  BY <1>5 DEF MatchesInv, DisputesAnswer, EmptyEnvelope
<1>12. MatchesInv'  BY <1>7, <1>8, <1>9, <1>10, <1>11 DEF MatchesInv
<1>13. QED  BY <1>1, <1>2, <1>3, <1>12

\* close_tournament takes accounts away; what the log said of them stays said.
LEMMA CloseShows ==
  ASSUME Enrolled, view \in View, HeaderInv, MatchesInv,
         NEW players \in SUBSET Players, NEW nodes \in SUBSET Matches, NEW closeRoot \in BOOLEAN,
         CloseTournament(players, nodes, closeRoot), view' = TournamentClosed(view, closeRoot)
  PROVE  HeaderInv' /\ MatchesInv'
<1>1. status \in TerminalStatus /\ incarnation # 0 /\ UNCHANGED incarnation
  BY DEF CloseTournament, Enrolled, UnbornIsEmpty, TerminalStatus
<1>2. SameEntrants
  BY DEF CloseTournament, CloseChildren, OpenParticipants, SameEntrants, Enrolled, TypeOK,
         Participant
<1>3. \/ status' = "None" /\ view'.status = "None"
      \/ UNCHANGED <<status, counters, champion, seeding, view>>
  BY DEF CloseTournament, NoTournament, TournamentClosed, View
<1>4. view'.entrants = view.entrants /\ SameRecords
  BY DEF TournamentClosed, View, SameRecords, SameRecord
<1>5. {<<p, participant'[p].seed_index>> :
          p \in {q \in Players : participant'[q].account # "Absent"}}
        = {<<p, participant[p].seed_index>> :
             p \in {q \in Players : participant[q].account # "Absent"}}
  <2>1. {q \in Players : participant'[q].account # "Absent"}
          = {q \in Players : participant[q].account # "Absent"}
    BY <1>2 DEF SameEntrants
  <2>2. QED  BY <1>2, <2>1 DEF SameEntrants
<1>6. HeaderInv'
  BY <1>1, <1>3, <1>4, <1>5 DEF HeaderInv, HeaderShown, DrawnHasSize, counters, seeding,
     TerminalStatus
<1>7. /\ \A m \in nodes : node'[m] = NoNode /\ envelope'[m] = EmptyEnvelope
      /\ \A m \in Matches \ nodes : node'[m] = node[m] /\ envelope'[m] = envelope[m]
      /\ committed' = committed \ nodes /\ feed_bound' = feed_bound \ nodes
  BY CloseWrites DEF Enrolled, CloseTournament, CloseChildren
<1>8. ASSUME NEW m \in OpenNodes'
      PROVE  MatchShown(m)'
  <2>1. m \in OpenNodes /\ m \notin nodes  BY <1>7 DEF OpenNodes, NoNode
  <2>2. SameMatch(m)  BY <1>7, <2>1 DEF SameMatch, OpenNodes
  <2>3. QED  BY <1>4, <2>1, <2>2, MatchStaysShown DEF MatchesInv, SameRecords, OpenNodes
<1>9. ~Live'  BY <1>1, <1>3 DEF Live, OpenStatus, TerminalStatus
<1>10. DisputesAnswer'  BY <1>7 DEF MatchesInv, DisputesAnswer, EmptyEnvelope
<1>11. QED  BY <1>6, <1>8, <1>9, <1>10 DEF MatchesInv

LEMMA LifecycleShows ==
  ASSUME MaxIncarnations <= 1, Enrolled, DrawnMeansSealed, view \in View,
         HeaderInv, MatchesInv, LifecycleEvents
  PROVE  HeaderInv' /\ MatchesInv'
<1>1. CASE \E mode \in Modes, preset \in Presets :
              CreateTournament(mode, preset) /\ view' = TournamentCreated(view)
  BY <1>1, CreateShows
<1>2. CASE \E p \in Players :
              JoinTournament(p) /\ view' = ParticipantRegistered(view, p, participant_count)
  BY <1>2, JoinShows
<1>3. CASE (RequestSeed \/ \E seed \in Seeds : RevealSeed(seed)) /\ UNCHANGED view
  BY <1>3, SeedShows
<1>4. CASE \E ids \in SUBSET Matches, size \in PowersOfTwo, seed \in Seeds :
              StartTournament(ids, size, seed) /\ view' = Started(view, size, seed)
  BY <1>4, StartShows
<1>5. CASE PartialCancelTournament /\ view' = TournamentPartiallyCancelled(view)
  BY <1>5, PartialCancelShows
<1>6. CASE \E chunk \in SUBSET Players, withDeposit \in BOOLEAN :
              \/ \E caller \in {Organizer, Relayer} :
                    /\ CancelTournament(caller, chunk, withDeposit)
                    /\ view' = Refunded(Cancelled(view), chunk, withDeposit)
              \/ /\ PartialRefundChunk(chunk, withDeposit)
                 /\ view' = Refunded(view, chunk, withDeposit)
  BY <1>6, CancelShows
<1>7. CASE \E players \in SUBSET Players, nodes \in SUBSET Matches, closeRoot \in BOOLEAN :
              CloseTournament(players, nodes, closeRoot) /\ view' = TournamentClosed(view, closeRoot)
  BY <1>7, CloseShows
<1>8. QED  BY <1>1, <1>2, <1>3, <1>4, <1>5, <1>6, <1>7, Zenon DEF LifecycleEvents

(***************************************************************************)
(* finalize_match writes its match and one slot; no event but its own says *)
(* anything of either.                                                     *)
(***************************************************************************)
LEMMA FinalizeChanges ==
  ASSUME TypeOK, NEW m \in Matches, NEW winner, NEW trusted, NEW signer,
         FinalizeMatch(m, winner, trusted, signer)
  PROVE  \A n \in Matches : /\ node'[n].bye = node[n].bye
                            /\ node'[n].winner = IF n = m THEN winner ELSE node[n].winner
<1>1. CASE IsFinal(m, bracket_size)
  <2>1. node' = [node EXCEPT ![m] = Decided(@, winner)]
    BY <1>1 DEF FinalizeMatch, CompleteTournament
  <2>2. QED  BY <2>1 DEF Decided, TypeOK, MatchNode
<1>2. CASE ~IsFinal(m, bracket_size)
  <2>1. PICK next \in OpenNodes :
          /\ FeedsInto(m, next)
          /\ node' = [node EXCEPT ![m] = Decided(@, winner),
                                  ![next] = Seated(@, IsLeftChild(m), winner)]
    BY <1>2 DEF FinalizeMatch, AdvanceWinner
  <2>2. m # next /\ next \in Matches
    <3>1. m.round \in Int  BY MatchTypes
    <3>2. QED  BY <2>1, <3>1 DEF FeedsInto, OpenNodes
  <2>3. /\ node'[m] = Decided(node[m], winner)
        /\ node'[next] = Seated(node[next], IsLeftChild(m), winner)
        /\ \A n \in Matches \ {m, next} : node'[n] = node[n]
    BY <2>1, <2>2 DEF TypeOK
  <2>4. node'[m].bye = node[m].bye /\ node'[m].winner = winner
    BY <2>3 DEF Decided, TypeOK, MatchNode
  <2>5. node'[next].bye = node[next].bye /\ node'[next].winner = node[next].winner
    BY <2>2, <2>3 DEF Seated, TypeOK, MatchNode
  <2>6. QED  BY <2>2, <2>3, <2>4, <2>5
<1>3. QED  BY <1>1, <1>2

LEMMA FinalizeShows ==
  ASSUME OneLane, Enrolled, BracketInv, TypeOK', view \in View, HeaderInv, MatchesInv,
         NEW m \in Matches, NEW winner, NEW trusted, NEW signer,
         FinalizeMatch(m, winner, trusted, signer), SameEntrants,
         NEW how, Finalized(m, winner, how)
  PROVE  HeaderInv' /\ MatchesInv'
<1>1. /\ m \in OpenNodes /\ ~node[m].bye
      /\ status = "Active"
  BY PlayableIsOpen DEF FinalizeMatch, Playable
<1>2. winner \in Wallets \cup {NoOne}
  BY DEF FinalizeMatch, PlayersOf, Enrolled, TypeOK, MatchNode
<1>3. /\ UNCHANGED <<participant_count, bracket_size, seeding, envelope, oracle, incarnation>>
      /\ IF IsFinal(m, bracket_size) THEN status' = "Completed" /\ champion' = winner
                                     ELSE UNCHANGED <<status, champion>>
  BY DEF FinalizeMatch, CompleteTournament, AdvanceWinner
<1>4. /\ view'.winner = [view.winner EXCEPT ![m] = winner]
      /\ view'.entrants = view.entrants /\ view'.draw = view.draw
      /\ view'.proposal = view.proposal /\ view'.disputed = view.disputed
      /\ view'.committed = view.committed /\ view'.bound = view.bound
      /\ IF IsFinal(m, bracket_size)
         THEN view'.status = "Completed" /\ view'.champion = winner
         ELSE view'.status = view.status /\ view'.champion = view.champion
  BY <1>2, FinalizedFields
<1>5. {<<p, participant'[p].seed_index>> :
          p \in {q \in Players : participant'[q].account # "Absent"}}
        = {<<p, participant[p].seed_index>> :
             p \in {q \in Players : participant[q].account # "Absent"}}
  <2>1. {q \in Players : participant'[q].account # "Absent"}
          = {q \in Players : participant[q].account # "Absent"}
    BY DEF SameEntrants
  <2>2. QED  BY <2>1 DEF SameEntrants
<1>6. HeaderInv'
  BY <1>1, <1>3, <1>4, <1>5 DEF HeaderInv, HeaderShown, DrawnHasSize, seeding
<1>7. OpenNodes' = OpenNodes  BY FinalizeBracket
<1>8. \A n \in Matches : /\ node'[n].bye = node[n].bye
                         /\ node'[n].winner = IF n = m THEN winner ELSE node[n].winner
  BY FinalizeChanges DEF Enrolled
<1>9. \A n \in Matches : view'.winner[n] = IF n = m THEN winner ELSE view.winner[n]
  BY <1>4 DEF View
<1>10. ASSUME NEW n \in OpenNodes
       PROVE  MatchShown(n)'
  <2>1. n \in Matches /\ MatchShown(n)  BY DEF OpenNodes, MatchesInv
  <2>2. view'.winner[n] = IF node'[n].bye THEN NoOne ELSE node'[n].winner
    BY <1>1, <1>8, <1>9, <2>1 DEF MatchShown
  <2>3. QED  BY <1>3, <1>4, <2>1, <2>2 DEF MatchShown, oracle
<1>11. Live /\ \A n \in Matches \ OpenNodes : Unmentioned(n)'
  <2>1. Live  BY <1>1 DEF Live, OpenStatus
  <2>2. QED  BY <1>1, <1>4, <1>9, <2>1 DEF MatchesInv, Unmentioned
<1>12. DisputesAnswer'  BY <1>3 DEF MatchesInv, DisputesAnswer
<1>13. QED  BY <1>6, <1>7, <1>10, <1>11, <1>12 DEF MatchesInv

LEMMA SettleShows ==
  ASSUME OneLane, Enrolled, BracketInv, TypeOK', view \in View, HeaderInv, MatchesInv,
         NEW m \in Matches, NEW winner, NEW trusted, NEW signer,
         Settle(m, winner, trusted, signer), NEW how, Finalized(m, winner, how)
  PROVE  HeaderInv' /\ MatchesInv'
<1>1. SameEntrants
  BY DEF Settle, CreditMatchStats, SameEntrants, Enrolled, TypeOK, Participant
<1>2. QED  BY <1>1, FinalizeShows DEF Settle

(***************************************************************************)
(* Proposals, disputes and the oracle's set-up                             *)
(***************************************************************************)
\* A step that writes one match's envelope or oracle fields and one record of it.
LEMMA OneMatchShows ==
  ASSUME Enrolled, HeaderInv, MatchesInv, NEW m \in OpenNodes,
         UNCHANGED <<tournament, participant, node, incarnation>>, SameHeader,
         \A n \in Matches \ {m} : SameMatch(n) /\ SameRecord(n),
         MatchShown(m)', envelope'[m].disputed => envelope'[m].source # "None"
  PROVE  HeaderInv' /\ MatchesInv'
<1>1. HeaderInv'
  BY DEF HeaderInv, HeaderShown, DrawnHasSize, SameHeader, tournament, counters, seeding
<1>2. OpenNodes' = OpenNodes  BY DEF OpenNodes
<1>3. \A n \in OpenNodes : MatchShown(n)'
  BY MatchStaysShown DEF MatchesInv, OpenNodes
<1>4. Live' => \A n \in Matches \ OpenNodes : Unmentioned(n)'
  BY DEF MatchesInv, Live, tournament, Unmentioned, SameRecord, OpenNodes
<1>5. DisputesAnswer'
  BY DEF MatchesInv, DisputesAnswer, SameMatch
<1>6. QED  BY <1>1, <1>2, <1>3, <1>4, <1>5 DEF MatchesInv

LEMMA ProposeShows ==
  ASSUME Enrolled, TypeOK', view \in View, HeaderInv, MatchesInv, NEW m \in OpenNodes,
         NoProposalYet(m), NEW source \in {"Player", "Oracle"}, NEW proposer, NEW winner,
         Propose(m, source, proposer, winner), view' = ResultProposed(view, m, ProposalShown(m))
  PROVE  HeaderInv' /\ MatchesInv'
<1>1. m \in Matches  BY DEF OpenNodes
<1>2. /\ envelope'[m].source = source /\ envelope'[m].disputed = FALSE
      /\ \A n \in Matches \ {m} : envelope'[n] = envelope[n]
      /\ UNCHANGED <<tournament, participant, node, oracle, incarnation>>
  BY <1>1 DEF Propose, Enrolled, TypeOK
<1>3. /\ SameHeader /\ view'.proposal = [view.proposal EXCEPT ![m] = ProposalShown(m)]
      /\ view'.winner = view.winner /\ view'.disputed = view.disputed
      /\ view'.committed = view.committed /\ view'.bound = view.bound
  BY DEF ResultProposed, View, SameHeader
<1>4. view'.proposal[m] = ProposalShown(m)
      /\ \A n \in Matches \ {m} : view'.proposal[n] = view.proposal[n]
  BY <1>1, <1>3 DEF View
<1>5. m \notin view.disputed
  BY <1>1 DEF MatchesInv, MatchShown, DisputesAnswer, NoProposalYet
<1>6. MatchShown(m)'
  BY <1>2, <1>3, <1>4, <1>5 DEF MatchesInv, MatchShown, ProposalShown, oracle
<1>7. \A n \in Matches \ {m} : SameMatch(n) /\ SameRecord(n)
  BY <1>2, <1>3, <1>4 DEF SameMatch, SameRecord, oracle
<1>8. QED  BY <1>2, <1>3, <1>6, <1>7, OneMatchShows

LEMMA DisputeShows ==
  ASSUME Enrolled, view \in View, HeaderInv, MatchesInv, NEW m \in Matches, NEW disputer,
         DisputeResult(m, disputer), view' = ResultDisputed(view, m)
  PROVE  HeaderInv' /\ MatchesInv'
<1>1. /\ m \in OpenNodes /\ envelope[m].source # "None"
      /\ envelope' = [envelope EXCEPT ![m] = Contested(@)]
      /\ UNCHANGED <<tournament, participant, node, oracle, incarnation>>
  BY DEF DisputeResult
<1>2. /\ envelope'[m].source = envelope[m].source
      /\ envelope'[m].proposer = envelope[m].proposer
      /\ envelope'[m].proposed_winner = envelope[m].proposed_winner
      /\ envelope'[m].disputed = TRUE
      /\ \A n \in Matches \ {m} : envelope'[n] = envelope[n]
  BY <1>1 DEF Contested, Enrolled, TypeOK, Envelope
<1>3. /\ SameHeader /\ view'.proposal = view.proposal
      /\ view'.winner = view.winner /\ view'.disputed = view.disputed \cup {m}
      /\ view'.committed = view.committed /\ view'.bound = view.bound
  BY DEF ResultDisputed, View, SameHeader
<1>4. MatchShown(m)'
  BY <1>1, <1>2, <1>3 DEF MatchesInv, MatchShown, oracle
<1>5. \A n \in Matches \ {m} : SameMatch(n) /\ SameRecord(n)
  BY <1>1, <1>2, <1>3 DEF SameMatch, SameRecord, oracle
<1>6. QED  BY <1>1, <1>2, <1>3, <1>4, <1>5, OneMatchShows

LEMMA OracleShows ==
  ASSUME Enrolled, view \in View, HeaderInv, MatchesInv, NEW m \in Matches,
         \/ CommitMatchLobby(m) /\ view' = MatchLobbyCommitted(view, m)
         \/ BindMatchFeed(m) /\ view' = MatchFeedBound(view, m)
  PROVE  HeaderInv' /\ MatchesInv'
<1>1. /\ m \in OpenNodes
      /\ UNCHANGED <<tournament, participant, node, envelope, incarnation>>
  BY DEF CommitMatchLobby, BindMatchFeed, OpenNodes
<1>2. /\ SameHeader /\ view'.proposal = view.proposal
      /\ view'.winner = view.winner /\ view'.disputed = view.disputed
      /\ \/ /\ committed' = committed \cup {m} /\ feed_bound' = feed_bound
            /\ view'.committed = view.committed \cup {m} /\ view'.bound = view.bound
         \/ /\ committed' = committed /\ feed_bound' = feed_bound \cup {m}
            /\ view'.committed = view.committed /\ view'.bound = view.bound \cup {m}
  BY DEF CommitMatchLobby, BindMatchFeed, MatchLobbyCommitted, MatchFeedBound, View, SameHeader
<1>3. MatchShown(m)'
  BY <1>1, <1>2 DEF MatchesInv, MatchShown
<1>4. \A n \in Matches \ {m} : SameMatch(n) /\ SameRecord(n)
  BY <1>1, <1>2 DEF SameMatch, SameRecord
<1>5. envelope'[m].disputed => envelope'[m].source # "None"
  BY <1>1 DEF MatchesInv, DisputesAnswer, OpenNodes
<1>6. QED  BY <1>1, <1>2, <1>3, <1>4, <1>5, OneMatchShows

LEMMA SettlementShows ==
  ASSUME OneLane, Enrolled, BracketInv, TypeOK', view \in View, HeaderInv, MatchesInv,
         NEW m \in Matches, SettlementEvents(m)
  PROVE  HeaderInv' /\ MatchesInv'
<1>1. CASE \E w \in Wallets : ReportResult(m, w) /\ Finalized(m, w, "None")
  <2>1. UNCHANGED participant  BY <1>1 DEF ReportResult
  <2>2. SameEntrants  BY <2>1 DEF SameEntrants
  <2>3. QED  BY <1>1, <2>2, FinalizeShows DEF ReportResult
<1>2. CASE \E p, w \in Players :
              ProposeResult(m, p, w) /\ view' = ResultProposed(view, m, ProposalShown(m))
  <2>1. m \in OpenNodes  BY <1>2 DEF ProposeResult, OpenNodes
  <2>2. QED  BY <1>2, <2>1, ProposeShows DEF ProposeResult
<1>3. CASE \E p \in Players :
              ConfirmResult(m, p) /\ Finalized(m, envelope[m].proposed_winner, "None")
  BY <1>3, SettleShows DEF ConfirmResult
<1>4. CASE \E w \in Signers : DisputeResult(m, w) /\ view' = ResultDisputed(view, m)
  BY <1>4, DisputeShows
<1>5. CASE \E w \in Players : ResolveDispute(m, w) /\ Finalized(m, w, "DisputeResolved")
  BY <1>5, SettleShows DEF ResolveDispute
<1>6. CASE \/ ClaimResult(m) /\ Finalized(m, envelope[m].proposed_winner, "ResultClaimed")
           \/ ForceClaimDisputed(m) /\ Finalized(m, envelope[m].proposed_winner, Forced)
           \/ SettleFinal(m) /\ Finalized(m, envelope[m].proposed_winner, "FinalSettled")
  BY <1>6, SettleShows DEF ClaimResult, ForceClaimDisputed, SettleFinal
<1>7. CASE \/ CommitMatchLobby(m) /\ view' = MatchLobbyCommitted(view, m)
           \/ BindMatchFeed(m) /\ view' = MatchFeedBound(view, m)
  BY <1>7, OracleShows
<1>8. CASE \E relayer \in Signers, value \in FeedValues :
              /\ ProposeResultOracle(m, relayer, value)
              /\ view' = ResultProposed(view, m, ProposalShown(m))
  <2>1. m \in OpenNodes  BY <1>8 DEF ProposeResultOracle, OpenNodes
  <2>2. QED  BY <1>8, <2>1, ProposeShows DEF ProposeResultOracle
<1>9. QED
  BY <1>1, <1>2, <1>3, <1>4, <1>5, <1>6, <1>7, <1>8, Zenon DEF SettlementEvents

LEMMA TickShows ==
  ASSUME Enrolled, HeaderInv, MatchesInv, Tick, UNCHANGED view
  PROVE  HeaderInv' /\ MatchesInv'
<1>1. HeaderInv'
  BY DEF Tick, counters, seeding, HeaderInv, HeaderShown, DrawnHasSize
<1>2. UNCHANGED <<node, oracle, status, incarnation>>  BY DEF Tick
<1>3. \A m \in Matches : SameMatch(m)
  BY DEF Tick, SameMatch, oracle, Enrolled, TypeOK, Envelope
<1>4. SameRecords  BY DEF SameRecords, SameRecord
<1>5. QED  BY <1>1, <1>2, <1>3, <1>4, MatchesStay DEF Live

\* What the view's argument assumes of the accounts.
Accounts == Enrolled /\ DrawnMeansSealed /\ BracketInv

LEMMA StepShows ==
  ASSUME MaxIncarnations <= 1, OneLane
  PROVE  Accounts /\ Accounts' /\ Ledger /\ HeaderInv /\ MatchesInv /\ [EventNext]_eventVars
           => HeaderInv' /\ MatchesInv'
<1> SUFFICES ASSUME Accounts, Accounts', Ledger, HeaderInv, MatchesInv, [EventNext]_eventVars
             PROVE  HeaderInv' /\ MatchesInv'
  OBVIOUS
<1> USE DEF Accounts
<1>1. view \in View /\ TypeOK'  BY DEF Ledger, Enrolled
<1>2. CASE Tick /\ UNCHANGED view  BY <1>2, TickShows
<1>3. CASE LifecycleEvents  BY <1>1, <1>3, LifecycleShows
<1>4. CASE \E m \in Matches : SettlementEvents(m)  BY <1>1, <1>4, SettlementShows
<1>5. CASE UNCHANGED eventVars
  <2>1. UNCHANGED <<tournament, participant, matches, incarnation, view>>
    BY <1>5 DEF eventVars, vars
  <2>2. HeaderInv'
    BY <2>1 DEF HeaderInv, HeaderShown, DrawnHasSize, tournament, counters, seeding
  <2>3. SameRecords /\ (Live' => Live)
    BY <2>1 DEF SameRecords, SameRecord, Live, tournament
  <2>4. QED  BY <2>1, <2>2, <2>3, UntouchedMatches, MatchesStay
<1>6. QED  BY <1>2, <1>3, <1>4, <1>5 DEF EventNext

LEMMA InitShows == EventInit => HeaderInv /\ MatchesInv
<1> SUFFICES ASSUME EventInit  PROVE HeaderInv /\ MatchesInv
  OBVIOUS
<1>1. /\ view.status = "None" /\ view.entrants = {}
      /\ view.disputed = {} /\ view.committed = {} /\ view.bound = {}
      /\ \A m \in Matches : view.winner[m] = NoOne /\ view.proposal[m] = NoProposal
  BY DEF EventInit, BlankView
<1>2. HeaderInv
  BY <1>1 DEF EventInit, Init, HeaderInv, HeaderShown, DrawnHasSize, NoParticipant
<1>3. OpenNodes = {}  BY DEF EventInit, Init, OpenNodes, NoNode
<1>4. DisputesAnswer  BY DEF EventInit, Init, DisputesAnswer, EmptyEnvelope
<1>5. QED  BY <1>1, <1>2, <1>3, <1>4 DEF MatchesInv, Unmentioned

LEMMA ShownAlways ==
  ASSUME MaxIncarnations <= 1, OneLane
  PROVE  EventSpec => [](Ledger /\ (Validated => Accounts /\ HeaderInv /\ MatchesInv))
<1>1. Spec => [](TypeOK /\ (Validated => Accounts))
  <2>1. Enrolled /\ DrawnMeansSealed /\ BracketInv => Accounts  BY DEF Accounts
  <2>2. QED  BY <2>1, TypeCorrect, BracketInvariant, PTL
<1>2. EventSpec => [](Ledger /\ TypeOK /\ (Validated => Accounts)) /\ [][Next]_vars
  <2>1. Spec => [][Next]_vars  BY PTL DEF Spec
  <2>2. QED  BY <1>1, <2>1, EventSpecImplements, LedgerAlways, PTL
<1>3. TypeOK /\ [Next]_vars /\ Validated' => Validated  BY ValidatedBefore
<1>4. QED  BY <1>2, <1>3, InitShows, StepShows, PTL DEF EventSpec

(***************************************************************************)
(* An indexer that replays the log and reads no account shows the phase,   *)
(* the entrants with their numbers, the draw, every result, proposal and   *)
(* dispute and the champion the accounts hold, for every field and order   *)
(* of instructions: no path of the program changes one of them unsaid.     *)
(***************************************************************************)
THEOREM TheLogShowsTheTournament ==
  ASSUME MaxIncarnations <= 1, OneLane
  PROVE  EventSpec => [](Validated => ViewAgrees)
BY ShownAlways, ShownIsAgreed, PTL

(***************************************************************************)
(* The log explains itself                                                 *)
(***************************************************************************)
LEMMA NoProposalsAlways ==
  ASSUME MaxIncarnations <= 1
  PROVE  Spec => []OrganizerOnlyHasNoProposals
<1>1. Init => OrganizerOnlyHasNoProposals
  BY DEF Init, OrganizerOnlyHasNoProposals, NoNode, EmptyEnvelope
<1>2. QED
  BY <1>1, StepAuthority, TypeCorrect, NoMatchNoProposalAlways, PTL DEF Spec

\* An announced result is the first of its match, and follows from what was said.
Explained ==
    \A m \in Matches : view'.winner[m] # view.winner[m] =>
        view.winner[m] = NoOne /\ view.status = "Active" /\ Justified(m)

\* Which way of closing a match the log may announce for which envelope.
Fits(m, winner, how) ==
    LET proposed == envelope[m].source # "None"
        asProposed == proposed /\ winner = envelope[m].proposed_winner
    IN  \/ how \in {"ResultClaimed", "FinalSettled", "None"} /\ asProposed /\ ~envelope[m].disputed
        \/ how = "ForceClaimed" /\ asProposed /\ envelope[m].disputed
        \/ how = "DisputeResolved" /\ proposed /\ envelope[m].disputed
        \/ how = "None" /\ ~proposed

LEMMA FinalizedExplains ==
  ASSUME OneLane, Enrolled, BracketInv, view \in View, HeaderInv, MatchesInv,
         NEW m \in Matches, NEW winner, NEW trusted, NEW signer,
         FinalizeMatch(m, winner, trusted, signer),
         NEW how, Finalized(m, winner, how), Fits(m, winner, how)
  PROVE  Explained
<1>1. /\ m \in OpenNodes /\ ~node[m].bye /\ node[m].winner = NoOne /\ status = "Active"
  BY PlayableIsOpen DEF FinalizeMatch, Playable
<1>2. winner \in Wallets \cup {NoOne}
  BY DEF FinalizeMatch, PlayersOf, Enrolled, TypeOK, MatchNode
<1>3. /\ view'.winner = [view.winner EXCEPT ![m] = winner]
      /\ view'.closing = [view.closing EXCEPT ![m] = how]
  BY <1>2, FinalizedFields
<1>4. /\ view'.winner[m] = winner /\ view'.closing[m] = how
      /\ \A n \in Matches \ {m} : view'.winner[n] = view.winner[n]
  BY <1>3 DEF View
<1>5. MatchShown(m) /\ view.status = "Active"
  BY <1>1 DEF MatchesInv, HeaderInv, HeaderShown
<1>6. view.winner[m] = NoOne  BY <1>1, <1>5 DEF MatchShown
<1>7. /\ view.proposal[m].source = envelope[m].source
      /\ view.proposal[m].proposed_winner = envelope[m].proposed_winner
      /\ m \in view.disputed <=> envelope[m].disputed
  BY <1>5 DEF MatchShown
<1>8. Justified(m)  BY <1>4, <1>7 DEF Justified, Fits
<1>9. QED  BY <1>4, <1>5, <1>6, <1>8 DEF Explained

LEMMA NothingAnnounced ==
  ASSUME view'.winner = view.winner
  PROVE  Explained
BY DEF Explained

LEMMA LifecycleAnnouncesNothing ==
  ASSUME view \in View, LifecycleEvents
  PROVE  view'.winner = view.winner
<1>1. ASSUME NEW v \in View, v.winner = view.winner, NEW chunk, NEW withDeposit
      PROVE  Refunded(v, chunk, withDeposit).winner = view.winner
  BY <1>1 DEF Refunded, RefundIssued, View
<1>2. Cancelled(view) \in View /\ Cancelled(view).winner = view.winner
  BY DEF Cancelled, TournamentCancelled, View, Status
<1>3. \A p, index : ParticipantRegistered(view, p, index).winner = view.winner
  BY DEF ParticipantRegistered, View
<1>4. /\ TournamentCreated(view).winner = view.winner
      /\ TournamentPartiallyCancelled(view).winner = view.winner
      /\ \A closed : TournamentClosed(view, closed).winner = view.winner
      /\ \A size, seed : Started(view, size, seed).winner = view.winner
  BY DEF TournamentCreated, TournamentPartiallyCancelled, TournamentClosed, Started,
         TournamentStarted, View
<1>5. \/ view' = view \/ view' = TournamentCreated(view)
      \/ view' = TournamentPartiallyCancelled(view)
      \/ \E p, index : view' = ParticipantRegistered(view, p, index)
      \/ \E size, seed : view' = Started(view, size, seed)
      \/ \E closed : view' = TournamentClosed(view, closed)
      \/ \E chunk, withDeposit : \/ view' = Refunded(Cancelled(view), chunk, withDeposit)
                                 \/ view' = Refunded(view, chunk, withDeposit)
  BY Zenon DEF LifecycleEvents
<1>6. QED  BY <1>1, <1>2, <1>3, <1>4, <1>5

LEMMA SettlementExplains ==
  ASSUME OneLane, Enrolled, BracketInv, OrganizerOnlyHasNoProposals, view \in View,
         HeaderInv, MatchesInv, NEW m \in Matches, SettlementEvents(m)
  PROVE  Explained
<1>1. CASE \E w \in Wallets : ReportResult(m, w) /\ Finalized(m, w, "None")
  <2>1. PICK w \in Wallets : ReportResult(m, w) /\ Finalized(m, w, "None")  BY <1>1
  <2>2. FinalizeMatch(m, w, TRUE, Organizer)  BY <2>1 DEF ReportResult
  <2>3. Fits(m, w, "None")
    BY <2>1 DEF ReportResult, OrganizerOnlyHasNoProposals, Fits
  <2>4. QED  BY <2>1, <2>2, <2>3, FinalizedExplains
<1>2. CASE \E p \in Players :
              ConfirmResult(m, p) /\ Finalized(m, envelope[m].proposed_winner, "None")
  <2>1. PICK p \in Players :
          ConfirmResult(m, p) /\ Finalized(m, envelope[m].proposed_winner, "None")
    BY <1>2
  <2>2. FinalizeMatch(m, envelope[m].proposed_winner, FALSE, p)
    BY <2>1 DEF ConfirmResult, Settle
  <2>3. Fits(m, envelope[m].proposed_winner, "None")
    BY <2>1 DEF ConfirmResult, Unchallenged, Fits
  <2>4. QED  BY <2>1, <2>2, <2>3, FinalizedExplains
<1>3. CASE \E w \in Players : ResolveDispute(m, w) /\ Finalized(m, w, "DisputeResolved")
  <2>1. PICK w \in Players : ResolveDispute(m, w) /\ Finalized(m, w, "DisputeResolved")
    BY <1>3
  <2>2. FinalizeMatch(m, w, TRUE, Organizer)  BY <2>1 DEF ResolveDispute, Settle
  <2>3. Fits(m, w, "DisputeResolved")
    BY <2>1 DEF ResolveDispute, MatchesInv, DisputesAnswer, Fits
  <2>4. QED  BY <2>1, <2>2, <2>3, FinalizedExplains
<1>4. CASE ClaimResult(m) /\ Finalized(m, envelope[m].proposed_winner, "ResultClaimed")
  <2>1. FinalizeMatch(m, envelope[m].proposed_winner, FALSE, Relayer)
    BY <1>4 DEF ClaimResult, Settle
  <2>2. Fits(m, envelope[m].proposed_winner, "ResultClaimed")
    BY <1>4 DEF ClaimResult, Unchallenged, Fits
  <2>3. QED  BY <1>4, <2>1, <2>2, FinalizedExplains
<1>5. CASE ForceClaimDisputed(m) /\ Finalized(m, envelope[m].proposed_winner, Forced)
  <2>1. FinalizeMatch(m, envelope[m].proposed_winner, FALSE, Relayer)
    BY <1>5 DEF ForceClaimDisputed, Settle
  <2>2. Fits(m, envelope[m].proposed_winner, Forced)
    BY <1>5 DEF ForceClaimDisputed, Forced, Fits
  <2>3. QED  BY <1>5, <2>1, <2>2, FinalizedExplains
<1>6. CASE SettleFinal(m) /\ Finalized(m, envelope[m].proposed_winner, "FinalSettled")
  <2>1. FinalizeMatch(m, envelope[m].proposed_winner, TRUE, Organizer)
    BY <1>6 DEF SettleFinal, Settle
  <2>2. Fits(m, envelope[m].proposed_winner, "FinalSettled")
    BY <1>6 DEF SettleFinal, Unchallenged, Fits
  <2>3. QED  BY <1>6, <2>1, <2>2, FinalizedExplains
<1>7. CASE \/ view' = ResultProposed(view, m, ProposalShown(m))
           \/ view' = ResultDisputed(view, m)
           \/ view' = MatchLobbyCommitted(view, m)
           \/ view' = MatchFeedBound(view, m)
  <2>1. view'.winner = view.winner
    BY <1>7 DEF ResultProposed, ResultDisputed, MatchLobbyCommitted, MatchFeedBound, View
  <2>2. QED  BY <2>1, NothingAnnounced
<1>8. QED
  BY <1>1, <1>2, <1>3, <1>4, <1>5, <1>6, <1>7, Zenon DEF SettlementEvents

LEMMA StepExplains ==
  ASSUME OneLane
  PROVE  Accounts /\ Ledger /\ HeaderInv /\ MatchesInv /\ OrganizerOnlyHasNoProposals
         /\ [EventNext]_eventVars => [Explained]_eventVars
<1> SUFFICES ASSUME Accounts, Ledger, HeaderInv, MatchesInv, OrganizerOnlyHasNoProposals,
                    [EventNext]_eventVars
             PROVE  [Explained]_eventVars
  OBVIOUS
<1>1. view \in View /\ Enrolled /\ BracketInv  BY DEF Ledger, Accounts
<1>2. CASE Tick /\ UNCHANGED view  BY <1>2, NothingAnnounced
<1>3. CASE LifecycleEvents  BY <1>1, <1>3, LifecycleAnnouncesNothing, NothingAnnounced
<1>4. CASE \E m \in Matches : SettlementEvents(m)  BY <1>1, <1>4, SettlementExplains
<1>5. QED  BY <1>2, <1>3, <1>4 DEF EventNext

(***************************************************************************)
(* Every result of a seeded draw is announced once, while the tournament   *)
(* is shown as running, and the log up to there justifies the event it is  *)
(* announced with: claims and confirmations follow an undisputed proposal, *)
(* forced claims and resolutions a disputed one, and a bare report none.   *)
(* Not so of a draw at will of an OrganizerOnly tournament: a winner that  *)
(* moves up onto a decided match has it announced again.                   *)
(***************************************************************************)
THEOREM TheLogExplainsItself ==
  ASSUME MaxIncarnations <= 1, OneLane
  PROVE  EventSpec => LogExplainsItself
<1>1. EventSpec => []OrganizerOnlyHasNoProposals
  BY EventSpecImplements, NoProposalsAlways, PTL
<1>2. ASSUME Ledger, Validated => Accounts /\ HeaderInv /\ MatchesInv,
             OrganizerOnlyHasNoProposals, [EventNext]_eventVars
      PROVE  [\A m \in Matches : DrawIsSeeded /\ view'.winner[m] # view.winner[m] =>
                view.winner[m] = NoOne /\ view.status = "Active" /\ Justified(m)]_eventVars
  <2>1. CASE DrawIsSeeded
    <3>1. Validated  BY <2>1, SeededIsValidated
    <3>2. [Explained]_eventVars  BY <1>2, <3>1, StepExplains
    <3>3. QED  BY <3>2 DEF Explained
  <2>2. CASE ~DrawIsSeeded  BY <2>2
  <2>3. QED  BY <2>1, <2>2
<1>3. QED
  BY <1>1, <1>2, ShownAlways, PTL DEF EventSpec, LogExplainsItself
=============================================================================
