----------------------------- MODULE MoneyProofs ------------------------------
(***************************************************************************)
(* The money of one tournament, for every instance: the vault holds what   *)
(* is owed and refunds make everybody whole.  The argument needs three     *)
(* facts besides the two properties themselves: before it is created a     *)
(* tournament holds and owes nothing, a tournament that exists has been    *)
(* created, and no Participant account is closed while players can still   *)
(* join, else a second join would overwrite a debt.                        *)
(***************************************************************************)
EXTENDS BracketChainProofs

OpenStatus == {"Registration", "PendingBracketInit", "Active"}

UnbornIsEmpty ==
    incarnation = 0 =>
        /\ status = "None" /\ vault = 0
        /\ wallet = [w \in Wallets |-> 0]
        /\ \A p \in Players : participant[p].account = "Absent"

NobodyClosedEarly ==
    status \in OpenStatus => \A p \in Players : participant[p].account # "Closed"

MoneyInv ==
    /\ TypeOK
    /\ UnbornIsEmpty
    /\ NobodyClosedEarly
    /\ VaultAccounting
    /\ RefundsMakeWhole

(***************************************************************************)
(* Arithmetic and cardinalities                                            *)
(***************************************************************************)
LEMMA UnrefundedFinite ==
  /\ IsFiniteSet(Unrefunded) /\ Cardinality(Unrefunded) \in Nat
<1>1. IsFiniteSet(Unrefunded)
  <2>1. IsFiniteSet(Players)  BY PartiesAssumption
  <2>2. Unrefunded \in SUBSET Players  BY DEF Unrefunded
  <2>3. QED  BY <2>1, <2>2, FS_Subset
<1>2. QED  BY <1>1, FS_CardinalityType

\* Before the prizes are paid nothing was ever made out to the vault itself,
\* and what the vault holds is a natural number.
LEMMA NothingOwn ==
  ASSUME MoneyInv, status \notin {"None", "Completed"}
  PROVE  wallet[TournamentPda] = 0 /\ vault \in Nat
<1>1. wallet[TournamentPda] = 0
  <2>1. TournamentPda # Organizer /\ TournamentPda \notin Players
    BY PartiesAssumption DEF Signers
  <2>2. Stake(TournamentPda) = 0  BY <2>1 DEF Stake, Unrefunded
  <2>3. QED  BY <2>2, WalletTypes DEF MoneyInv, RefundsMakeWhole
<1>2. vault \in Nat
  <2>1. EntryFee * Cardinality(Unrefunded) \in Nat
    BY NaturalProduct, UnrefundedFinite, ParametersAssumption
  <2>2. DepositHeld \in Nat  BY ParametersAssumption DEF DepositHeld
  <2>3. QED  BY <2>1, <2>2 DEF MoneyInv, VaultAccounting
<1>3. QED  BY <1>1, <1>2

\* What the final leaves in the vault is what was made out to it.
LEMMA FinalLeavesItsOwn ==
  ASSUME MoneyInv, status = "Active", NEW placements, DistributePrizes(placements)
  PROVE  vault' = wallet'[TournamentPda] /\ vault' \in 0..vault
<1>1. wallet[TournamentPda] = 0 /\ vault \in Nat  BY NothingOwn
<1>2. Sent(TournamentPda, placements, FinalAmounts, FinalFee) \in 0..vault
  BY <1>1, NobodyIsSentMore DEF MoneyInv
<1>3. /\ vault' = Sent(TournamentPda, placements, FinalAmounts, FinalFee)
      /\ wallet' = [w \in Wallets |->
                       wallet[w] + Sent(w, placements, FinalAmounts, FinalFee)]
  BY PrizesLeaveTheVault DEF MoneyInv
<1>4. QED  BY <1>1, <1>2, <1>3, WalletTypes

(***************************************************************************)
(* A step that moves no money, opens and closes no Participant account and *)
(* neither makes, completes nor reopens a tournament keeps the books.      *)
(***************************************************************************)
QuietStep ==
    /\ UNCHANGED <<vault, wallet, organizer_deposit_refunded, incarnation>>
    /\ \A p \in Players : /\ participant'[p].account = participant[p].account
                          /\ participant'[p].refund_paid = participant[p].refund_paid
    /\ status' # status =>
         /\ status \in OpenStatus
         /\ status' \in OpenStatus \cup {"Cancelled", "PartialCancelled"}

LEMMA QuietKeepsMoney ==
  ASSUME MoneyInv, TypeOK', QuietStep
  PROVE  MoneyInv'
<1>1. Unrefunded' = Unrefunded
  BY DEF QuietStep, Unrefunded
<1>2. DepositHeld' = DepositHeld
  BY DEF QuietStep, DepositHeld
<1>3. /\ (status' = "None") <=> (status = "None")
      /\ (status' = "Completed") <=> (status = "Completed")
  BY DEF QuietStep, OpenStatus
<1>4. VaultAccounting'
  BY <1>1, <1>2, <1>3 DEF MoneyInv, VaultAccounting, QuietStep
<1>5. RefundsMakeWhole'
  <2>1. \A w \in Wallets : Stake(w)' = Stake(w)
    BY <1>1, <1>2 DEF Stake, QuietStep
  <2>2. QED  BY <1>3, <2>1 DEF MoneyInv, RefundsMakeWhole, QuietStep
<1>6. UnbornIsEmpty'
  BY DEF MoneyInv, UnbornIsEmpty, QuietStep, OpenStatus
<1>7. NobodyClosedEarly'
  BY DEF MoneyInv, NobodyClosedEarly, QuietStep, OpenStatus
<1>8. QED  BY <1>4, <1>5, <1>6, <1>7 DEF MoneyInv

LEMMA InitMoney == Init => MoneyInv
<1> SUFFICES ASSUME Init  PROVE MoneyInv
  OBVIOUS
<1>1. TypeOK  BY InitTypes
<1>2. UnbornIsEmpty  BY DEF Init, UnbornIsEmpty, NoParticipant
<1>3. QED
  BY <1>1, <1>2
  DEF Init, MoneyInv, NobodyClosedEarly, OpenStatus, VaultAccounting, RefundsMakeWhole

\* create_tournament: the deposit is all there is and all that is owed.
LEMMA CreateMoney ==
  ASSUME MaxIncarnations <= 1, MoneyInv, TypeOK',
         NEW mode, NEW preset, CreateTournament(mode, preset)
  PROVE  MoneyInv'
<1>1. incarnation = 0 /\ incarnation' = 1
  BY ParametersAssumption DEF MoneyInv, TypeOK, CreateTournament
<1>2. /\ status' = "Registration" /\ vault' = OrganizerDeposit
      /\ \A w \in Wallets : wallet'[w] = IF w = Organizer THEN -OrganizerDeposit ELSE 0
  <2>1. wallet = [w \in Wallets |-> 0]
    BY <1>1 DEF MoneyInv, UnbornIsEmpty
  <2>2. wallet' = [wallet EXCEPT ![Organizer] = @ - OrganizerDeposit]
    BY DEF CreateTournament
  <2>3. \A w \in Wallets : wallet'[w] = IF w = Organizer THEN -OrganizerDeposit ELSE 0
    BY <2>1, <2>2, ParametersAssumption
  <2>4. QED  BY <2>3 DEF CreateTournament
<1>3. \A p \in Players : participant'[p].account = "Absent"
  BY <1>1 DEF MoneyInv, UnbornIsEmpty, CreateTournament, NoParticipant
<1>4. DepositHeld' = OrganizerDeposit
  BY DEF DepositHeld, CreateTournament
<1>5. Unrefunded' = {}
  BY <1>3 DEF Unrefunded
<1>6. VaultAccounting'
  <2>1. Cardinality(Unrefunded') = 0  BY <1>5, FS_EmptySet
  <2>2. QED  BY <1>2, <1>4, <2>1, ParametersAssumption DEF VaultAccounting
<1>7. RefundsMakeWhole'
  BY <1>1, <1>2, <1>4, <1>5, ParametersAssumption DEF RefundsMakeWhole, Stake
<1>8. QED
  BY <1>1, <1>2, <1>3, <1>6, <1>7 DEF MoneyInv, UnbornIsEmpty, NobodyClosedEarly, OpenStatus

\* A join adds one entrant to those the vault owes a fee.
LEMMA JoinAddsADebt ==
  ASSUME TypeOK, NobodyClosedEarly, NEW p \in Players, JoinTournament(p)
  PROVE  /\ participant'[p].account = "Open" /\ participant'[p].refund_paid = FALSE
         /\ \A q \in Players \ {p} : participant'[q] = participant[q]
         /\ Unrefunded' = Unrefunded \cup {p} /\ p \notin Unrefunded
         /\ Cardinality(Unrefunded') = Cardinality(Unrefunded) + 1
         /\ DepositHeld' = DepositHeld
         /\ vault' = vault + EntryFee
<1>1. participant[p].account = "Absent"
  <2>1. participant[p].account \in {"Absent", "Open", "Closed"}
    BY DEF TypeOK, Participant
  <2>2. QED
    BY <2>1 DEF NobodyClosedEarly, OpenStatus, JoinTournament
<1>2. /\ participant'[p].account = "Open" /\ participant'[p].refund_paid = FALSE
      /\ \A q \in Players \ {p} : participant'[q] = participant[q]
  BY DEF JoinTournament, NoParticipant, TypeOK
<1>3. Unrefunded' = Unrefunded \cup {p} /\ p \notin Unrefunded
  BY <1>1, <1>2 DEF Unrefunded
<1>4. Cardinality(Unrefunded') = Cardinality(Unrefunded) + 1
  BY <1>3, UnrefundedFinite, FS_AddElement
<1>5. DepositHeld' = DepositHeld /\ vault' = vault + EntryFee
  BY DEF JoinTournament, DepositHeld
<1>6. QED  BY <1>2, <1>3, <1>4, <1>5

\* join_tournament: one more fee in the vault, one more entrant to owe it to.
LEMMA JoinMoney ==
  ASSUME MoneyInv, TypeOK', NEW p \in Players, JoinTournament(p)
  PROVE  MoneyInv'
<1>1. status = "Registration" /\ status' = "Registration" /\ incarnation' = incarnation
  BY DEF JoinTournament
<1>2. incarnation > 0
  BY <1>1 DEF MoneyInv, TypeOK, UnbornIsEmpty
<1>4. /\ participant'[p].account = "Open" /\ participant'[p].refund_paid = FALSE
      /\ \A q \in Players \ {p} : participant'[q] = participant[q]
      /\ vault' = vault + EntryFee
  BY JoinAddsADebt DEF MoneyInv
<1>5. Unrefunded' = Unrefunded \cup {p} /\ p \notin Unrefunded
  BY JoinAddsADebt DEF MoneyInv
<1>6. Cardinality(Unrefunded') = Cardinality(Unrefunded) + 1
  BY JoinAddsADebt DEF MoneyInv
<1>7. DepositHeld' = DepositHeld
  BY JoinAddsADebt DEF MoneyInv
<1>8. VaultAccounting'
  <2>1. vault = DepositHeld + EntryFee * Cardinality(Unrefunded)
    BY <1>1 DEF MoneyInv, VaultAccounting
  <2>2. vault' = vault + EntryFee
    BY DEF JoinTournament
  <2>3. EntryFee * (Cardinality(Unrefunded) + 1) = EntryFee * Cardinality(Unrefunded) + EntryFee
    BY UnrefundedFinite, ParametersAssumption, TimesDifference
  <2>4. DepositHeld \in Int /\ EntryFee \in Int /\ EntryFee * Cardinality(Unrefunded) \in Int
    BY UnrefundedFinite, ParametersAssumption, TimesDifference DEF DepositHeld
  <2>5. vault' = DepositHeld + EntryFee * (Cardinality(Unrefunded) + 1)
    BY <2>1, <2>2, <2>3, <2>4
  <2>6. QED  BY <1>1, <1>6, <1>7, <2>5 DEF VaultAccounting
<1>9. RefundsMakeWhole'
  <2>1. wallet' = [wallet EXCEPT ![p] = @ - EntryFee]
    BY DEF JoinTournament
  <2>2. \A w \in Wallets : wallet[w] = -Stake(w)
    BY <1>1 DEF MoneyInv, RefundsMakeWhole
  <2>3. \A w \in Wallets : Stake(w)' = Stake(w) + (IF w = p THEN EntryFee ELSE 0)
    BY <1>1, <1>2, <1>5, <1>7, ParametersAssumption DEF Stake, DepositHeld
  <2>4. \A w \in Wallets : Stake(w) \in Int
    BY ParametersAssumption DEF Stake, DepositHeld
  <2>5. \A w \in Wallets : wallet'[w] = -(Stake(w)')
    BY <2>1, <2>2, <2>3, <2>4, ParametersAssumption DEF MoneyInv, TypeOK
  <2>6. QED  BY <2>5 DEF RefundsMakeWhole
<1>10. UnbornIsEmpty'
  BY <1>1, <1>2 DEF UnbornIsEmpty, MoneyInv, TypeOK
<1>11. NobodyClosedEarly'
  BY <1>1, <1>4 DEF MoneyInv, NobodyClosedEarly, OpenStatus
<1>12. QED  BY <1>8, <1>9, <1>10, <1>11 DEF MoneyInv

(***************************************************************************)
(* Refunds: the fees owed shrink by one per entrant paid, the deposit owed *)
(* by what is paid of it, and the vault by both.                           *)
(***************************************************************************)
LEMMA RefundSettlesDebts ==
  ASSUME TypeOK, NEW chunk \in SUBSET Players, NEW withDeposit \in BOOLEAN,
         RefundChunk(chunk, withDeposit)
  PROVE  LET unpaid == Unpaid(chunk)
             deposit == DepositDue(withDeposit)
         IN  /\ vault' = vault - (deposit + EntryFee * Cardinality(unpaid))
             /\ wallet' = [w \in Wallets |-> wallet[w] + (IF w = Organizer THEN deposit ELSE 0)
                                                + (IF w \in unpaid THEN EntryFee ELSE 0)]
             /\ unpaid \subseteq Unrefunded /\ Unrefunded' = Unrefunded \ unpaid
             /\ deposit \in Int /\ DepositHeld' = DepositHeld - deposit
             /\ Cardinality(Unrefunded') = Cardinality(Unrefunded) - Cardinality(unpaid)
             /\ Cardinality(unpaid) \in Nat
<1> DEFINE unpaid == Unpaid(chunk)
           deposit == DepositDue(withDeposit)
<1>1. /\ chunk \subseteq OpenParticipants
      /\ vault' = vault - (deposit + EntryFee * Cardinality(unpaid))
      /\ wallet' = [w \in Wallets |-> wallet[w] + (IF w = Organizer THEN deposit ELSE 0)
                                                + (IF w \in unpaid THEN EntryFee ELSE 0)]
      /\ organizer_deposit_refunded' = (organizer_deposit_refunded \/ deposit > 0)
      /\ participant' = [p \in Players |->
             IF p \in unpaid THEN [participant[p] EXCEPT !.refund_paid = TRUE]
             ELSE participant[p]]
  BY Zenon DEF RefundChunk
<1>2. unpaid \subseteq Unrefunded
  BY <1>1 DEF Unpaid, OpenParticipants, Unrefunded
<1>3. deposit \in Int /\ DepositHeld' = DepositHeld - deposit
  <2>1. CASE withDeposit /\ ~organizer_deposit_refunded
    <3>1. deposit = OrganizerDeposit /\ DepositHeld = OrganizerDeposit
      BY <2>1 DEF DepositDue, DepositHeld
    <3>2. DepositHeld' = IF OrganizerDeposit > 0 THEN 0 ELSE OrganizerDeposit
      BY <1>1, <2>1, <3>1 DEF DepositHeld
    <3>3. QED  BY <3>1, <3>2, ParametersAssumption
  <2>2. CASE ~(withDeposit /\ ~organizer_deposit_refunded)
    <3>1. deposit = 0  BY <2>2, Zenon DEF DepositDue
    <3>2. DepositHeld' = DepositHeld  BY <1>1, <3>1 DEF DepositHeld, TypeOK
    <3>3. DepositHeld \in Int  BY ParametersAssumption DEF DepositHeld
    <3>4. QED  BY <3>1, <3>2, <3>3
  <2>3. QED  BY <2>1, <2>2
<1> HIDE DEF unpaid, deposit
<1>4. Unrefunded' = Unrefunded \ unpaid
  <2>1. \A p \in Players :
          /\ participant'[p].account = participant[p].account
          /\ participant'[p].refund_paid = (participant[p].refund_paid \/ p \in unpaid)
    BY <1>1 DEF TypeOK, Participant
  <2>2. QED  BY <2>1 DEF Unrefunded
<1>5. /\ Cardinality(Unrefunded') = Cardinality(Unrefunded) - Cardinality(unpaid)
      /\ Cardinality(unpaid) \in Nat
  <2>1. Unrefunded \cap unpaid = unpaid  BY <1>2
  <2>2. IsFiniteSet(unpaid)  BY <1>2, UnrefundedFinite, FS_Subset
  <2>3. Cardinality(Unrefunded \ unpaid) = Cardinality(Unrefunded) - Cardinality(Unrefunded \cap unpaid)
    BY UnrefundedFinite, FS_Difference
  <2>4. Cardinality(unpaid) \in Nat  BY <2>2, FS_CardinalityType
  <2>5. Cardinality(Unrefunded') = Cardinality(Unrefunded \ unpaid)  BY <1>4
  <2>6. QED  BY <2>1, <2>3, <2>4, <2>5
<1>6. QED  BY <1>1, <1>2, <1>3, <1>4, <1>5 DEF unpaid, deposit

\* A refund: what leaves the vault is exactly what is no longer owed.
LEMMA RefundMoney ==
  ASSUME MoneyInv, TypeOK', NEW chunk \in SUBSET Players, NEW withDeposit \in BOOLEAN,
         RefundChunk(chunk, withDeposit), UNCHANGED incarnation,
         status \in OpenStatus \cup {"Cancelled", "PartialCancelled"},
         status' \in {"Cancelled", "PartialCancelled"}
  PROVE  MoneyInv'
<1> DEFINE unpaid == Unpaid(chunk)
           deposit == DepositDue(withDeposit)
<1>1. /\ vault' = vault - (deposit + EntryFee * Cardinality(unpaid))
      /\ wallet' = [w \in Wallets |-> wallet[w] + (IF w = Organizer THEN deposit ELSE 0)
                                                + (IF w \in unpaid THEN EntryFee ELSE 0)]
      /\ unpaid \subseteq Unrefunded /\ Unrefunded' = Unrefunded \ unpaid
      /\ deposit \in Int /\ DepositHeld' = DepositHeld - deposit
      /\ Cardinality(Unrefunded') = Cardinality(Unrefunded) - Cardinality(unpaid)
      /\ Cardinality(unpaid) \in Nat
  BY RefundSettlesDebts DEF MoneyInv
<1> HIDE DEF unpaid, deposit
<1>6. VaultAccounting'
  <2>1. vault = DepositHeld + EntryFee * Cardinality(Unrefunded)
    BY DEF MoneyInv, VaultAccounting, OpenStatus
  <2>2. EntryFee * (Cardinality(Unrefunded) - Cardinality(unpaid))
          = EntryFee * Cardinality(Unrefunded) - EntryFee * Cardinality(unpaid)
    BY <1>1, UnrefundedFinite, ParametersAssumption, TimesDifference
  <2>3. /\ EntryFee * Cardinality(Unrefunded) \in Int
        /\ EntryFee * Cardinality(unpaid) \in Int
        /\ DepositHeld \in Int
    BY <1>1, UnrefundedFinite, ParametersAssumption, TimesDifference DEF DepositHeld
  <2>4. vault' = (DepositHeld - deposit)
                   + EntryFee * (Cardinality(Unrefunded) - Cardinality(unpaid))
    BY <1>1, <2>1, <2>2, <2>3
  <2>5. QED  BY <1>1, <2>4 DEF VaultAccounting
<1>7. RefundsMakeWhole'
  <2>1. incarnation > 0 /\ incarnation' = incarnation
    BY DEF MoneyInv, TypeOK, UnbornIsEmpty, OpenStatus
  <2>2. \A w \in Wallets : wallet[w] = -Stake(w)
    BY DEF MoneyInv, RefundsMakeWhole, OpenStatus
  <2>3. DepositHeld \in Int  BY ParametersAssumption DEF DepositHeld
  <2>4. ASSUME NEW w \in Wallets
        PROVE  Stake(w)' = Stake(w) - (IF w = Organizer THEN deposit ELSE 0)
                                    - (IF w \in unpaid THEN EntryFee ELSE 0)
    BY <1>1, <2>1, <2>3, ParametersAssumption DEF Stake
  <2>5. \A w \in Wallets : Stake(w) \in Int
    BY <2>3, ParametersAssumption DEF Stake
  <2>6. \A w \in Wallets : wallet'[w] = -(Stake(w)')
    BY <1>1, <2>2, <2>4, <2>5, ParametersAssumption
  <2>7. QED  BY <2>6 DEF RefundsMakeWhole
<1>8. UnbornIsEmpty'
  BY DEF MoneyInv, TypeOK, UnbornIsEmpty, OpenStatus
<1>9. NobodyClosedEarly'
  BY DEF NobodyClosedEarly, OpenStatus
<1>10. QED  BY <1>6, <1>7, <1>8, <1>9 DEF MoneyInv

\* close_tournament: closing an account forgets nothing of what was owed.
LEMMA CloseForgetsNothing ==
  ASSUME TypeOK, NEW players \in SUBSET Players, NEW nodes, NEW closeRoot,
         CloseTournament(players, nodes, closeRoot)
  PROVE  /\ status \in TerminalStatus
         /\ UNCHANGED <<vault, wallet, organizer_deposit_refunded, incarnation>>
         /\ Unrefunded' = Unrefunded /\ DepositHeld' = DepositHeld
<1>1. /\ status \in TerminalStatus
      /\ UNCHANGED <<vault, wallet, organizer_deposit_refunded, incarnation>>
  BY DEF CloseTournament, money
<1>2. players \subseteq OpenParticipants
      /\ participant' = [p \in Players |->
             IF p \in players THEN [participant[p] EXCEPT !.account = "Closed"]
             ELSE participant[p]]
  BY DEF CloseTournament, CloseChildren
<1>3. Unrefunded' = Unrefunded
  <2>1. \A p \in Players :
          /\ participant'[p].refund_paid = participant[p].refund_paid
          /\ (participant'[p].account = "Absent") <=> (participant[p].account = "Absent")
    BY <1>2 DEF TypeOK, Participant, OpenParticipants
  <2>2. QED  BY <2>1 DEF Unrefunded
<1>4. DepositHeld' = DepositHeld  BY <1>1 DEF DepositHeld
<1>5. QED  BY <1>1, <1>3, <1>4

LEMMA CloseMoney ==
  ASSUME MoneyInv, TypeOK', NEW players \in SUBSET Players, NEW nodes, NEW closeRoot,
         CloseTournament(players, nodes, closeRoot)
  PROVE  MoneyInv'
<1>1. /\ status \in TerminalStatus
      /\ UNCHANGED <<vault, wallet, organizer_deposit_refunded, incarnation>>
  BY CloseForgetsNothing DEF MoneyInv
<1>3. Unrefunded' = Unrefunded  BY CloseForgetsNothing DEF MoneyInv
<1>4. DepositHeld' = DepositHeld  BY CloseForgetsNothing DEF MoneyInv
<1>5. incarnation > 0
  BY <1>1 DEF MoneyInv, TypeOK, UnbornIsEmpty, TerminalStatus
<1>6. UnbornIsEmpty'
  BY <1>1, <1>5 DEF UnbornIsEmpty, MoneyInv, TypeOK
<1>7. CASE status' = "None" /\ vault = 0
  BY <1>1, <1>6, <1>7
  DEF MoneyInv, VaultAccounting, RefundsMakeWhole, NobodyClosedEarly, OpenStatus
<1>8. CASE status' = status
  <2>1. VaultAccounting'
    BY <1>1, <1>3, <1>4, <1>8 DEF MoneyInv, VaultAccounting
  <2>2. \A w \in Wallets : Stake(w)' = Stake(w)
    BY <1>1, <1>3, <1>4 DEF Stake
  <2>3. RefundsMakeWhole'
    BY <1>1, <1>8, <2>2 DEF MoneyInv, RefundsMakeWhole
  <2>4. NobodyClosedEarly'
    BY <1>1, <1>8 DEF NobodyClosedEarly, OpenStatus, TerminalStatus
  <2>5. QED  BY <1>6, <2>1, <2>3, <2>4 DEF MoneyInv
<1>9. QED  BY <1>7, <1>8 DEF CloseTournament, NoTournament

(***************************************************************************)
(* The instructions that move no money                                     *)
(***************************************************************************)
LEMMA BracketMoney ==
  ASSUME MoneyInv, TypeOK',
         \/ Tick
         \/ RequestSeed
         \/ \E seed \in Seeds : RevealSeed(seed)
         \/ \E ids \in SUBSET Matches, size \in PowersOfTwo, seed \in Seeds :
               StartTournament(ids, size, seed)
         \/ PartialCancelTournament
  PROVE  MoneyInv'
<1>1. UNCHANGED <<money, participant, incarnation>>
  BY DEF Tick, RequestSeed, RevealSeed, StartTournament, PartialCancelTournament
<1>2. status' # status =>
        /\ status \in OpenStatus
        /\ status' \in OpenStatus \cup {"PartialCancelled"}
  BY DEF Tick, RequestSeed, RevealSeed, StartTournament, DrawBracket,
         PartialCancelTournament, OpenStatus
<1>3. QuietStep
  BY <1>1, <1>2 DEF QuietStep, money
<1>4. QED  BY <1>3, QuietKeepsMoney

LEMMA EnvelopeMoney ==
  ASSUME MoneyInv, TypeOK', UNCHANGED <<tournament, money, participant, incarnation>>
  PROVE  MoneyInv'
<1>1. QuietStep
  BY DEF QuietStep, money, tournament
<1>2. QED  BY <1>1, QuietKeepsMoney

\* finalize_match: a result that is not the final moves no money, and the final
\* moves it all.  The stats of the two players are neither debts nor payments.
LEMMA FinalizeMoney ==
  ASSUME MoneyInv, TypeOK', NEW m \in Matches, NEW winner, NEW trusted, NEW signer,
         FinalizeMatch(m, winner, trusted, signer),
         \A p \in Players : /\ participant'[p].account = participant[p].account
                            /\ participant'[p].refund_paid = participant[p].refund_paid
  PROVE  MoneyInv'
<1>1. /\ status = "Active"
      /\ UNCHANGED <<organizer_deposit_refunded, incarnation>>
  BY DEF FinalizeMatch, Playable
<1>2. CASE AdvanceWinner(m, winner)
  <2>1. QuietStep
    BY <1>1, <1>2 DEF QuietStep, AdvanceWinner
  <2>2. QED  BY <2>1, QuietKeepsMoney
<1>3. CASE CompleteTournament(m, winner, trusted)
  <2>1. status' = "Completed"  BY <1>3 DEF CompleteTournament
  <2>2. vault' = wallet'[TournamentPda]
    BY <1>1, <1>3, FinalLeavesItsOwn DEF CompleteTournament
  <2>3. incarnation' # 0
    BY <1>1 DEF MoneyInv, UnbornIsEmpty
  <2>4. QED
    BY <2>1, <2>2, <2>3
    DEF MoneyInv, UnbornIsEmpty, NobodyClosedEarly, OpenStatus, VaultAccounting, RefundsMakeWhole
<1>4. QED  BY <1>2, <1>3 DEF FinalizeMatch

LEMMA SettleMoney ==
  ASSUME MoneyInv, TypeOK', NEW m \in Matches, NEW winner, NEW trusted, NEW signer,
         Settle(m, winner, trusted, signer)
  PROVE  MoneyInv'
<1>1. \A p \in Players : /\ participant'[p].account = participant[p].account
                         /\ participant'[p].refund_paid = participant[p].refund_paid
  BY DEF Settle, CreditMatchStats, MoneyInv, TypeOK, Participant
<1>2. QED  BY <1>1, FinalizeMoney DEF Settle

LEMMA SettlementMoney ==
  ASSUME MoneyInv, TypeOK', NEW m \in Matches, SettlementStep(m)
  PROVE  MoneyInv'
<1>1. CASE \E w \in Wallets : ReportResult(m, w)
  BY <1>1, FinalizeMoney DEF ReportResult
<1>2. CASE \/ \E p \in Players : ConfirmResult(m, p)
           \/ \E w \in Players : ResolveDispute(m, w)
           \/ ClaimResult(m) \/ ForceClaimDisputed(m) \/ SettleFinal(m)
  BY <1>2, SettleMoney
  DEF ConfirmResult, ResolveDispute, ClaimResult, ForceClaimDisputed, SettleFinal
<1>3. CASE \/ \E p, w \in Players : ProposeResult(m, p, w)
           \/ \E relayer \in Signers, value \in FeedValues :
                 ProposeResultOracle(m, relayer, value)
  <2>1. UNCHANGED <<tournament, money, participant, incarnation>>
    BY <1>3 DEF ProposeResult, ProposeResultOracle, Propose
  <2>2. QED  BY <2>1, EnvelopeMoney
<1>4. CASE (\E w \in Signers : DisputeResult(m, w)) \/ CommitMatchLobby(m) \/ BindMatchFeed(m)
  <2>1. UNCHANGED <<tournament, money, participant, incarnation>>
    BY <1>4 DEF DisputeResult, CommitMatchLobby, BindMatchFeed
  <2>2. QED  BY <2>1, EnvelopeMoney
<1>5. QED  BY <1>1, <1>2, <1>3, <1>4 DEF SettlementStep

LEMMA LifecycleMoney ==
  ASSUME MaxIncarnations <= 1, MoneyInv, TypeOK', LifecycleStep
  PROVE  MoneyInv'
<1>1. CASE \E mode \in Modes, preset \in Presets : CreateTournament(mode, preset)
  BY <1>1, CreateMoney
<1>2. CASE \E p \in Players : JoinTournament(p)
  BY <1>2, JoinMoney
<1>3. CASE \/ RequestSeed
           \/ \E seed \in Seeds : RevealSeed(seed)
           \/ \E ids \in SUBSET Matches, size \in PowersOfTwo, seed \in Seeds :
                 StartTournament(ids, size, seed)
           \/ PartialCancelTournament
  BY <1>3, BracketMoney
<1>4. ASSUME NEW chunk \in SUBSET Players, NEW withDeposit \in BOOLEAN,
             \/ \E caller \in {Organizer, Relayer} : CancelTournament(caller, chunk, withDeposit)
             \/ PartialRefundChunk(chunk, withDeposit)
      PROVE  MoneyInv'
  <2>1. /\ RefundChunk(chunk, withDeposit) /\ incarnation' = incarnation
        /\ status \in OpenStatus \cup {"Cancelled", "PartialCancelled"}
        /\ status' \in {"Cancelled", "PartialCancelled"}
    BY <1>4 DEF CancelTournament, PartialRefundChunk, tournament, OpenStatus
  <2>2. QED  BY <2>1, RefundMoney
<1>5. CASE \E players \in SUBSET Players :
             /\ Cardinality(players) <= MaxCloseChunk
             /\ \E nodes \in SUBSET Matches, closeRoot \in BOOLEAN :
                   CloseTournament(players, nodes, closeRoot)
  BY <1>5, CloseMoney
<1>6. QED  BY <1>1, <1>2, <1>3, <1>4, <1>5 DEF LifecycleStep

(***************************************************************************)
(* The books hold whatever the signers send and in whatever order, for     *)
(* every fee, deposit, preset and field of players, as long as the PDA is  *)
(* created once.                                                           *)
(***************************************************************************)
THEOREM MoneyInvariant ==
  ASSUME MaxIncarnations <= 1
  PROVE  Spec => []MoneyInv
<1>1. Init => MoneyInv
  BY InitMoney
<1>2. MoneyInv /\ TypeOK' /\ [Next]_vars => MoneyInv'
  <2> SUFFICES ASSUME MoneyInv, TypeOK', [Next]_vars  PROVE MoneyInv'
    OBVIOUS
  <2>1. CASE Tick  BY <2>1, BracketMoney
  <2>2. CASE LifecycleStep  BY <2>2, LifecycleMoney
  <2>3. CASE \E m \in Matches : SettlementStep(m)  BY <2>3, SettlementMoney
  <2>4. CASE UNCHANGED vars
    <3>1. UNCHANGED <<tournament, money, participant, incarnation>>  BY <2>4 DEF vars
    <3>2. QED  BY <3>1, EnvelopeMoney
  <2>5. QED  BY <2>1, <2>2, <2>3, <2>4 DEF Next
<1>3. QED  BY <1>1, <1>2, TypeCorrect, PTL DEF Spec

(***************************************************************************)
(* Until the prizes are paid the vault holds the deposit and the fees not  *)
(* yet given back, and no token besides; after that what was made out to   *)
(* the vault itself, whoever the lower places were given to.               *)
(***************************************************************************)
THEOREM VaultIsAccounted ==
  ASSUME MaxIncarnations <= 1
  PROVE  Spec => []VaultAccounting
<1>1. MoneyInv => VaultAccounting  BY DEF MoneyInv
<1>2. QED  BY <1>1, MoneyInvariant, PTL

(***************************************************************************)
(* While no prizes are paid, every wallet is short of its own stake and of *)
(* nothing else: a refund makes whole and enriches nobody.                 *)
(***************************************************************************)
THEOREM RefundsAreExact ==
  ASSUME MaxIncarnations <= 1
  PROVE  Spec => []RefundsMakeWhole
<1>1. MoneyInv => RefundsMakeWhole  BY DEF MoneyInv
<1>2. QED  BY <1>1, MoneyInvariant, PTL

(***************************************************************************)
(*                              The escrow                                 *)
(*                                                                         *)
(* BracketChain implements Escrow: each instruction is an escrow step or   *)
(* none.  Besides the books above the mapping needs that nothing is marked *)
(* as refunded before it was paid in.                                      *)
(***************************************************************************)
NothingRefundedUnpaid ==
    /\ incarnation = 0 => organizer_deposit_refunded = FALSE
    /\ \A p \in Players :
         participant[p].account = "Absent" => participant[p].refund_paid = FALSE

EscrowInv == MoneyInv /\ NothingRefundedUnpaid

\* The entrants Escrow sees.
PaidIn == {p \in Players : participant[p].account # "Absent"}
PaidBack == {p \in Players : participant[p].refund_paid}

EscrowStep == [EscrowView!Next]_(EscrowView!vars)

\* Escrow counts with an instance of FiniteSets of its own.
LEMMA SameCardinality ==
  ASSUME NEW S
  PROVE  EscrowView!Cardinality(S) = Cardinality(S)
BY Zenon DEF EscrowView!Cardinality, Cardinality

(***************************************************************************)
(* NothingRefundedUnpaid is preserved.                                     *)
(***************************************************************************)
\* No step but create, join, refund and close touches accounts or flags.
LEMMA QuietUnpaid ==
  ASSUME NothingRefundedUnpaid, QuietStep
  PROVE  NothingRefundedUnpaid'
BY DEF NothingRefundedUnpaid, QuietStep

LEMMA QuietEscrow ==
  ASSUME EscrowInv, QuietStep
  PROVE  EscrowStep /\ NothingRefundedUnpaid'
<1>1. NothingRefundedUnpaid'
  BY QuietUnpaid DEF EscrowInv
<1>2. PaidIn' = PaidIn /\ PaidBack' = PaidBack
  BY DEF QuietStep, PaidIn, PaidBack
<1>3. CASE status' = status
  <2>1. EscrowPhase' = EscrowPhase
    BY <1>3 DEF EscrowPhase, QuietStep
  <2>2. UNCHANGED EscrowView!vars
    BY <1>2, <2>1 DEF EscrowView!vars, QuietStep, PaidIn, PaidBack
  <2>3. QED  BY <1>1, <2>2 DEF EscrowStep
<1>4. CASE status' # status /\ status' \in OpenStatus
  <2>1. EscrowPhase = "Open" /\ EscrowPhase' = "Open"
    BY <1>4 DEF EscrowPhase, QuietStep, OpenStatus
  <2>2. UNCHANGED EscrowView!vars
    BY <1>2, <2>1 DEF EscrowView!vars, QuietStep, PaidIn, PaidBack
  <2>3. QED  BY <1>1, <2>2 DEF EscrowStep
<1>5. CASE status' # status /\ status' \in {"Cancelled", "PartialCancelled"}
  <2>1. EscrowPhase = "Open" /\ EscrowPhase' = "Refunding"
    BY <1>5 DEF EscrowPhase, QuietStep, OpenStatus
  <2>2. vault' = vault - EntryFee * EscrowView!Cardinality({}) - 0
    <3>1. Cardinality({}) = 0 /\ EntryFee * 0 = 0 /\ vault \in Int
      BY FS_EmptySet, ParametersAssumption DEF EscrowInv, MoneyInv, TypeOK
    <3>2. QED  BY <3>1, SameCardinality DEF QuietStep
  <2>3. EscrowView!Refund({}, FALSE)
    BY <1>2, <2>1, <2>2 DEF EscrowView!Refund, QuietStep, PaidIn, PaidBack, EscrowInv, MoneyInv, TypeOK
  <2>4. EscrowView!Next  BY <2>3 DEF EscrowView!Next
  <2>5. QED  BY <1>1, <2>4 DEF EscrowStep
<1>6. QED  BY <1>3, <1>4, <1>5 DEF QuietStep

\* create_tournament opens the escrow with the deposit.
LEMMA CreateEscrow ==
  ASSUME MaxIncarnations <= 1, EscrowInv,
         NEW mode, NEW preset, CreateTournament(mode, preset)
  PROVE  EscrowStep /\ NothingRefundedUnpaid'
<1>1. incarnation = 0 /\ incarnation' = 1
  BY ParametersAssumption DEF EscrowInv, MoneyInv, TypeOK, CreateTournament
<1>2. \A p \in Players : /\ participant[p].account = "Absent"
                         /\ participant[p].refund_paid = FALSE
  BY <1>1 DEF EscrowInv, MoneyInv, UnbornIsEmpty, NothingRefundedUnpaid
<1>3. \A p \in Players : /\ participant'[p].account = "Absent"
                         /\ participant'[p].refund_paid = FALSE
  BY <1>2 DEF CreateTournament, NoParticipant
<1>4. PaidIn = {} /\ PaidIn' = {} /\ PaidBack = {} /\ PaidBack' = {}
  BY <1>2, <1>3 DEF PaidIn, PaidBack
<1>5. EscrowPhase = "Unborn" /\ EscrowPhase' = "Open"
  BY <1>1 DEF EscrowPhase, CreateTournament
<1>6. organizer_deposit_refunded = FALSE /\ organizer_deposit_refunded' = FALSE
  BY <1>1 DEF EscrowInv, NothingRefundedUnpaid, CreateTournament
<1>7. wallet'[TournamentPda] = wallet[TournamentPda]
  BY PartiesAssumption, WalletTypes
  DEF CreateTournament, Signers, EscrowInv, MoneyInv, TypeOK
<1>8. EscrowView!Open
  BY <1>4, <1>5, <1>6, <1>7 DEF EscrowView!Open, CreateTournament, PaidIn, PaidBack
<1>9. NothingRefundedUnpaid'
  BY <1>1, <1>3 DEF NothingRefundedUnpaid
<1>10. QED  BY <1>8, <1>9 DEF EscrowStep, EscrowView!Next

\* join_tournament pays a fee in.
LEMMA JoinEscrow ==
  ASSUME EscrowInv, NEW p \in Players, JoinTournament(p)
  PROVE  EscrowStep /\ NothingRefundedUnpaid'
<1>1. /\ status = "Registration" /\ status' = "Registration"
      /\ incarnation' = incarnation
      /\ organizer_deposit_refunded' = organizer_deposit_refunded
      /\ vault' = vault + EntryFee
  BY DEF JoinTournament
<1>2. participant[p].account = "Absent" /\ participant[p].refund_paid = FALSE
  <2>1. participant[p].account \in {"Absent", "Open", "Closed"}
    BY DEF EscrowInv, MoneyInv, TypeOK, Participant
  <2>2. participant[p].account = "Absent"
    BY <1>1, <2>1 DEF EscrowInv, MoneyInv, NobodyClosedEarly, OpenStatus, JoinTournament
  <2>3. QED  BY <2>2 DEF EscrowInv, NothingRefundedUnpaid
<1>3. /\ participant'[p].account = "Open" /\ participant'[p].refund_paid = FALSE
      /\ \A q \in Players \ {p} : participant'[q] = participant[q]
  BY DEF JoinTournament, NoParticipant, EscrowInv, MoneyInv, TypeOK
<1>4. PaidIn' = PaidIn \cup {p} /\ p \notin PaidIn /\ PaidBack' = PaidBack
  BY <1>2, <1>3 DEF PaidIn, PaidBack
<1>5. EscrowPhase = "Open" /\ EscrowPhase' = "Open"
  BY <1>1 DEF EscrowPhase
<1>6. wallet'[TournamentPda] = wallet[TournamentPda]
  BY PartiesAssumption, WalletTypes
  DEF JoinTournament, Signers, EscrowInv, MoneyInv, TypeOK
<1>7. EscrowView!PayIn(p)
  BY <1>1, <1>4, <1>5, <1>6 DEF EscrowView!PayIn, PaidIn, PaidBack
<1>8. NothingRefundedUnpaid'
  BY <1>1, <1>3 DEF EscrowInv, NothingRefundedUnpaid
<1>9. QED  BY <1>7, <1>8 DEF EscrowStep, EscrowView!Next

\* A chunk of refunds gives each of its pieces back, once.
LEMMA RefundEscrow ==
  ASSUME EscrowInv, NEW chunk \in SUBSET Players, NEW withDeposit \in BOOLEAN,
         RefundChunk(chunk, withDeposit), UNCHANGED incarnation,
         status \in OpenStatus \cup {"Cancelled", "PartialCancelled"},
         status' \in {"Cancelled", "PartialCancelled"}
  PROVE  EscrowStep /\ NothingRefundedUnpaid'
<1> DEFINE unpaid == Unpaid(chunk)
           deposit == DepositDue(withDeposit)
           back == deposit > 0
<1>1. /\ chunk \subseteq OpenParticipants
      /\ vault' = vault - (deposit + EntryFee * Cardinality(unpaid))
      /\ wallet' = [w \in Wallets |-> wallet[w] + (IF w = Organizer THEN deposit ELSE 0)
                                                + (IF w \in unpaid THEN EntryFee ELSE 0)]
      /\ organizer_deposit_refunded' = (organizer_deposit_refunded \/ back)
      /\ participant' = [p \in Players |->
             IF p \in unpaid THEN [participant[p] EXCEPT !.refund_paid = TRUE]
             ELSE participant[p]]
  BY Zenon DEF RefundChunk
<1>2. unpaid \in SUBSET (PaidIn \ PaidBack)
  BY <1>1 DEF Unpaid, OpenParticipants, PaidIn, PaidBack
<1>3. /\ back \in BOOLEAN /\ deposit \in Int
      /\ deposit = IF back THEN OrganizerDeposit ELSE 0
      /\ back => ~organizer_deposit_refunded
  BY ParametersAssumption DEF DepositDue
<1> HIDE DEF unpaid, deposit, back
<1>4. \A p \in Players :
        /\ participant'[p].account = participant[p].account
        /\ participant'[p].refund_paid = (participant[p].refund_paid \/ p \in unpaid)
  BY <1>1 DEF EscrowInv, MoneyInv, TypeOK, Participant
<1>5. PaidIn' = PaidIn /\ PaidBack' = PaidBack \cup unpaid
  BY <1>2, <1>4 DEF PaidIn, PaidBack
<1>6. EscrowPhase \in {"Open", "Refunding"} /\ EscrowPhase' = "Refunding"
  BY DEF EscrowPhase, OpenStatus
<1>7. vault' = vault - EntryFee * EscrowView!Cardinality(unpaid)
                     - (IF back THEN OrganizerDeposit ELSE 0)
  <2>1. IsFiniteSet(unpaid)
    BY <1>2, PartiesAssumption, FS_Subset DEF PaidIn
  <2>2. Cardinality(unpaid) \in Int
    BY <2>1, FS_CardinalityType
  <2>3. EntryFee * Cardinality(unpaid) \in Int
    BY <2>2, ParametersAssumption, TimesDifference
  <2>4. vault \in Int  BY DEF EscrowInv, MoneyInv, TypeOK
  <2>5. vault' = vault - EntryFee * Cardinality(unpaid) - deposit
    BY <1>1, <1>3, <2>3, <2>4
  <2>6. EscrowView!Cardinality(unpaid) = Cardinality(unpaid)
    BY SameCardinality
  <2>7. QED  BY <1>3, <2>5, <2>6
<1>8. EscrowView!Refund(unpaid, back)
  <2>1. (~organizer_deposit_refunded)' = (~organizer_deposit_refunded /\ ~back)
    BY <1>1, Zenon
  <2>2. wallet'[TournamentPda] = wallet[TournamentPda]
    <3>1. TournamentPda # Organizer /\ TournamentPda \notin unpaid
      BY <1>2, PartiesAssumption DEF Signers, PaidIn
    <3>2. wallet[TournamentPda] \in Int
      BY WalletTypes DEF EscrowInv, MoneyInv, TypeOK
    <3>3. QED  BY <1>1, <3>1, <3>2, WalletTypes
  <2>3. QED
    BY <1>2, <1>3, <1>5, <1>6, <1>7, <2>1, <2>2 DEF EscrowView!Refund, PaidIn, PaidBack
<1>9. NothingRefundedUnpaid'
  <2>1. incarnation' # 0
    BY DEF EscrowInv, MoneyInv, UnbornIsEmpty, OpenStatus
  <2>2. \A p \in unpaid : participant[p].account # "Absent"
    BY <1>2 DEF PaidIn
  <2>3. QED  BY <1>4, <2>1, <2>2 DEF EscrowInv, NothingRefundedUnpaid
<1>10. unpaid \in SUBSET Players
  BY <1>2 DEF PaidIn
<1>11. EscrowView!Next
  <2>1. \E owed \in SUBSET Players, d \in BOOLEAN : EscrowView!Refund(owed, d)
    BY <1>3, <1>8, <1>10, Zenon DEF EscrowView!Refund
  <2>2. QED  BY <2>1, Zenon DEF EscrowView!Next
<1>12. QED  BY <1>9, <1>11 DEF EscrowStep

\* close_tournament dissolves an empty escrow, or changes nothing of it.
LEMMA CloseEscrow ==
  ASSUME EscrowInv, NEW players \in SUBSET Players, NEW nodes, NEW closeRoot,
         CloseTournament(players, nodes, closeRoot)
  PROVE  EscrowStep /\ NothingRefundedUnpaid'
<1>1. /\ status \in TerminalStatus
      /\ UNCHANGED <<vault, wallet, organizer_deposit_refunded, incarnation>>
  BY DEF CloseTournament, money
<1>2. players \subseteq OpenParticipants
      /\ participant' = [p \in Players |->
             IF p \in players THEN [participant[p] EXCEPT !.account = "Closed"]
             ELSE participant[p]]
  BY DEF CloseTournament, CloseChildren
<1>3. \A p \in Players :
        /\ participant'[p].refund_paid = participant[p].refund_paid
        /\ (participant'[p].account = "Absent") <=> (participant[p].account = "Absent")
  BY <1>2 DEF EscrowInv, MoneyInv, TypeOK, Participant, OpenParticipants
<1>4. PaidIn' = PaidIn /\ PaidBack' = PaidBack
  BY <1>3 DEF PaidIn, PaidBack
<1>5. NothingRefundedUnpaid'
  BY <1>1, <1>3 DEF EscrowInv, NothingRefundedUnpaid
<1>6. CASE status' = "None" /\ vault = 0
  <2>1. incarnation # 0
    BY <1>1 DEF EscrowInv, MoneyInv, UnbornIsEmpty, TerminalStatus
  <2>2. EscrowPhase \in {"Refunding", "PaidOut"} /\ EscrowPhase' = "Gone"
    BY <1>1, <1>6, <2>1 DEF EscrowPhase, TerminalStatus
  <2>3. EscrowView!Dissolve
    BY <1>1, <1>4, <1>6, <2>2 DEF EscrowView!Dissolve, PaidIn, PaidBack
  <2>4. QED  BY <1>5, <2>3 DEF EscrowStep, EscrowView!Next
<1>7. CASE status' = status
  <2>1. EscrowPhase' = EscrowPhase  BY <1>1, <1>7 DEF EscrowPhase
  <2>2. UNCHANGED EscrowView!vars
    BY <1>1, <1>4, <2>1 DEF EscrowView!vars, PaidIn, PaidBack
  <2>3. QED  BY <1>5, <2>2 DEF EscrowStep
<1>8. QED  BY <1>6, <1>7 DEF CloseTournament, NoTournament

\* finalize_match: the final pays the escrow out, any other match leaves it alone.
LEMMA FinalizeEscrow ==
  ASSUME EscrowInv, NEW m \in Matches, NEW winner, NEW trusted, NEW signer,
         FinalizeMatch(m, winner, trusted, signer),
         \A p \in Players : /\ participant'[p].account = participant[p].account
                            /\ participant'[p].refund_paid = participant[p].refund_paid
  PROVE  EscrowStep /\ NothingRefundedUnpaid'
<1>1. /\ status = "Active"
      /\ UNCHANGED <<organizer_deposit_refunded, incarnation>>
  BY DEF FinalizeMatch, Playable
<1>2. CASE AdvanceWinner(m, winner)
  <2>1. QuietStep
    BY <1>1, <1>2 DEF QuietStep, AdvanceWinner
  <2>2. QED  BY <2>1, QuietEscrow
<1>3. CASE CompleteTournament(m, winner, trusted)
  <2>1. vault' = wallet'[TournamentPda] /\ vault' \in 0..vault
    BY <1>1, <1>3, FinalLeavesItsOwn DEF CompleteTournament, EscrowInv
  <2>2. EscrowPhase = "Open" /\ EscrowPhase' = "PaidOut"
    BY <1>1, <1>3 DEF EscrowPhase, CompleteTournament
  <2>3. PaidIn' = PaidIn /\ PaidBack' = PaidBack
    BY DEF PaidIn, PaidBack
  <2>4. EscrowView!PayOut
    BY <1>1, <2>1, <2>2, <2>3 DEF EscrowView!PayOut, PaidIn, PaidBack
  <2>5. NothingRefundedUnpaid'
    BY <1>1 DEF EscrowInv, NothingRefundedUnpaid
  <2>6. QED  BY <2>4, <2>5 DEF EscrowStep, EscrowView!Next
<1>4. QED  BY <1>2, <1>3 DEF FinalizeMatch

LEMMA SettleEscrow ==
  ASSUME EscrowInv, NEW m \in Matches, NEW winner, NEW trusted, NEW signer,
         Settle(m, winner, trusted, signer)
  PROVE  EscrowStep /\ NothingRefundedUnpaid'
<1>1. \A p \in Players : /\ participant'[p].account = participant[p].account
                         /\ participant'[p].refund_paid = participant[p].refund_paid
  BY DEF Settle, CreditMatchStats, EscrowInv, MoneyInv, TypeOK, Participant
<1>2. QED  BY <1>1, FinalizeEscrow DEF Settle

LEMMA LifecycleEscrow ==
  ASSUME MaxIncarnations <= 1, EscrowInv, LifecycleStep
  PROVE  EscrowStep /\ NothingRefundedUnpaid'
<1>1. CASE \E mode \in Modes, preset \in Presets : CreateTournament(mode, preset)
  BY <1>1, CreateEscrow
<1>2. CASE \E p \in Players : JoinTournament(p)
  BY <1>2, JoinEscrow
<1>3. CASE \/ RequestSeed
           \/ \E seed \in Seeds : RevealSeed(seed)
           \/ \E ids \in SUBSET Matches, size \in PowersOfTwo, seed \in Seeds :
                 StartTournament(ids, size, seed)
           \/ PartialCancelTournament
  <2>1. UNCHANGED <<money, participant, incarnation>>
    BY <1>3 DEF RequestSeed, RevealSeed, StartTournament, PartialCancelTournament
  <2>2. status' # status =>
          /\ status \in OpenStatus
          /\ status' \in OpenStatus \cup {"PartialCancelled"}
    BY <1>3 DEF RequestSeed, RevealSeed, StartTournament, DrawBracket,
                PartialCancelTournament, OpenStatus
  <2>3. QuietStep  BY <2>1, <2>2 DEF QuietStep, money
  <2>4. QED  BY <2>3, QuietEscrow
<1>4. ASSUME NEW chunk \in SUBSET Players, NEW withDeposit \in BOOLEAN,
             \/ \E caller \in {Organizer, Relayer} : CancelTournament(caller, chunk, withDeposit)
             \/ PartialRefundChunk(chunk, withDeposit)
      PROVE  EscrowStep /\ NothingRefundedUnpaid'
  <2>1. /\ RefundChunk(chunk, withDeposit) /\ incarnation' = incarnation
        /\ status \in OpenStatus \cup {"Cancelled", "PartialCancelled"}
        /\ status' \in {"Cancelled", "PartialCancelled"}
    BY <1>4 DEF CancelTournament, PartialRefundChunk, tournament, OpenStatus
  <2>2. QED  BY <2>1, RefundEscrow
<1>5. CASE \E players \in SUBSET Players :
             /\ Cardinality(players) <= MaxCloseChunk
             /\ \E nodes \in SUBSET Matches, closeRoot \in BOOLEAN :
                   CloseTournament(players, nodes, closeRoot)
  BY <1>5, CloseEscrow
<1>6. QED  BY <1>1, <1>2, <1>3, <1>4, <1>5 DEF LifecycleStep

LEMMA SettlementEscrow ==
  ASSUME EscrowInv, NEW m \in Matches, SettlementStep(m)
  PROVE  EscrowStep /\ NothingRefundedUnpaid'
<1>1. CASE \E w \in Wallets : ReportResult(m, w)
  BY <1>1, FinalizeEscrow DEF ReportResult
<1>2. CASE \/ \E p \in Players : ConfirmResult(m, p)
           \/ \E w \in Players : ResolveDispute(m, w)
           \/ ClaimResult(m) \/ ForceClaimDisputed(m) \/ SettleFinal(m)
  BY <1>2, SettleEscrow
  DEF ConfirmResult, ResolveDispute, ClaimResult, ForceClaimDisputed, SettleFinal
<1>3. CASE \/ \E p, w \in Players : ProposeResult(m, p, w)
           \/ \E w \in Signers : DisputeResult(m, w)
           \/ CommitMatchLobby(m) \/ BindMatchFeed(m)
           \/ \E relayer \in Signers, value \in FeedValues :
                 ProposeResultOracle(m, relayer, value)
  <2>1. UNCHANGED <<tournament, money, participant, incarnation>>
    BY <1>3 DEF ProposeResult, ProposeResultOracle, Propose, DisputeResult,
                CommitMatchLobby, BindMatchFeed
  <2>2. QuietStep  BY <2>1 DEF QuietStep, money, tournament
  <2>3. QED  BY <2>2, QuietEscrow
<1>4. QED  BY <1>1, <1>2, <1>3 DEF SettlementStep

(***************************************************************************)
(* The vault of a tournament keeps the promise of Escrow: whatever the     *)
(* signers send and in whatever order, it goes out whole as prizes, but    *)
(* for a prize made out to the vault itself, or piece by piece, each piece *)
(* once, to those who paid it in, and its account goes only when it is     *)
(* empty.  As long as the PDA is created once.                             *)
(***************************************************************************)
THEOREM VaultIsAnEscrow ==
  ASSUME MaxIncarnations <= 1
  PROVE  Spec => ImplementsEscrow
<1>1. Init => EscrowView!Init /\ NothingRefundedUnpaid
  <2> SUFFICES ASSUME Init  PROVE EscrowView!Init /\ NothingRefundedUnpaid
    OBVIOUS
  <2>1. \A p \in Players : /\ participant[p].account = "Absent"
                           /\ participant[p].refund_paid = FALSE
    BY DEF Init, NoParticipant
  <2>2. PaidIn = {} /\ PaidBack = {}  BY <2>1 DEF PaidIn, PaidBack
  <2>3. EscrowPhase = "Unborn"  BY DEF Init, EscrowPhase
  <2>4. EscrowView!Init
    BY <2>2, <2>3, WalletTypes DEF EscrowView!Init, Init, PaidIn, PaidBack
  <2>5. QED  BY <2>1, <2>4 DEF NothingRefundedUnpaid, Init
<1>2. MoneyInv /\ NothingRefundedUnpaid /\ [Next]_vars
        => EscrowStep /\ NothingRefundedUnpaid'
  <2> SUFFICES ASSUME MoneyInv, NothingRefundedUnpaid, [Next]_vars
               PROVE  EscrowStep /\ NothingRefundedUnpaid'
    OBVIOUS
  <2>1. EscrowInv  BY DEF EscrowInv
  <2>2. CASE Tick \/ UNCHANGED vars
    <3>1. UNCHANGED <<status, money, participant, incarnation>>
      BY <2>2 DEF Tick, vars, tournament
    <3>2. QuietStep  BY <3>1 DEF QuietStep, money
    <3>3. QED  BY <2>1, <3>2, QuietEscrow
  <2>3. CASE LifecycleStep  BY <2>1, <2>3, LifecycleEscrow
  <2>4. CASE \E m \in Matches : SettlementStep(m)  BY <2>1, <2>4, SettlementEscrow
  <2>5. QED  BY <2>2, <2>3, <2>4 DEF Next
<1>3. QED
  BY <1>1, <1>2, MoneyInvariant, PTL DEF Spec, ImplementsEscrow, EscrowView!Spec, EscrowStep
===============================================================================
