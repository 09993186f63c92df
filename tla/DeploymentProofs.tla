---------------------------- MODULE DeploymentProofs ---------------------------
(***************************************************************************)
(* Theorems about Deployment, for every instance.  A step of the deployed  *)
(* program is a step of BracketChain, a gift to the vault, or a step that  *)
(* leaves the tournament alone; so what is proved step by step of          *)
(* BracketChain holds of the program as it is deployed, through every      *)
(* upgrade, migration and rotation of the configuration.                   *)
(***************************************************************************)
EXTENDS Deployment, AdvancementProofs

\* A tournament of the MVP that is not migrated yet cannot be closed either.
OldTournament ==
    layout = "MVP" => status # "None" /\ settlement_mode = "OrganizerOnly"

(***************************************************************************)
(* Steps                                                                   *)
(***************************************************************************)
LEMMA FeedReportsSamples ==
  ASSUME NEW sampling \in Samplings, NEW slots, NEW least, NEW v \in GetValue(sampling, slots, least)
  PROVE  v \in FeedValues
<1>1. PICK o \in Fresh(sampling, slots) : v = sampling[o].value
  BY DEF GetValue, Medians
<1>2. PICK who \in SUBSET Oracles : sampling \in [who -> [value : SampleValues, age : SampleAges]]
  BY DEF Samplings
<1>3. o \in who  BY <1>1, <1>2 DEF Fresh
<1>4. QED  BY <1>1, <1>2, <1>3, DeploymentAssumption

\* The steps that leave the tournament and everything around it alone.
LEMMA Bystanders ==
  ASSUME OldTournament,
         \/ OnlyConfig
         \/ MigrateV1Tournament
         \/ UNCHANGED deployedVars
  PROVE  UNCHANGED vars
<1>1. CASE OnlyConfig  BY <1>1 DEF OnlyConfig
<1>2. CASE MigrateV1Tournament
  BY <1>2 DEF MigrateV1Tournament, OldTournament, ModeOfZero, vars, tournament, terms
<1>3. CASE UNCHANGED deployedVars  BY <1>3 DEF deployedVars
<1>4. QED  BY <1>1, <1>2, <1>3

LEMMA DeployedStep ==
  ASSUME OldTournament, [DeployedNext]_deployedVars
  PROVE  [Next]_vars \/ Donate
<1>1. CASE \/ InitializeProtocol /\ OnlyConfig
           \/ MigrateProtocolConfig /\ OnlyConfig
           \/ \E choice \in SasChoices : SetSasConfig(choice) /\ OnlyConfig
           \/ \E choice \in OracleChoices : SetOracleConfig(choice) /\ OnlyConfig
           \/ MigrateV1Tournament
           \/ UNCHANGED deployedVars
  BY <1>1, Bystanders
<1>2. CASE Donate  BY <1>2
<1>3. CASE TimePasses  BY <1>3, Zenon DEF TimePasses, Next
<1>4. CASE Create  BY <1>4, Zenon DEF Create, Next, LifecycleStep
<1>5. CASE Start  BY <1>5, Zenon DEF Start, Next, LifecycleStep
<1>6. CASE Close
  <2>1. LifecycleStep  BY <1>6, CloseIsAStep DEF Close
  <2>2. QED  BY <2>1 DEF Next
<1>7. CASE SelfContained
  BY <1>7, Zenon DEF SelfContained, Next, LifecycleStep, SettlementStep
<1>8. CASE \E p \in Players : Join(p)
  BY <1>8, Zenon DEF Join, Next, LifecycleStep
<1>9. CASE \E chunk \in SUBSET Players, withDeposit \in BOOLEAN : Refund(chunk, withDeposit)
  BY <1>9, Zenon DEF Refund, Next, LifecycleStep
<1>10. ASSUME NEW m \in Matches, Commit(m) \/ Bind(m) \/ Report(m) \/ SettleProposal(m)
       PROVE  Next
  BY <1>10, Zenon DEF Commit, Bind, Report, SettleProposal, Next, SettlementStep
<1>11. ASSUME NEW m \in Matches, ProposeFromFeed(m)
       PROVE  Next
  <2>1. PICK sampling \in Samplings :
          \E value \in GetValue(sampling, config.max_stale_slots, config.min_oracle_samples),
             relayer \in Players \cup {Relayer} : ProposeResultOracle(m, relayer, value)
    BY <1>11, Zenon DEF ProposeFromFeed
  <2>2. PICK value \in GetValue(sampling, config.max_stale_slots, config.min_oracle_samples),
             relayer \in Players \cup {Relayer} : ProposeResultOracle(m, relayer, value)
    BY <2>1, Zenon
  <2>3. value \in FeedValues  BY <2>2, FeedReportsSamples
  <2>4. relayer \in Signers  BY <2>2 DEF Signers
  <2>5. SettlementStep(m)  BY <2>2, <2>3, <2>4, Zenon DEF SettlementStep
  <2>6. QED  BY <2>5 DEF Next
<1>12. QED
  BY <1>1, <1>2, <1>3, <1>4, <1>5, <1>6, <1>7, <1>8, <1>9, <1>10, <1>11, Zenon DEF DeployedNext

(***************************************************************************)
(* Type correctness                                                        *)
(***************************************************************************)
\* Who had joined the MVP's tournament, and which of them it had refunded.
LEMMA UpgradeEntrants ==
  ASSUME Upgrade
  PROVE  \E joined \in SUBSET Players :
           /\ unreadable = joined
           /\ participant_count = Cardinality(joined) /\ participant_count <= MaxParticipants
           /\ participant_count \in Nat
           /\ \A p \in Players : participant[p].account = IF p \in joined THEN "Open" ELSE "Absent"
           /\ \A p \in Players : /\ participant[p] \in Participant
                                 /\ participant[p].refund_paid => p \in joined /\ status = "Cancelled"
           /\ participant = [p \in Players |-> participant[p]]
           /\ \A p \in joined : participant[p].seed_index < participant_count
           /\ \A p, q \in joined :
                p # q => participant[p].seed_index # participant[q].seed_index
<1>0. PICK joined \in SUBSET Players : \E refunded \in SUBSET joined :
        /\ unreadable = joined
        /\ participant_count = Cardinality(joined)
        /\ participant_count <= MaxParticipants
        /\ status # "Cancelled" => refunded = {}
        /\ \E number \in [joined -> 0..(participant_count - 1)] :
             /\ \A p, q \in joined : p # q => number[p] # number[q]
             /\ participant = [p \in Players |->
                    IF p \in joined
                    THEN [NoParticipant EXCEPT !.account = "Open", !.seed_index = number[p],
                                               !.refund_paid = (p \in refunded)]
                    ELSE NoParticipant]
  BY Zenon DEF Upgrade, OldParticipants
<1>1. PICK refunded \in SUBSET joined :
        /\ unreadable = joined
        /\ participant_count = Cardinality(joined)
        /\ participant_count <= MaxParticipants
        /\ status # "Cancelled" => refunded = {}
        /\ \E number \in [joined -> 0..(participant_count - 1)] :
             /\ \A p, q \in joined : p # q => number[p] # number[q]
             /\ participant = [p \in Players |->
                    IF p \in joined
                    THEN [NoParticipant EXCEPT !.account = "Open", !.seed_index = number[p],
                                               !.refund_paid = (p \in refunded)]
                    ELSE NoParticipant]
  BY <1>0
<1>2. participant_count \in Nat
  BY <1>1, PartiesAssumption, FS_Subset, FS_CardinalityType, Zenon
<1>3. PICK number \in [joined -> 0..(participant_count - 1)] :
        /\ \A p, q \in joined : p # q => number[p] # number[q]
        /\ participant = [p \in Players |->
               IF p \in joined
               THEN [NoParticipant EXCEPT !.account = "Open", !.seed_index = number[p],
                                          !.refund_paid = (p \in refunded)]
               ELSE NoParticipant]
  BY <1>1
<1>4. \A p \in joined : number[p] \in Nat /\ number[p] < participant_count  BY <1>2
<1>5. \A p \in Players \ joined : participant[p] = NoParticipant  BY <1>3
<1>6. \A p \in joined : participant[p] =
        [NoParticipant EXCEPT !.account = "Open", !.seed_index = number[p],
                              !.refund_paid = (p \in refunded)]
  BY <1>3
<1>7. ASSUME NEW p \in joined
      PROVE  /\ participant[p].account = "Open" /\ participant[p].seed_index = number[p]
             /\ participant[p].refund_paid <=> p \in refunded
             /\ participant[p] \in Participant
  <2>1. PICK paid \in BOOLEAN : paid <=> p \in refunded  OBVIOUS
  <2>2. (p \in refunded) = paid  BY <2>1
  <2>3. participant[p] = [NoParticipant EXCEPT !.account = "Open", !.seed_index = number[p],
                                               !.refund_paid = paid]
    BY <1>6, <2>2
  <2>4. participant[p] = [account |-> "Open", seed_index |-> number[p],
                          refund_paid |-> paid, wins |-> 0, losses |-> 0]
    BY <2>3 DEF NoParticipant
  <2>5. number[p] \in Nat  BY <1>4
  <2>6. participant[p] \in Participant  BY <2>1, <2>4, <2>5 DEF Participant
  <2>7. QED  BY <2>1, <2>4, <2>6
<1>8. \A p \in Players \ joined :
        /\ participant[p].account = "Absent" /\ ~participant[p].refund_paid
        /\ participant[p] \in Participant
  BY <1>5, EmptyAccounts DEF NoParticipant
<1>9. participant = [p \in Players |-> participant[p]]  BY <1>3
<1>10. \A p \in joined : participant[p].seed_index < participant_count  BY <1>4, <1>7
<1>11. ASSUME NEW p \in joined, NEW q \in joined, p # q
       PROVE  participant[p].seed_index # participant[q].seed_index
  <2>1. number[p] # number[q]  BY <1>3, <1>11
  <2>2. participant[p].seed_index = number[p] /\ participant[q].seed_index = number[q]
    BY <1>7
  <2>3. QED  BY <2>1, <2>2
<1>12. \A p \in Players :
         /\ participant[p].account = IF p \in joined THEN "Open" ELSE "Absent"
         /\ participant[p] \in Participant
         /\ participant[p].refund_paid => p \in joined /\ status = "Cancelled"
  BY <1>1, <1>7, <1>8
<1>13. QED  BY <1>0, <1>1, <1>2, <1>9, <1>10, <1>11, <1>12

LEMMA UpgradeTypes == Upgrade => TypeOK
<1> SUFFICES ASSUME Upgrade  PROVE TypeOK
  OBVIOUS
<1>1. /\ participant_count \in Nat /\ participant_count <= MaxParticipants
      /\ unreadable \in SUBSET Players /\ participant \in [Players -> Participant]
  BY UpgradeEntrants
<1>2. wallet \in [Wallets -> Int]
  <2>1. PICK deposit : deposit = IF ~organizer_deposit_refunded THEN OrganizerDeposit ELSE 0
    OBVIOUS
  <2>2. PICK owed : owed = [w \in Wallets |->
                              IF w \in unreadable /\ ~participant[w].refund_paid THEN EntryFee ELSE 0]
    OBVIOUS
  <2>3. \A w \in Wallets : -(IF w = Organizer /\ ~organizer_deposit_refunded
                             THEN OrganizerDeposit ELSE 0)
                           - (IF w \in unreadable /\ ~participant[w].refund_paid
                              THEN EntryFee ELSE 0) \in Int
    BY ParametersAssumption
  <2>4. QED  BY <2>3, Zenon DEF Upgrade, OldMoney
<1>3. vault \in Int
  <2>1. PICK debts : debts = {p \in unreadable : ~participant[p].refund_paid}  OBVIOUS
  <2>2. debts \subseteq Players  BY <1>1, <2>1
  <2>3. Cardinality(debts) \in Nat  BY <2>2, PartiesAssumption, FS_Subset, FS_CardinalityType
  <2>4. EntryFee * Cardinality(debts) \in Nat  BY <2>3, ParametersAssumption, NaturalProduct
  <2>5. vault = IF status = "Completed" THEN 0
                ELSE (IF organizer_deposit_refunded THEN 0 ELSE OrganizerDeposit)
                         + EntryFee * Cardinality(debts)
    BY <2>1 DEF Upgrade, OldMoney
  <2>6. QED  BY <2>4, <2>5, ParametersAssumption
<1>4. /\ bracket_size \in PowersOfTwo \cup {0}
      /\ matches_initialized \in Nat /\ matches_reported \in Nat
      /\ seed_hash \in Seeds \cup {NoSeed}
  <2>1. CASE /\ bracket_size = 0 /\ matches_initialized = 0 /\ matches_reported = 0
             /\ seed_hash = NoSeed
    BY <2>1
  <2>2. CASE /\ participant_count >= MIN_PARTICIPANTS
             /\ bracket_size = BracketSize(participant_count) /\ seed_hash \in Seeds
             /\ matches_initialized \in IF status \in {"Active", "Completed"}
                                        THEN {bracket_size - 1} ELSE 0..(bracket_size - 2)
             /\ matches_reported \in 0..matches_initialized
    <3>1. participant_count \in MIN_PARTICIPANTS..MAX_PARTICIPANTS
      BY <1>1, <2>2, ParametersAssumption DEF MIN_PARTICIPANTS, MAX_PARTICIPANTS
    <3>2. bracket_size \in PowersOfTwo  BY <2>2, <3>1, BracketSizeFits
    <3>3. bracket_size \in Nat /\ bracket_size >= 1  BY <3>2, PowersListed
    <3>4. matches_initialized \in Nat  BY <2>2, <3>3
    <3>5. QED  BY <2>2, <3>2, <3>4
  <2>3. QED  BY <2>1, <2>2, Zenon DEF Upgrade, OldBracket
<1>5. champion \in Players \cup {NoOne}  BY <1>1 DEF Upgrade
<1>7. /\ node \in [Matches -> MatchNode] /\ envelope \in [Matches -> Envelope]
      /\ settledBy \in [Matches -> Wallets \cup {NoOne}]
  BY EmptyAccounts DEF Upgrade
<1>8. /\ status \in Status /\ organizer_deposit_refunded \in BOOLEAN
      /\ registration_timer \in Nat /\ settlement_mode \in Modes
  BY ParametersAssumption, DeploymentAssumption DEF Upgrade, OldMoney, Status
<1>9. QED
  BY <1>1, <1>2, <1>3, <1>4, <1>5, <1>7, <1>8, WalletTypes DEF Upgrade, TypeOK

LEMMA GiftTypes ==
  ASSUME TypeOK, Donate
  PROVE  TypeOK'
BY DEF TypeOK, Donate, tournament, terms, counters, seeding, matches, oracle

\* A step of BracketChain keeps the types.
LEMMA StepTypes == TypeOK /\ [Next]_vars => TypeOK'
<1> SUFFICES ASSUME TypeOK, [Next]_vars  PROVE TypeOK'
  OBVIOUS
<1>1. CASE Tick  BY <1>1, TickTypes
<1>2. CASE LifecycleStep  BY <1>2, LifecycleTypes
<1>3. CASE \E m \in Matches : SettlementStep(m)  BY <1>3, SettlementTypes
<1>4. CASE UNCHANGED vars
  BY <1>4
  DEF TypeOK, vars, tournament, terms, counters, seeding, money, matches, oracle
<1>5. QED  BY <1>1, <1>2, <1>3, <1>4 DEF Next

\* Only its migration makes an MVP account readable, and without it no
\* instruction closes it or changes its mode.
LEMMA OldTournamentStays ==
  ASSUME OldTournament, [DeployedNext]_deployedVars
  PROVE  OldTournament'
<1> SUFFICES ASSUME layout' = "MVP"  PROVE status' # "None" /\ settlement_mode' = "OrganizerOnly"
  BY DEF OldTournament
<1>1. layout = "MVP"
  BY DEF DeployedNext, deployedVars, deployment, upgrade, OnlyConfig, MigrateV1Tournament,
         Donate, TimePasses, Create, Start, Close, SelfContained, Join, Refund, Commit, Bind,
         ProposeFromFeed, Report, SettleProposal, Settled
<1>2. status # "None" /\ settlement_mode = "OrganizerOnly"
  BY <1>1 DEF OldTournament
<1>3. UNCHANGED <<status, settlement_mode>>
  BY <1>1, <1>2
  DEF DeployedNext, deployedVars, vars, tournament, terms, TournamentReadable, OnlyConfig,
      MigrateV1Tournament, Donate, TimePasses, Tick, Create, CreateTournament, Start, Close,
      SelfContained, Join, Refund, Commit, Bind, ProposeFromFeed, Report, SettleProposal
<1>4. QED  BY <1>2, <1>3

LEMMA DeployedInitTypes == DeployedInit => TypeOK /\ OldTournament
<1>1. FreshDeploy => TypeOK /\ OldTournament
  BY InitTypes DEF FreshDeploy, OldTournament
<1>2. Upgrade => OldTournament
  BY DEF Upgrade, OldTournament
<1>3. QED  BY <1>1, <1>2, UpgradeTypes DEF DeployedInit

(***************************************************************************)
(* Every account holds what its struct declares however the deployment     *)
(* came about, upgraded over an MVP tournament included.                   *)
(***************************************************************************)
THEOREM DeployedTypesHold == DeployedSpec => [](TypeOK /\ OldTournament)
<1>1. DeployedInit => TypeOK /\ OldTournament
  BY DeployedInitTypes
<1>2. TypeOK /\ OldTournament /\ [DeployedNext]_deployedVars => (TypeOK /\ OldTournament)'
  BY DeployedStep, GiftTypes, StepTypes, OldTournamentStays
<1>3. QED  BY <1>1, <1>2, PTL DEF DeployedSpec

(***************************************************************************)
(* The rights of the parties                                               *)
(***************************************************************************)
RightsInv ==
    /\ TypeOK /\ OldTournament
    /\ NoMatchNoProposal /\ DrawnMeansSealed /\ OrganizerOnlyHasNoProposals

RightsKept ==
    /\ KeepsProposals /\ KeepsDraw
    /\ \A m \in Matches : Authorized(m)

LEMMA GiftRights ==
  ASSUME RightsInv, Donate
  PROVE  RightsInv' /\ RightsKept
<1>1. UNCHANGED <<tournament, participant, matches, incarnation, layout>>
  BY DEF Donate, upgrade
<1>2. RightsInv'
  BY <1>1, GiftTypes
  DEF RightsInv, OldTournament, NoMatchNoProposal, DrawnMeansSealed,
      OrganizerOnlyHasNoProposals, tournament, terms, counters, seeding, matches
<1>3. KeepsProposals
  BY <1>1 DEF KeepsProposals, SameProposal, matches
<1>4. KeepsDraw
  BY <1>1 DEF KeepsDraw, SameDraw, tournament, counters, seeding
<1>5. \A m \in Matches : Authorized(m)
  BY <1>1 DEF Authorized, Settles, matches
<1>6. QED  BY <1>2, <1>3, <1>4, <1>5 DEF RightsKept

LEMMA StepRights ==
  ASSUME MaxIncarnations <= 1
  PROVE  RightsInv /\ [DeployedNext]_deployedVars => RightsInv' /\ [RightsKept]_vars
<1> SUFFICES ASSUME RightsInv, [DeployedNext]_deployedVars
             PROVE  RightsInv' /\ [RightsKept]_vars
  OBVIOUS
<1>1. OldTournament'  BY OldTournamentStays DEF RightsInv
<1>2. CASE Donate  BY <1>2, GiftRights
<1>3. CASE [Next]_vars
  <2>1. TypeOK'  BY <1>3, StepTypes DEF RightsInv
  <2>2. KeepsProposals /\ NoMatchNoProposal'  BY <1>3, StepBinding DEF RightsInv
  <2>3. KeepsDraw /\ DrawnMeansSealed'  BY <1>3, StepDraw DEF RightsInv
  <2>4. OrganizerOnlyHasNoProposals' /\ [\A m \in Matches : Authorized(m)]_vars
    BY <1>3, StepAuthority DEF RightsInv
  <2>5. QED  BY <1>1, <2>1, <2>2, <2>3, <2>4 DEF RightsInv, RightsKept
<1>4. QED  BY <1>2, <1>3, DeployedStep DEF RightsInv

LEMMA DeployedInitRights == DeployedInit => RightsInv
<1>1. FreshDeploy => NoMatchNoProposal /\ DrawnMeansSealed /\ OrganizerOnlyHasNoProposals
  <2> SUFFICES ASSUME Init
               PROVE  NoMatchNoProposal /\ DrawnMeansSealed /\ OrganizerOnlyHasNoProposals
    BY DEF FreshDeploy
  <2>1. NoMatchNoProposal /\ OrganizerOnlyHasNoProposals
    BY DEF Init, NoMatchNoProposal, OrganizerOnlyHasNoProposals, NoNode, EmptyEnvelope
  <2>2. DrawnMeansSealed  BY Zenon DEF Init, DrawnMeansSealed
  <2>3. QED  BY <2>1, <2>2
<1>2. Upgrade => NoMatchNoProposal /\ DrawnMeansSealed /\ OrganizerOnlyHasNoProposals
  <2> SUFFICES ASSUME Upgrade
               PROVE  NoMatchNoProposal /\ DrawnMeansSealed /\ OrganizerOnlyHasNoProposals
    OBVIOUS
  <2>1. /\ envelope = [m \in Matches |-> EmptyEnvelope] /\ incarnation = 1
        /\ vrf_bound = FALSE /\ seed_revealed = FALSE
        /\ status # "None" /\ (status = "Registration" => bracket_size = 0)
    BY DEF Upgrade, OldBracket
  <2>2. QED
    BY <2>1 DEF NoMatchNoProposal, DrawnMeansSealed, OrganizerOnlyHasNoProposals, EmptyEnvelope
<1>3. QED  BY <1>1, <1>2, DeployedInitTypes DEF RightsInv, DeployedInit

(***************************************************************************)
(* Proposals and draws bind and only the entitled settle, whatever the     *)
(* authority does to the configuration, whatever attestations and feeds    *)
(* say, whoever sends the vault tokens, and across an upgrade.             *)
(***************************************************************************)
THEOREM RightsSurviveDeployment ==
  ASSUME MaxIncarnations <= 1
  PROVE  DeployedSpec => ProposalIsBinding /\ DrawIsBinding /\ SettlementAuthority
<1>1. RightsInv /\ [RightsKept]_vars =>
        /\ [KeepsProposals]_vars /\ [KeepsDraw]_vars
        /\ [\A m \in Matches : Authorized(m)]_vars
  BY DEF RightsKept
<1>2. QED
  BY <1>1, StepRights, DeployedInitRights, PTL
  DEF DeployedSpec, ProposalIsBinding, KeepsProposals, DrawIsBinding, KeepsDraw,
      SettlementAuthority, Authorized

(***************************************************************************)
(* Feeds                                                                   *)
(*                                                                         *)
(* A match is committed once and a feed is only bound to a committed one;  *)
(* an account that is created or closed loses both.                        *)
(***************************************************************************)
FeedInv ==
    /\ commitment = [m \in Matches |-> commitment[m]]
    /\ switchboard_feed = [m \in Matches |-> switchboard_feed[m]]
    /\ feed_bound \subseteq committed
    /\ BoundFeedRunsTheCommittedJob

\* The instructions that neither commit nor bind.
LEMMA LobbyKept ==
  ASSUME FeedInv, UNCHANGED <<oracle, commitment, switchboard_feed>>
  PROVE  FeedInv'
BY DEF FeedInv, BoundFeedRunsTheCommittedJob, oracle

LEMMA LobbyLost ==
  ASSUME FeedInv, TypeOK, LobbyFollows, NEW gone,
         committed' = committed \ gone, feed_bound' = feed_bound \ gone
  PROVE  FeedInv'
<1>1. /\ commitment' = [m \in Matches |-> IF m \in committed' THEN commitment[m] ELSE NoCommitment]
      /\ switchboard_feed' = [m \in Matches |->
             IF m \in feed_bound' THEN switchboard_feed[m] ELSE NoAccount]
  BY DEF LobbyFollows
<1>2. feed_bound' \subseteq committed' /\ feed_bound' \subseteq feed_bound
  BY DEF FeedInv
<1>3. ASSUME NEW m \in feed_bound'
      PROVE  switchboard_feed'[m].feed_hash = commitment'[m].expected_feed_hash
  <2>1. m \in Matches /\ m \in committed' /\ m \in feed_bound
    BY <1>2, <1>3 DEF TypeOK
  <2>2. switchboard_feed'[m] = switchboard_feed[m] /\ commitment'[m] = commitment[m]
    BY <1>1, <1>3, <2>1
  <2>3. QED  BY <2>1, <2>2 DEF FeedInv, BoundFeedRunsTheCommittedJob
<1>4. QED  BY <1>1, <1>2, <1>3, Zenon DEF FeedInv, BoundFeedRunsTheCommittedJob

LEMMA CommitFeeds ==
  ASSUME FeedInv, TypeOK, NEW m \in Matches, Commit(m)
  PROVE  FeedInv'
<1>1. /\ m \notin committed /\ committed' = committed \cup {m}
      /\ UNCHANGED <<feed_bound, switchboard_feed>>
  BY DEF Commit, CommitMatchLobby
<1>2. PICK fields : commitment' = [commitment EXCEPT ![m] = fields]
  BY DEF Commit
<1>3. \A n \in feed_bound : commitment'[n] = commitment[n]
  BY <1>1, <1>2 DEF FeedInv, TypeOK
<1>4. QED  BY <1>1, <1>2, <1>3 DEF FeedInv, BoundFeedRunsTheCommittedJob

LEMMA BindFeeds ==
  ASSUME FeedInv, TypeOK, NEW m \in Matches, Bind(m)
  PROVE  FeedInv'
<1>1. /\ m \in committed /\ feed_bound' = feed_bound \cup {m}
      /\ UNCHANGED <<committed, commitment>>
  BY DEF Bind, BindMatchFeed
<1>2. PICK feed \in FeedAccounts :
        /\ feed.feed_hash = commitment[m].expected_feed_hash
        /\ switchboard_feed' = [switchboard_feed EXCEPT ![m] = feed]
  BY DEF Bind
<1>3. ASSUME NEW n \in feed_bound'
      PROVE  switchboard_feed'[n].feed_hash = commitment'[n].expected_feed_hash
  BY <1>1, <1>2, <1>3 DEF FeedInv, BoundFeedRunsTheCommittedJob, TypeOK
<1>4. QED  BY <1>1, <1>2, <1>3 DEF FeedInv, BoundFeedRunsTheCommittedJob

\* What the settlements, refunds and other instructions leave alone.
LEMMA OthersKeepTheLobby ==
  ASSUME [DeployedNext]_deployedVars, ~Start, ~Close,
         \A m \in Matches : ~Commit(m) /\ ~Bind(m)
  PROVE  UNCHANGED <<oracle, commitment, switchboard_feed>>
<1>1. CASE \/ InitializeProtocol /\ OnlyConfig
           \/ MigrateProtocolConfig /\ OnlyConfig
           \/ \E choice \in SasChoices : SetSasConfig(choice) /\ OnlyConfig
           \/ \E choice \in OracleChoices : SetOracleConfig(choice) /\ OnlyConfig
           \/ MigrateV1Tournament \/ Donate \/ UNCHANGED deployedVars
  BY <1>1 DEF OnlyConfig, MigrateV1Tournament, Donate, deployedVars, deployment, vars,
              matches, lobby
<1>2. CASE TimePasses \/ Create \/ \E p \in Players : Join(p)
  BY <1>2 DEF TimePasses, Tick, Create, CreateTournament, Join, JoinTournament, lobby, matches
<1>3. CASE \E chunk \in SUBSET Players, withDeposit \in BOOLEAN : Refund(chunk, withDeposit)
  BY <1>3 DEF Refund, CancelTournament, PartialRefundChunk, deployment, lobby, matches
<1>4. CASE SelfContained
  BY <1>4 DEF SelfContained, RequestSeed, RevealSeed, PartialCancelTournament, ProposeResult,
              Propose, DisputeResult, deployment, lobby, matches
<1>5. ASSUME NEW m \in Matches, ProposeFromFeed(m) \/ Report(m) \/ SettleProposal(m)
      PROVE  UNCHANGED <<oracle, commitment, switchboard_feed>>
  BY <1>5 DEF ProposeFromFeed, ProposeResultOracle, Propose, Report, ReportResult, Settled,
              SettleProposal, ConfirmResult, ResolveDispute, ClaimResult, ForceClaimDisputed,
              SettleFinal, Settle, FinalizeMatch, lobby
<1>6. QED
  BY <1>1, <1>2, <1>3, <1>4, <1>5, Zenon DEF DeployedNext

(***************************************************************************)
(* A bound feed runs the job its match is committed to, for all feeds,     *)
(* hashes, configurations and lives of the match account.                  *)
(***************************************************************************)
THEOREM FeedsRunCommittedJobs == DeployedSpec => []BoundFeedRunsTheCommittedJob
<1>1. DeployedInit => FeedInv
  <2>1. DeployedInit => NothingDeployed /\ feed_bound = {}
    BY DEF DeployedInit, FreshDeploy, Upgrade, Init
  <2>2. QED  BY <2>1 DEF NothingDeployed, FeedInv, BoundFeedRunsTheCommittedJob
<1>2. TypeOK /\ FeedInv /\ [DeployedNext]_deployedVars => FeedInv'
  <2> SUFFICES ASSUME TypeOK, FeedInv, [DeployedNext]_deployedVars  PROVE FeedInv'
    OBVIOUS
  <2>1. CASE Start
    <3>1. PICK ids \in SUBSET Matches : committed' = committed \ ids /\ feed_bound' = feed_bound \ ids
      BY <2>1 DEF Start, StartTournament
    <3>2. QED  BY <2>1, <3>1, LobbyLost DEF Start
  <2>2. CASE Close
    <3>1. PICK nodes \in SUBSET Matches :
            committed' = committed \ nodes /\ feed_bound' = feed_bound \ nodes
      BY <2>2 DEF Close, CloseTournament, CloseChildren
    <3>2. QED  BY <2>2, <3>1, LobbyLost DEF Close
  <2>3. CASE \E m \in Matches : Commit(m)  BY <2>3, CommitFeeds
  <2>4. CASE \E m \in Matches : Bind(m)  BY <2>4, BindFeeds
  <2>5. QED  BY <2>1, <2>2, <2>3, <2>4, OthersKeepTheLobby, LobbyKept
<1>3. FeedInv => BoundFeedRunsTheCommittedJob  BY DEF FeedInv
<1>4. QED
  BY <1>1, <1>2, <1>3, DeployedTypesHold, PTL DEF DeployedSpec

(***************************************************************************)
(* Tournaments of the MVP                                                  *)
(***************************************************************************)
MigratedInv ==
    layout # "Current" =>
        /\ settlement_mode = "OrganizerOnly"
        /\ \A m \in Matches : /\ settledBy[m] \in {Organizer, NoOne}
                              /\ envelope[m] = EmptyEnvelope
                              /\ m \notin committed

\* Without a proposal or another mode no instruction but these writes to a match.
LEMMA OrganizerRunStep ==
  ASSUME TypeOK, MigratedInv, [Next]_vars,
         layout # "Current", UNCHANGED <<layout, settlement_mode>>
  PROVE  MigratedInv'
<1> USE DEF MigratedInv
<1>1. CASE Tick
  <2>1. \A m \in Matches :
          envelope'[m] = [EmptyEnvelope EXCEPT !.claim_timer = CountDown(EmptyEnvelope.claim_timer)]
    BY <1>1, Zenon DEF Tick
  <2>2. [EmptyEnvelope EXCEPT !.claim_timer = CountDown(EmptyEnvelope.claim_timer)] = EmptyEnvelope
    BY DEF EmptyEnvelope, CountDown
  <2>3. UNCHANGED <<settledBy, committed>>
    BY <1>1 DEF Tick, oracle
  <2>4. QED  BY <2>1, <2>2, <2>3
<1>2. CASE \E ids \in SUBSET Matches, size \in PowersOfTwo, seed \in Seeds :
              StartTournament(ids, size, seed)
  <2>1. PICK ids \in SUBSET Matches :
          /\ envelope' = [m \in Matches |-> IF m \in ids THEN EmptyEnvelope ELSE envelope[m]]
          /\ settledBy' = [m \in Matches |-> IF m \in ids THEN NoOne ELSE settledBy[m]]
          /\ committed' = committed \ ids
    BY <1>2 DEF StartTournament
  <2>2. QED  BY <2>1
<1>3. ASSUME NEW players \in SUBSET Players, NEW nodes \in SUBSET Matches,
             NEW closeRoot \in BOOLEAN, CloseTournament(players, nodes, closeRoot)
      PROVE  MigratedInv'
  BY <1>3 DEF CloseTournament, CloseChildren
<1>4. CASE \/ \E mode \in Modes, preset \in Presets : CreateTournament(mode, preset)
           \/ \E p \in Players : JoinTournament(p)
           \/ RequestSeed
           \/ \E seed \in Seeds : RevealSeed(seed)
           \/ PartialCancelTournament
           \/ \E chunk \in SUBSET Players, withDeposit \in BOOLEAN :
                 \/ \E caller \in {Organizer, Relayer} : CancelTournament(caller, chunk, withDeposit)
                 \/ PartialRefundChunk(chunk, withDeposit)
           \/ UNCHANGED vars
  <2>1. UNCHANGED <<settledBy, envelope, committed>>
    BY <1>4
    DEF CreateTournament, JoinTournament, RequestSeed, RevealSeed, PartialCancelTournament,
        CancelTournament, PartialRefundChunk, RefundChunk, vars, tournament, matches, oracle
  <2>2. QED  BY <2>1
<1>5. ASSUME NEW m \in Matches, SettlementStep(m)
      PROVE  MigratedInv'
  <2> /\ settlement_mode = "OrganizerOnly" /\ m \notin committed
      /\ envelope[m].source = "None" /\ ~envelope[m].disputed
    BY DEF EmptyEnvelope
  <2>1. CASE \E w \in Wallets : ReportResult(m, w)
    <3>1. /\ settledBy' = [settledBy EXCEPT ![m] = Organizer]
          /\ UNCHANGED <<envelope, committed>>
      BY <2>1 DEF ReportResult, FinalizeMatch, oracle
    <3>2. QED  BY <3>1 DEF TypeOK
  <2>2. /\ ~ \E p, w \in Players : ProposeResult(m, p, w)
        /\ ~ \E relayer \in Signers, value \in FeedValues : ProposeResultOracle(m, relayer, value)
        /\ ~CommitMatchLobby(m) /\ ~BindMatchFeed(m)
    BY DEF ProposeResult, ProposeResultOracle, CommitMatchLobby, BindMatchFeed
  <2>3. /\ ~ \E w \in Signers : DisputeResult(m, w)
        /\ ~ \E p \in Players : ConfirmResult(m, p)
        /\ ~ \E w \in Players : ResolveDispute(m, w)
        /\ ~ClaimResult(m) /\ ~ForceClaimDisputed(m) /\ ~SettleFinal(m)
    BY DEF DisputeResult, ConfirmResult, ResolveDispute, ClaimResult, ForceClaimDisputed,
           SettleFinal, Unchallenged
  <2>4. QED  BY <1>5, <2>1, <2>2, <2>3 DEF SettlementStep
<1>6. QED  BY <1>1, <1>2, <1>3, <1>4, <1>5, Zenon DEF Next, LifecycleStep

LEMMA SettlementKeepsTheMode ==
  ASSUME NEW m \in Matches, SettlementStep(m)
  PROVE  UNCHANGED settlement_mode
<1>1. CASE \/ \E w \in Wallets : ReportResult(m, w)
           \/ \E p \in Players : ConfirmResult(m, p)
           \/ \E w \in Players : ResolveDispute(m, w)
           \/ ClaimResult(m) \/ ForceClaimDisputed(m) \/ SettleFinal(m)
  <2>1. \E winner, trusted, signer : FinalizeMatch(m, winner, trusted, signer)
    BY <1>1 DEF ReportResult, ConfirmResult, ResolveDispute, ClaimResult,
                ForceClaimDisputed, SettleFinal, Settle
  <2>2. QED  BY <2>1 DEF FinalizeMatch, terms
<1>2. CASE \/ \E p, w \in Players : ProposeResult(m, p, w)
           \/ \E relayer \in Signers, value \in FeedValues :
                 ProposeResultOracle(m, relayer, value)
           \/ \E w \in Signers : DisputeResult(m, w)
           \/ CommitMatchLobby(m) \/ BindMatchFeed(m)
  BY <1>2
  DEF ProposeResult, ProposeResultOracle, Propose, DisputeResult, CommitMatchLobby,
      BindMatchFeed, tournament, terms
<1>3. QED  BY <1>1, <1>2 DEF SettlementStep

\* The mode is chosen when the tournament is created, and decoded when it is migrated.
LEMMA ModeKept ==
  ASSUME [DeployedNext]_deployedVars, ~Create, ~MigrateV1Tournament
  PROVE  UNCHANGED settlement_mode
<1>1. CASE \/ InitializeProtocol /\ OnlyConfig
           \/ MigrateProtocolConfig /\ OnlyConfig
           \/ \E choice \in SasChoices : SetSasConfig(choice) /\ OnlyConfig
           \/ \E choice \in OracleChoices : SetOracleConfig(choice) /\ OnlyConfig
           \/ Donate \/ TimePasses \/ UNCHANGED deployedVars
  BY <1>1 DEF OnlyConfig, Donate, TimePasses, Tick, deployedVars, vars, tournament, terms
<1>2. CASE Start \/ Close \/ \E p \in Players : Join(p)
  BY <1>2
  DEF Start, StartTournament, Close, CloseTournament, Join, JoinTournament, terms
<1>3. CASE \E chunk \in SUBSET Players, withDeposit \in BOOLEAN : Refund(chunk, withDeposit)
  BY <1>3 DEF Refund, CancelTournament, PartialRefundChunk, tournament, terms
<1>4. CASE SelfContained
  <2>1. CASE \/ RequestSeed \/ PartialCancelTournament
             \/ \E seed \in Seeds : RevealSeed(seed)
    BY <2>1 DEF RequestSeed, RevealSeed, PartialCancelTournament, tournament, terms
  <2>2. ASSUME NEW m \in Matches,
               \/ \E p, w \in Players : ProposeResult(m, p, w)
               \/ \E w \in Signers : DisputeResult(m, w)
        PROVE  UNCHANGED settlement_mode
    BY <2>2, SettlementKeepsTheMode DEF SettlementStep
  <2>3. QED  BY <1>4, <2>1, <2>2 DEF SelfContained
<1>5. ASSUME NEW m \in Matches, Commit(m) \/ Bind(m) \/ Report(m) \/ SettleProposal(m)
      PROVE  UNCHANGED settlement_mode
  <2>1. SettlementStep(m)
    BY <1>5, Zenon DEF Commit, Bind, Report, SettleProposal, SettlementStep
  <2>2. QED  BY <2>1, SettlementKeepsTheMode
<1>6. ASSUME NEW m \in Matches, ProposeFromFeed(m)
      PROVE  UNCHANGED settlement_mode
  BY <1>6 DEF ProposeFromFeed, ProposeResultOracle, Propose, tournament, terms
<1>7. QED  BY <1>1, <1>2, <1>3, <1>4, <1>5, <1>6, Zenon DEF DeployedNext

(***************************************************************************)
(* Whatever state the upgrade found an MVP tournament in and whenever it   *)
(* is migrated, its matches stay the organizer's to decide, to the last    *)
(* one that is closed.                                                     *)
(***************************************************************************)
THEOREM MigrationKeepsTheRules == DeployedSpec => []MigratedIsOrganizerRun
<1>1. DeployedInit => MigratedInv
  BY DEF DeployedInit, FreshDeploy, Upgrade, MigratedInv
<1>2. TypeOK /\ OldTournament /\ MigratedInv /\ [DeployedNext]_deployedVars => MigratedInv'
  <2> SUFFICES ASSUME TypeOK, OldTournament, MigratedInv, [DeployedNext]_deployedVars,
                      layout' # "Current"
               PROVE  MigratedInv'
    BY DEF MigratedInv
  <2>1. CASE MigrateV1Tournament
    BY <2>1 DEF MigrateV1Tournament, ModeOfZero, matches, oracle, MigratedInv
  <2>2. CASE Donate
    BY <2>2 DEF Donate, upgrade, tournament, terms, matches, oracle, MigratedInv
  <2>3. CASE ~MigrateV1Tournament /\ ~Donate
    <3>0. ~Create  BY DEF Create
    <3>1. UNCHANGED layout
      BY <2>3, <3>0
      DEF DeployedNext, deployedVars, deployment, upgrade, OnlyConfig, TimePasses, Start, Close,
          SelfContained, Join, Refund, Commit, Bind, ProposeFromFeed, Report, SettleProposal,
          Settled
    <3>4. UNCHANGED settlement_mode  BY <2>3, <3>0, ModeKept
    <3>2. [Next]_vars  BY <2>3, DeployedStep
    <3>3. QED  BY <3>1, <3>2, <3>4, OrganizerRunStep
  <2>4. QED  BY <2>1, <2>2, <2>3
<1>3. MigratedInv => MigratedIsOrganizerRun
  BY DEF MigratedInv, MigratedIsOrganizerRun
<1>4. QED
  BY <1>1, <1>2, <1>3, DeployedTypesHold, PTL DEF DeployedSpec

(***************************************************************************)
(*                                 Gifts                                   *)
(*                                                                         *)
(* The money of the deployed program: tokens that arrive from outside at   *)
(* any moment, and a tournament the upgrade finds half way, change nothing *)
(* in what the vault owes and holds for it.  The argument is that of       *)
(* MoneyProofs with the gifts on top; its new case is the close of the     *)
(* root, where an empty vault means that neither a debt nor a gift is left.*)
(***************************************************************************)
\* What was made out to the vault itself, by the final.
KeepsItsOwn ==
    /\ wallet[TournamentPda] \in Nat
    /\ status # "Completed" => wallet[TournamentPda] = 0

Gifts ==
    /\ donated \in Nat
    /\ KeepsItsOwn
    /\ UnbornIsEmpty
    /\ NobodyClosedEarly
    /\ VaultHoldsDebtsAndGifts

GiftInv == TypeOK /\ OldTournament /\ Gifts

\* What is owed while the prizes are not paid.
LEMMA DebtsAreNatural ==
  DepositHeld \in Nat /\ EntryFee * Cardinality(Unrefunded) \in Nat
<1>1. EntryFee \in Nat /\ Cardinality(Unrefunded) \in Nat
  BY ParametersAssumption, UnrefundedFinite
<1>2. EntryFee * Cardinality(Unrefunded) \in Nat  BY <1>1, NaturalProduct
<1>3. QED  BY <1>2, ParametersAssumption DEF DepositHeld

(***************************************************************************)
(* Steps that move no money                                                *)
(***************************************************************************)
LEMMA QuietKeepsGifts ==
  ASSUME Gifts, QuietStep, UNCHANGED donated
  PROVE  Gifts'
<1>1. Unrefunded' = Unrefunded /\ DepositHeld' = DepositHeld
  BY DEF QuietStep, Unrefunded, DepositHeld
<1>2. /\ (status' = "None") <=> (status = "None")
      /\ (status' = "Completed") <=> (status = "Completed")
  BY DEF QuietStep, OpenStatus
<1>3. VaultHoldsDebtsAndGifts' /\ KeepsItsOwn'
  BY <1>1, <1>2 DEF Gifts, VaultHoldsDebtsAndGifts, KeepsItsOwn, QuietStep
<1>4. UnbornIsEmpty'
  BY DEF Gifts, UnbornIsEmpty, QuietStep, OpenStatus
<1>5. NobodyClosedEarly'
  BY DEF Gifts, NobodyClosedEarly, QuietStep, OpenStatus
<1>6. QED  BY <1>3, <1>4, <1>5 DEF Gifts

LEMMA BystandersKeepGifts ==
  ASSUME Gifts, UNCHANGED <<tournament, money, participant, incarnation, donated>>
  PROVE  Gifts'
<1>1. QuietStep  BY DEF QuietStep, money, tournament
<1>2. QED  BY <1>1, QuietKeepsGifts

LEMMA BracketGifts ==
  ASSUME Gifts, UNCHANGED donated,
         \/ Tick
         \/ RequestSeed
         \/ \E seed \in Seeds : RevealSeed(seed)
         \/ \E ids \in SUBSET Matches, size \in PowersOfTwo, seed \in Seeds :
               StartTournament(ids, size, seed)
         \/ PartialCancelTournament
  PROVE  Gifts'
<1>1. UNCHANGED <<money, participant, incarnation>>
  BY DEF Tick, RequestSeed, RevealSeed, StartTournament, PartialCancelTournament
<1>2. status' # status =>
        /\ status \in OpenStatus
        /\ status' \in OpenStatus \cup {"PartialCancelled"}
  BY DEF Tick, RequestSeed, RevealSeed, StartTournament, DrawBracket,
         PartialCancelTournament, OpenStatus
<1>3. QuietStep  BY <1>1, <1>2 DEF QuietStep, money
<1>4. QED  BY <1>3, QuietKeepsGifts

\* A token from outside is no debt.
LEMMA DonationIsAGift ==
  ASSUME Gifts, TypeOK, Donate
  PROVE  Gifts'
<1>1. /\ status # "None" /\ vault' = vault + 1 /\ donated' = donated + 1
      /\ UNCHANGED <<tournament, wallet, organizer_deposit_refunded, participant, incarnation>>
  BY DEF Donate
<1>2. Unrefunded' = Unrefunded /\ DepositHeld' = DepositHeld /\ status' = status
  BY <1>1 DEF Unrefunded, DepositHeld, tournament
<1>3. UnbornIsEmpty' /\ NobodyClosedEarly' /\ KeepsItsOwn'
  <2>1. UnbornIsEmpty' /\ NobodyClosedEarly'
    BY <1>1, <1>2 DEF Gifts, UnbornIsEmpty, NobodyClosedEarly
  <2>2. wallet' = wallet  BY <1>1
  <2>3. QED  BY <1>2, <2>1, <2>2 DEF Gifts, KeepsItsOwn
<1>4. VaultHoldsDebtsAndGifts'
  BY <1>1, <1>2, DebtsAreNatural DEF Gifts, KeepsItsOwn, VaultHoldsDebtsAndGifts
<1>5. QED  BY <1>1, <1>3, <1>4 DEF Gifts

(***************************************************************************)
(* Steps that move money                                                   *)
(***************************************************************************)
LEMMA CreateGifts ==
  ASSUME MaxIncarnations <= 1, TypeOK, Gifts, UNCHANGED donated,
         NEW mode, NEW preset, CreateTournament(mode, preset)
  PROVE  Gifts'
<1>1. incarnation = 0 /\ incarnation' = 1
  BY ParametersAssumption DEF TypeOK, CreateTournament
<1>2. status = "None" /\ vault = 0 /\ donated = 0
  BY <1>1 DEF Gifts, UnbornIsEmpty, VaultHoldsDebtsAndGifts
<1>3. \A p \in Players : participant'[p].account = "Absent"
  BY <1>1 DEF Gifts, UnbornIsEmpty, CreateTournament, NoParticipant
<1>4. Unrefunded' = {}  BY <1>3 DEF Unrefunded
<1>5. Cardinality(Unrefunded') = 0  BY <1>4, FS_EmptySet
<1>6. DepositHeld' = OrganizerDeposit /\ vault' = OrganizerDeposit
  BY DEF DepositHeld, CreateTournament
<1>7. VaultHoldsDebtsAndGifts'
  <2>1. status' = "Registration"  BY DEF CreateTournament
  <2>2. QED
    BY <1>2, <1>5, <1>6, <2>1, ParametersAssumption DEF VaultHoldsDebtsAndGifts
<1>8. UnbornIsEmpty' /\ NobodyClosedEarly'
  BY <1>1, <1>3 DEF UnbornIsEmpty, NobodyClosedEarly
<1>9. KeepsItsOwn'
  <2>1. wallet'[TournamentPda] = wallet[TournamentPda]
    BY PartiesAssumption, WalletTypes DEF CreateTournament, TypeOK, Signers
  <2>2. QED  BY <1>2, <2>1 DEF Gifts, KeepsItsOwn
<1>10. QED  BY <1>2, <1>7, <1>8, <1>9 DEF Gifts

LEMMA JoinGifts ==
  ASSUME TypeOK, Gifts, UNCHANGED donated, NEW p \in Players, JoinTournament(p)
  PROVE  Gifts'
<1>1. status = "Registration" /\ status' = "Registration" /\ incarnation' = incarnation
  BY DEF JoinTournament
<1>2. incarnation > 0
  BY <1>1 DEF Gifts, TypeOK, UnbornIsEmpty
<1>3. /\ participant'[p].account = "Open"
      /\ \A q \in Players \ {p} : participant'[q] = participant[q]
      /\ Cardinality(Unrefunded') = Cardinality(Unrefunded) + 1
      /\ DepositHeld' = DepositHeld /\ vault' = vault + EntryFee
  BY JoinAddsADebt DEF Gifts
<1>4. VaultHoldsDebtsAndGifts'
  <2>1. vault = donated + (DepositHeld + EntryFee * Cardinality(Unrefunded))
    BY <1>1 DEF Gifts, VaultHoldsDebtsAndGifts
  <2>2. EntryFee * (Cardinality(Unrefunded) + 1) = EntryFee * Cardinality(Unrefunded) + EntryFee
    BY UnrefundedFinite, ParametersAssumption, TimesDifference
  <2>3. vault' = donated + (DepositHeld + EntryFee * (Cardinality(Unrefunded) + 1))
    BY <1>3, <2>1, <2>2, DebtsAreNatural, ParametersAssumption DEF Gifts
  <2>4. QED  BY <1>1, <1>3, <2>3 DEF VaultHoldsDebtsAndGifts
<1>5. UnbornIsEmpty'
  BY <1>1, <1>2 DEF UnbornIsEmpty, TypeOK
<1>6. NobodyClosedEarly'
  BY <1>1, <1>3 DEF Gifts, NobodyClosedEarly, OpenStatus
<1>7. KeepsItsOwn'
  <2>1. wallet'[TournamentPda] = wallet[TournamentPda]
    BY PartiesAssumption, WalletTypes DEF JoinTournament, TypeOK, Signers
  <2>2. QED  BY <1>1, <2>1 DEF Gifts, KeepsItsOwn
<1>8. QED  BY <1>4, <1>5, <1>6, <1>7 DEF Gifts

LEMMA RefundGifts ==
  ASSUME TypeOK, Gifts, UNCHANGED <<donated, incarnation>>,
         NEW chunk \in SUBSET Players, NEW withDeposit \in BOOLEAN,
         RefundChunk(chunk, withDeposit),
         status \in OpenStatus \cup {"Cancelled", "PartialCancelled"},
         status' \in {"Cancelled", "PartialCancelled"}
  PROVE  Gifts'
<1> DEFINE unpaid == Unpaid(chunk)
           deposit == DepositDue(withDeposit)
<1>1. /\ vault' = vault - (deposit + EntryFee * Cardinality(unpaid))
      /\ deposit \in Int /\ DepositHeld' = DepositHeld - deposit
      /\ Cardinality(Unrefunded') = Cardinality(Unrefunded) - Cardinality(unpaid)
      /\ Cardinality(unpaid) \in Nat
  BY RefundSettlesDebts
<1> HIDE DEF unpaid, deposit
<1>2. VaultHoldsDebtsAndGifts'
  <2>1. vault = donated + (DepositHeld + EntryFee * Cardinality(Unrefunded))
    BY DEF Gifts, VaultHoldsDebtsAndGifts, OpenStatus
  <2>2. /\ EntryFee * (Cardinality(Unrefunded) - Cardinality(unpaid))
             = EntryFee * Cardinality(Unrefunded) - EntryFee * Cardinality(unpaid)
        /\ EntryFee * Cardinality(unpaid) \in Int
    BY <1>1, UnrefundedFinite, ParametersAssumption, TimesDifference
  <2>3. vault' = donated + ((DepositHeld - deposit)
                   + EntryFee * (Cardinality(Unrefunded) - Cardinality(unpaid)))
    BY <1>1, <2>1, <2>2, DebtsAreNatural DEF Gifts
  <2>4. QED  BY <1>1, <2>3 DEF VaultHoldsDebtsAndGifts
<1>3. UnbornIsEmpty'
  BY DEF Gifts, TypeOK, UnbornIsEmpty, OpenStatus
<1>4. NobodyClosedEarly'
  BY DEF NobodyClosedEarly, OpenStatus
<1>5. KeepsItsOwn'
  <2>1. TournamentPda # Organizer /\ TournamentPda \notin Players
    BY PartiesAssumption DEF Signers
  <2>2. TournamentPda \notin Unpaid(chunk)  BY <2>1 DEF Unpaid
  <2>3. wallet[TournamentPda] = 0  BY DEF Gifts, KeepsItsOwn, OpenStatus
  <2>4. PICK paid : paid = DepositDue(withDeposit)  OBVIOUS
  <2>5. wallet' = [w \in Wallets |-> wallet[w] + (IF w = Organizer THEN paid ELSE 0)
                                   + (IF w \in Unpaid(chunk) THEN EntryFee ELSE 0)]
    BY <2>4, Zenon DEF RefundChunk
  <2>6. wallet'[TournamentPda] = 0  BY <2>1, <2>2, <2>3, <2>5, WalletTypes
  <2>7. QED  BY <2>6 DEF KeepsItsOwn
<1>6. QED  BY <1>2, <1>3, <1>4, <1>5 DEF Gifts

LEMMA CloseGifts ==
  ASSUME TypeOK, Gifts, UNCHANGED donated,
         NEW players \in SUBSET Players, NEW nodes, NEW closeRoot,
         CloseTournament(players, nodes, closeRoot)
  PROVE  Gifts'
<1>1. /\ status \in TerminalStatus
      /\ UNCHANGED <<vault, wallet, organizer_deposit_refunded, incarnation>>
      /\ Unrefunded' = Unrefunded /\ DepositHeld' = DepositHeld
  BY CloseForgetsNothing
<1>2. incarnation > 0
  BY <1>1 DEF Gifts, TypeOK, UnbornIsEmpty, TerminalStatus
<1>3. UnbornIsEmpty'
  BY <1>1, <1>2 DEF UnbornIsEmpty, TypeOK
<1>4. CASE status' = "None" /\ vault = 0
  <2>1. donated = 0 /\ wallet[TournamentPda] = 0
    BY <1>1, <1>4, DebtsAreNatural
    DEF Gifts, KeepsItsOwn, VaultHoldsDebtsAndGifts, TerminalStatus
  <2>2. VaultHoldsDebtsAndGifts' /\ KeepsItsOwn'
    BY <1>1, <1>4, <2>1 DEF VaultHoldsDebtsAndGifts, KeepsItsOwn
  <2>3. QED  BY <1>3, <1>4, <2>1, <2>2 DEF Gifts, NobodyClosedEarly, OpenStatus
<1>5. CASE status' = status
  <2>1. VaultHoldsDebtsAndGifts' /\ KeepsItsOwn'
    BY <1>1, <1>5 DEF Gifts, VaultHoldsDebtsAndGifts, KeepsItsOwn
  <2>2. NobodyClosedEarly'
    BY <1>1, <1>5 DEF NobodyClosedEarly, OpenStatus, TerminalStatus
  <2>3. QED  BY <1>3, <2>1, <2>2 DEF Gifts
<1>6. QED  BY <1>4, <1>5 DEF CloseTournament, NoTournament

\* A result that is not the final moves nothing; the final leaves what is made
\* out to the vault.
LEMMA ResultGifts ==
  ASSUME TypeOK, Gifts, donated' = IF status' = "Completed" THEN 0 ELSE donated,
         NEW m \in Matches, NEW winner, NEW trusted, NEW signer,
         FinalizeMatch(m, winner, trusted, signer),
         \A p \in Players : /\ participant'[p].account = participant[p].account
                            /\ participant'[p].refund_paid = participant[p].refund_paid
  PROVE  Gifts'
<1>1. /\ status = "Active"
      /\ UNCHANGED <<organizer_deposit_refunded, incarnation>>
  BY DEF FinalizeMatch, Playable
<1>2. CASE AdvanceWinner(m, winner)
  <2>1. QuietStep
    BY <1>1, <1>2 DEF QuietStep, AdvanceWinner
  <2>2. status' = "Active"
    BY <1>1, <1>2 DEF AdvanceWinner
  <2>3. QED  BY <2>1, <2>2, QuietKeepsGifts
<1>3. CASE CompleteTournament(m, winner, trusted)
  <2>1. status' = "Completed" /\ donated' = 0
    BY <1>3 DEF CompleteTournament
  <2>2. vault' = wallet'[TournamentPda] /\ vault' \in Nat
    <3>1. wallet[TournamentPda] = 0  BY <1>1 DEF Gifts, KeepsItsOwn
    <3>2. vault \in Nat
      BY <1>1, DebtsAreNatural DEF Gifts, VaultHoldsDebtsAndGifts
    <3>3. PICK placements : DistributePrizes(placements)
      BY <1>3 DEF CompleteTournament
    <3>4. Sent(TournamentPda, placements, FinalAmounts, FinalFee) \in Nat
      BY <3>2, <3>3, NobodyIsSentMore
    <3>5. QED  BY <3>1, <3>3, <3>4, PrizesLeaveTheVault, WalletTypes
  <2>3. incarnation' # 0
    BY <1>1 DEF Gifts, UnbornIsEmpty
  <2>4. QED
    BY <2>1, <2>2, <2>3
    DEF Gifts, UnbornIsEmpty, NobodyClosedEarly, OpenStatus, VaultHoldsDebtsAndGifts,
        KeepsItsOwn
<1>4. QED  BY <1>2, <1>3 DEF FinalizeMatch

LEMMA ReportGifts ==
  ASSUME TypeOK, Gifts, NEW m \in Matches, Report(m) \/ SettleProposal(m)
  PROVE  Gifts'
<1>1. donated' = IF status' = "Completed" THEN 0 ELSE donated
  BY DEF Report, SettleProposal, Settled
<1>2. CASE \E w \in Wallets : ReportResult(m, w)
  BY <1>1, <1>2, ResultGifts DEF ReportResult
<1>3. ASSUME NEW winner, NEW trusted, NEW signer, Settle(m, winner, trusted, signer)
      PROVE  Gifts'
  <2>1. \A p \in Players : /\ participant'[p].account = participant[p].account
                           /\ participant'[p].refund_paid = participant[p].refund_paid
    BY <1>3 DEF Settle, CreditMatchStats, TypeOK, Participant
  <2>2. QED  BY <1>1, <1>3, <2>1, ResultGifts DEF Settle
<1>4. CASE \/ \E p \in Players : ConfirmResult(m, p)
           \/ \E w \in Players : ResolveDispute(m, w)
           \/ ClaimResult(m) \/ ForceClaimDisputed(m) \/ SettleFinal(m)
  BY <1>3, <1>4
  DEF ConfirmResult, ResolveDispute, ClaimResult, ForceClaimDisputed, SettleFinal
<1>5. QED  BY <1>2, <1>4 DEF Report, SettleProposal

(***************************************************************************)
(* Every step                                                              *)
(***************************************************************************)
LEMMA StepGifts ==
  ASSUME MaxIncarnations <= 1, GiftInv, [DeployedNext]_deployedVars
  PROVE  Gifts'
<1> USE DEF GiftInv
<1>1. CASE \/ InitializeProtocol /\ OnlyConfig
           \/ MigrateProtocolConfig /\ OnlyConfig
           \/ \E choice \in SasChoices : SetSasConfig(choice) /\ OnlyConfig
           \/ \E choice \in OracleChoices : SetOracleConfig(choice) /\ OnlyConfig
           \/ MigrateV1Tournament
           \/ UNCHANGED deployedVars
  <2>1. UNCHANGED vars  BY <1>1, Bystanders
  <2>2. UNCHANGED donated
    BY <1>1 DEF OnlyConfig, MigrateV1Tournament, deployedVars, deployment
  <2>3. QED  BY <2>1, <2>2, BystandersKeepGifts DEF vars
<1>2. CASE Donate  BY <1>2, DonationIsAGift
<1>3. CASE TimePasses  BY <1>3, BracketGifts DEF TimePasses
<1>4. CASE Create  BY <1>4, CreateGifts DEF Create
<1>5. CASE Start  BY <1>5, BracketGifts DEF Start
<1>6. CASE Close  BY <1>6, CloseGifts DEF Close
<1>7. CASE SelfContained
  <2>1. UNCHANGED donated  BY <1>7 DEF SelfContained, deployment
  <2>2. CASE RequestSeed \/ (\E seed \in Seeds : RevealSeed(seed)) \/ PartialCancelTournament
    BY <2>1, <2>2, BracketGifts
  <2>3. CASE \E m \in Matches : \/ \E p, w \in Players : ProposeResult(m, p, w)
                                \/ \E w \in Signers : DisputeResult(m, w)
    <3>1. UNCHANGED <<tournament, money, participant, incarnation>>
      BY <2>3 DEF ProposeResult, Propose, DisputeResult
    <3>2. QED  BY <2>1, <3>1, BystandersKeepGifts
  <2>4. QED  BY <1>7, <2>2, <2>3 DEF SelfContained
<1>8. CASE \E p \in Players : Join(p)  BY <1>8, JoinGifts DEF Join
<1>9. ASSUME NEW chunk \in SUBSET Players, NEW withDeposit \in BOOLEAN, Refund(chunk, withDeposit)
      PROVE  Gifts'
  <2>1. /\ RefundChunk(chunk, withDeposit) /\ UNCHANGED <<incarnation, donated>>
        /\ status \in OpenStatus \cup {"Cancelled", "PartialCancelled"}
        /\ status' \in {"Cancelled", "PartialCancelled"}
    BY <1>9 DEF Refund, deployment, CancelTournament, PartialRefundChunk, tournament, OpenStatus
  <2>2. QED  BY <2>1, RefundGifts
<1>10. ASSUME NEW m \in Matches, Commit(m) \/ Bind(m) \/ ProposeFromFeed(m)
       PROVE  Gifts'
  <2>1. UNCHANGED <<tournament, money, participant, incarnation, donated>>
    BY <1>10 DEF Commit, CommitMatchLobby, Bind, BindMatchFeed, ProposeFromFeed,
                 ProposeResultOracle, Propose
  <2>2. QED  BY <2>1, BystandersKeepGifts
<1>11. CASE \E m \in Matches : Report(m) \/ SettleProposal(m)
  BY <1>11, ReportGifts
<1>12. QED
  BY <1>1, <1>2, <1>3, <1>4, <1>5, <1>6, <1>7, <1>8, <1>9, <1>10, <1>11, Zenon DEF DeployedNext

LEMMA UpgradeGifts == Upgrade => Gifts
<1> SUFFICES ASSUME Upgrade  PROVE Gifts
  OBVIOUS
<1>1. /\ unreadable \in SUBSET Players
      /\ \A p \in Players : participant[p].account = IF p \in unreadable THEN "Open" ELSE "Absent"
  BY UpgradeEntrants
<1>2. Unrefunded = {p \in unreadable : ~participant[p].refund_paid}
  BY <1>1 DEF Unrefunded
<1>3. /\ donated = 0 /\ incarnation = 1 /\ status # "None"
      /\ vault = IF status = "Completed" THEN 0
                 ELSE (IF organizer_deposit_refunded THEN 0 ELSE OrganizerDeposit)
                          + EntryFee * Cardinality({p \in unreadable : ~participant[p].refund_paid})
  BY DEF Upgrade, OldMoney, NothingDeployed
<1>4. wallet[TournamentPda] = 0
  <2>1. TournamentPda # Organizer /\ TournamentPda \notin unreadable
    BY <1>1, PartiesAssumption DEF Signers
  <2>2. wallet = [w \in Wallets |->
           - (IF w = Organizer /\ ~organizer_deposit_refunded THEN OrganizerDeposit ELSE 0)
           - (IF w \in unreadable /\ ~participant[w].refund_paid THEN EntryFee ELSE 0)]
    BY Zenon DEF Upgrade, OldMoney
  <2>3. QED  BY <2>1, <2>2, WalletTypes
<1>5. VaultHoldsDebtsAndGifts
  <2>1. status # "Completed" => vault = DepositHeld + EntryFee * Cardinality(Unrefunded)
    BY <1>2, <1>3 DEF DepositHeld
  <2>2. QED  BY <1>3, <1>4, <2>1, DebtsAreNatural DEF VaultHoldsDebtsAndGifts
<1>6. UnbornIsEmpty /\ NobodyClosedEarly
  BY <1>1, <1>3 DEF UnbornIsEmpty, NobodyClosedEarly
<1>7. QED  BY <1>3, <1>4, <1>5, <1>6 DEF Gifts, KeepsItsOwn

LEMMA GiftsAlways ==
  ASSUME MaxIncarnations <= 1
  PROVE  DeployedSpec => []Gifts
<1>1. DeployedInit => Gifts
  <2>1. FreshDeploy => Gifts
    <3> SUFFICES ASSUME FreshDeploy  PROVE Gifts
      OBVIOUS
    <3>1. MoneyInv /\ status = "None" /\ vault = 0 /\ donated = 0
      BY InitMoney DEF FreshDeploy, Init, NothingDeployed
    <3>2. wallet[TournamentPda] = 0  BY WalletTypes DEF FreshDeploy, Init
    <3>3. QED  BY <3>1, <3>2 DEF MoneyInv, Gifts, VaultHoldsDebtsAndGifts, KeepsItsOwn
  <2>2. QED  BY <2>1, UpgradeGifts DEF DeployedInit
<1>2. TypeOK /\ OldTournament /\ Gifts /\ [DeployedNext]_deployedVars => Gifts'
  BY StepGifts DEF GiftInv
<1>3. QED
  BY <1>1, <1>2, DeployedTypesHold, PTL DEF DeployedSpec

(***************************************************************************)
(* Whoever sends tokens to the vault and whenever, and whatever an upgrade *)
(* found: the vault holds the debts and the gifts.  One that was paid out  *)
(* holds what was sent since and the prizes made out to the vault itself,  *)
(* for every preset and every choice of the lower places, and one that was *)
(* closed nothing.                                                         *)
(***************************************************************************)
THEOREM GiftsChangeNoDebt ==
  ASSUME MaxIncarnations <= 1
  PROVE  DeployedSpec => []VaultHoldsDebtsAndGifts
<1>1. Gifts => VaultHoldsDebtsAndGifts  BY DEF Gifts
<1>2. QED  BY <1>1, GiftsAlways, PTL

(***************************************************************************)
(* The configuration                                                       *)
(*                                                                         *)
(* What is in it is zero or came in one instruction of the authority, and  *)
(* a layout the instructions cannot read is zero altogether.               *)
(***************************************************************************)
TrustedSas ==
    \/ config.sas_credential = Unset
    \/ \E choice \in SasChoices : /\ config.sas_credential = choice.sas_credential
                                  /\ config.sas_schemas = choice.sas_schemas

ConfigInv ==
    /\ config = [layout |-> config.layout, sas_credential |-> config.sas_credential,
                 sas_schemas |-> config.sas_schemas,
                 switchboard_queue |-> config.switchboard_queue,
                 max_stale_slots |-> config.max_stale_slots,
                 min_oracle_samples |-> config.min_oracle_samples]
    /\ config.layout \in {"None", "Old", "Current"}
    /\ config.max_stale_slots \in 0..MAX_ORACLE_STALE_SLOTS_CEILING
    /\ config.layout # "Current" => config.switchboard_queue = Unset
    /\ TrustedSas

LEMMA ZeroConfig ==
  ASSUME config = NoConfig \/ config = OldConfig
  PROVE  ConfigInv
BY DEF ConfigInv, TrustedSas, NoConfig, OldConfig, MAX_ORACLE_STALE_SLOTS_CEILING

LEMMA InitializeConfig ==
  ASSUME InitializeProtocol
  PROVE  ConfigInv'
<1>1. config' = [NoConfig EXCEPT !.layout = "Current"]
  BY DEF InitializeProtocol
<1>2. QED
  BY <1>1 DEF ConfigInv, TrustedSas, NoConfig, MAX_ORACLE_STALE_SLOTS_CEILING

LEMMA MigrateConfig ==
  ASSUME ConfigInv, MigrateProtocolConfig
  PROVE  ConfigInv'
BY DEF ConfigInv, TrustedSas, MigrateProtocolConfig

LEMMA SasConfig ==
  ASSUME ConfigInv, NEW choice \in SasChoices, SetSasConfig(choice)
  PROVE  ConfigInv'
BY DEF ConfigInv, TrustedSas, SetSasConfig, ConfigReadable

LEMMA OracleConfig ==
  ASSUME ConfigInv, NEW choice \in OracleChoices, SetOracleConfig(choice)
  PROVE  /\ ConfigInv'
         /\ config'.switchboard_queue = choice.switchboard_queue
<1>1. choice.max_stale_slots \in 0..MAX_ORACLE_STALE_SLOTS_CEILING
  <2>1. PICK slots : slots = choice.max_stale_slots  OBVIOUS
  <2>2. slots \in Nat  BY <2>1, OracleChoicesAssumption
  <2>3. slots <= MAX_ORACLE_STALE_SLOTS_CEILING
    BY <2>1, Zenon DEF SetOracleConfig, ValidBounds
  <2>4. slots \in 0..MAX_ORACLE_STALE_SLOTS_CEILING
    BY <2>2, <2>3 DEF MAX_ORACLE_STALE_SLOTS_CEILING
  <2>5. QED  BY <2>1, <2>4
<1>2. PICK queue, slots, least :
        /\ slots = choice.max_stale_slots /\ queue = choice.switchboard_queue
        /\ config' = [config EXCEPT !.switchboard_queue = queue, !.max_stale_slots = slots,
                                    !.min_oracle_samples = least]
  BY DEF SetOracleConfig
<1>3. /\ UNCHANGED <<config.layout, config.sas_credential, config.sas_schemas>>
      /\ config'.switchboard_queue = queue /\ config'.max_stale_slots = slots
      /\ config' = [layout |-> config'.layout, sas_credential |-> config'.sas_credential,
                    sas_schemas |-> config'.sas_schemas,
                    switchboard_queue |-> config'.switchboard_queue,
                    max_stale_slots |-> config'.max_stale_slots,
                    min_oracle_samples |-> config'.min_oracle_samples]
  BY <1>2 DEF ConfigInv
<1>4. config'.layout = "Current"
  BY <1>3 DEF SetOracleConfig, ConfigReadable
<1>5. TrustedSas'  BY <1>3 DEF ConfigInv, TrustedSas
<1>6. QED  BY <1>1, <1>2, <1>3, <1>4, <1>5 DEF ConfigInv

LEMMA OthersKeepConfig ==
  ASSUME [DeployedNext]_deployedVars,
         ~(InitializeProtocol /\ OnlyConfig), ~(MigrateProtocolConfig /\ OnlyConfig),
         \A choice \in SasChoices : ~(SetSasConfig(choice) /\ OnlyConfig),
         \A choice \in OracleChoices : ~(SetOracleConfig(choice) /\ OnlyConfig)
  PROVE  UNCHANGED config
<1>1. CASE MigrateV1Tournament \/ Donate \/ TimePasses \/ Create \/ UNCHANGED deployedVars
  BY <1>1 DEF MigrateV1Tournament, Donate, TimePasses, Create, deployedVars, deployment
<1>2. CASE Start \/ Close \/ SelfContained
  BY <1>2 DEF Start, Close, SelfContained, deployment
<1>3. CASE \/ \E p \in Players : Join(p)
           \/ \E chunk \in SUBSET Players, withDeposit \in BOOLEAN : Refund(chunk, withDeposit)
  BY <1>3 DEF Join, Refund, deployment
<1>4. ASSUME NEW m \in Matches,
             Commit(m) \/ Bind(m) \/ ProposeFromFeed(m) \/ Report(m) \/ SettleProposal(m)
      PROVE  UNCHANGED config
  BY <1>4 DEF Commit, Bind, ProposeFromFeed, Report, SettleProposal, Settled
<1>5. QED  BY <1>1, <1>2, <1>3, <1>4, Zenon DEF DeployedNext

LEMMA StepConfig ==
  ASSUME ConfigInv, [DeployedNext]_deployedVars
  PROVE  ConfigInv'
<1>1. CASE UNCHANGED config  BY <1>1 DEF ConfigInv, TrustedSas
<1>2. CASE config' # config
  BY <1>2, InitializeConfig, MigrateConfig, SasConfig, OracleConfig, OthersKeepConfig
<1>3. QED  BY <1>1, <1>2

(***************************************************************************)
(* Lobbies                                                                 *)
(***************************************************************************)
LobbyInv ==
    /\ commitment = [m \in Matches |-> commitment[m]]
    /\ switchboard_feed = [m \in Matches |-> switchboard_feed[m]]
    /\ committed = {m \in Matches : commitment[m] # NoCommitment}
    /\ feed_bound = {m \in Matches : switchboard_feed[m] # NoAccount}

LEMMA LobbyStays ==
  ASSUME LobbyInv, UNCHANGED <<oracle, commitment, switchboard_feed>>
  PROVE  LobbyInv'
BY DEF LobbyInv, oracle

LEMMA LobbyForgets ==
  ASSUME LobbyInv, LobbyFollows, NEW gone,
         committed' = committed \ gone, feed_bound' = feed_bound \ gone
  PROVE  LobbyInv'
<1>1. /\ commitment' = [m \in Matches |-> IF m \in committed' THEN commitment[m] ELSE NoCommitment]
      /\ switchboard_feed' = [m \in Matches |->
             IF m \in feed_bound' THEN switchboard_feed[m] ELSE NoAccount]
  BY DEF LobbyFollows
<1>2. \A m \in Matches : m \in committed' <=> commitment'[m] # NoCommitment
  BY <1>1 DEF LobbyInv
<1>3. \A m \in Matches : m \in feed_bound' <=> switchboard_feed'[m] # NoAccount
  BY <1>1 DEF LobbyInv
<1>4. committed' \subseteq Matches /\ feed_bound' \subseteq Matches
  BY DEF LobbyInv
<1>5. QED  BY <1>1, <1>2, <1>3, <1>4 DEF LobbyInv

LEMMA CommitFills ==
  ASSUME LobbyInv, NEW m \in Matches, Commit(m)
  PROVE  LobbyInv'
<1>1. committed' = committed \cup {m} /\ UNCHANGED <<feed_bound, switchboard_feed>>
  BY DEF Commit, CommitMatchLobby
<1>2. PICK hash \in FeedHashes :
        commitment' = [commitment EXCEPT
          ![m] = [player_a_game_id |-> IdentityHash(node[m].player_a),
                  player_b_game_id |-> IdentityHash(node[m].player_b),
                  expected_feed_hash |-> hash]]
  BY DEF Commit
<1>3. PICK fields : fields # NoCommitment /\ commitment' = [commitment EXCEPT ![m] = fields]
  BY <1>2, DeploymentAssumption DEF NoCommitment
<1>4. QED  BY <1>1, <1>3 DEF LobbyInv

LEMMA BindFills ==
  ASSUME LobbyInv, NEW m \in Matches, Bind(m)
  PROVE  LobbyInv'
<1>1. feed_bound' = feed_bound \cup {m} /\ UNCHANGED <<committed, commitment>>
  BY DEF Bind, BindMatchFeed
<1>2. PICK feed \in FeedAccounts : switchboard_feed' = [switchboard_feed EXCEPT ![m] = feed]
  BY DEF Bind
<1>3. feed # NoAccount  BY DeploymentAssumption
<1>4. QED  BY <1>1, <1>2, <1>3 DEF LobbyInv

LEMMA StepLobby ==
  ASSUME LobbyInv, [DeployedNext]_deployedVars
  PROVE  LobbyInv'
<1>1. CASE Start
  <2>1. PICK ids \in SUBSET Matches : committed' = committed \ ids /\ feed_bound' = feed_bound \ ids
    BY <1>1 DEF Start, StartTournament
  <2>2. QED  BY <1>1, <2>1, LobbyForgets DEF Start
<1>2. CASE Close
  <2>1. PICK nodes \in SUBSET Matches :
          committed' = committed \ nodes /\ feed_bound' = feed_bound \ nodes
    BY <1>2 DEF Close, CloseTournament, CloseChildren
  <2>2. QED  BY <1>2, <2>1, LobbyForgets DEF Close
<1>3. CASE \E m \in Matches : Commit(m)  BY <1>3, CommitFills
<1>4. CASE \E m \in Matches : Bind(m)  BY <1>4, BindFills
<1>5. QED  BY <1>1, <1>2, <1>3, <1>4, OthersKeepTheLobby, LobbyStays

(***************************************************************************)
(* The other accounts                                                      *)
(***************************************************************************)
RestInv ==
    /\ game \in Games \cup {"Manual"}
    /\ attested \in [Players -> Attestations \cup {NoAccount}]
    /\ layout \in {"Current", "MVP", "Migrated"}
    /\ unreadable \subseteq Players
    /\ donated \in Nat

LEMMA StepRest ==
  ASSUME RestInv, [DeployedNext]_deployedVars
  PROVE  RestInv'
<1>1. CASE \/ InitializeProtocol /\ OnlyConfig
           \/ MigrateProtocolConfig /\ OnlyConfig
           \/ \E choice \in SasChoices : SetSasConfig(choice) /\ OnlyConfig
           \/ \E choice \in OracleChoices : SetOracleConfig(choice) /\ OnlyConfig
           \/ UNCHANGED deployedVars
  BY <1>1 DEF RestInv, OnlyConfig, deployedVars, deployment, identity, upgrade
<1>2. CASE MigrateV1Tournament
  BY <1>2 DEF RestInv, MigrateV1Tournament, identity
<1>3. CASE Donate \/ TimePasses \/ Create
  BY <1>3 DEF RestInv, Donate, TimePasses, Create, identity, upgrade
<1>4. CASE Start \/ Close \/ SelfContained
  BY <1>4 DEF RestInv, Start, Close, SelfContained, deployment, identity, upgrade
<1>5. CASE \E p \in Players : Join(p)
  BY <1>5 DEF RestInv, Join
<1>6. CASE \E chunk \in SUBSET Players, withDeposit \in BOOLEAN : Refund(chunk, withDeposit)
  BY <1>6 DEF RestInv, Refund, deployment, identity, upgrade
<1>7. ASSUME NEW m \in Matches,
             Commit(m) \/ Bind(m) \/ ProposeFromFeed(m) \/ Report(m) \/ SettleProposal(m)
      PROVE  RestInv'
  BY <1>7 DEF RestInv, Commit, Bind, ProposeFromFeed, Report, SettleProposal, Settled,
              identity, upgrade
<1>8. QED  BY <1>1, <1>2, <1>3, <1>4, <1>5, <1>6, <1>7, Zenon DEF DeployedNext

DeployedInv == ConfigInv /\ LobbyInv /\ RestInv

LEMMA DeployedInitInv == DeployedInit => DeployedInv
<1> SUFFICES ASSUME DeployedInit  PROVE DeployedInv
  OBVIOUS
<1>1. /\ NothingDeployed /\ committed = {} /\ feed_bound = {}
      /\ config = NoConfig \/ config = OldConfig
      /\ layout \in {"Current", "MVP"} /\ unreadable \subseteq Players
  BY UpgradeEntrants DEF DeployedInit, FreshDeploy, Upgrade, Init
<1>2. ConfigInv  BY <1>1, ZeroConfig
<1>3. LobbyInv  BY <1>1 DEF NothingDeployed, LobbyInv
<1>4. RestInv  BY <1>1 DEF NothingDeployed, RestInv
<1>5. QED  BY <1>2, <1>3, <1>4 DEF DeployedInv

(***************************************************************************)
(* The accounts of the deployment hold what their structs declare, and the *)
(* oracle's parameters stay within the bounds of constants.rs, whatever    *)
(* the authority's calls are given and in whatever layout they find it.    *)
(***************************************************************************)
THEOREM DeploymentIsTyped == DeployedSpec => []DeployedTypeOK
<1>1. DeployedInv /\ [DeployedNext]_deployedVars => DeployedInv'
  BY StepConfig, StepLobby, StepRest DEF DeployedInv
<1>2. DeployedInv => DeployedTypeOK
  BY DEF DeployedInv, ConfigInv, LobbyInv, RestInv, DeployedTypeOK
<1>3. QED  BY <1>1, <1>2, DeployedInitInv, PTL DEF DeployedSpec

(***************************************************************************)
(* An oracle nobody configured                                             *)
(***************************************************************************)
\* Pubkey::default() is no queue of Switchboard's: no feed is on it, and the
\* authority, whose word set_oracle_config takes, does not name it.
QueuesAreReal ==
    /\ \A feed \in FeedAccounts : feed.owner = "OnDemand" => feed.queue # Unset
    /\ \A choice \in OracleChoices : choice.switchboard_queue # Unset

InertInv ==
    config.switchboard_queue = Unset =>
        \A m \in Matches : m \notin feed_bound /\ envelope[m].source # "Oracle"

\* No other instruction makes a proposal the oracle's or binds a feed.
NoOracleStep ==
    /\ feed_bound' \subseteq feed_bound
    /\ \A m \in Matches : envelope'[m].source = "Oracle" => envelope[m].source = "Oracle"

LEMMA OthersBindNothing ==
  ASSUME TypeOK, OldTournament, [DeployedNext]_deployedVars,
         \A m \in Matches : ~Bind(m) /\ ~ProposeFromFeed(m)
  PROVE  NoOracleStep
<1> USE DEF NoOracleStep
<1>1. CASE \/ InitializeProtocol /\ OnlyConfig
           \/ MigrateProtocolConfig /\ OnlyConfig
           \/ \E choice \in SasChoices : SetSasConfig(choice) /\ OnlyConfig
           \/ \E choice \in OracleChoices : SetOracleConfig(choice) /\ OnlyConfig
           \/ MigrateV1Tournament \/ Donate \/ UNCHANGED deployedVars
  BY <1>1 DEF OnlyConfig, MigrateV1Tournament, Donate, deployedVars, vars, matches, oracle
<1>2. CASE Create \/ \E p \in Players : Join(p)
  BY <1>2 DEF Create, CreateTournament, Join, JoinTournament, matches, oracle
<1>3. CASE \E chunk \in SUBSET Players, withDeposit \in BOOLEAN : Refund(chunk, withDeposit)
  BY <1>3 DEF Refund, CancelTournament, PartialRefundChunk, matches, oracle
<1>4. CASE TimePasses
  BY <1>4 DEF TimePasses, Tick, oracle, TypeOK, Envelope
<1>5. CASE Start \/ Close
  <2>1. PICK gone :
          /\ envelope' = [m \in Matches |-> IF m \in gone THEN EmptyEnvelope ELSE envelope[m]]
          /\ feed_bound' = feed_bound \ gone
    BY <1>5 DEF Start, StartTournament, Close, CloseTournament, CloseChildren
  <2>2. QED  BY <2>1 DEF EmptyEnvelope
<1>6. CASE SelfContained
  <2>1. CASE RequestSeed \/ (\E seed \in Seeds : RevealSeed(seed)) \/ PartialCancelTournament
    BY <2>1 DEF RequestSeed, RevealSeed, PartialCancelTournament, matches, oracle
  <2>2. ASSUME NEW m \in Matches, NEW p \in Players, NEW w \in Players, ProposeResult(m, p, w)
        PROVE  NoOracleStep
    BY <2>2 DEF ProposeResult, Propose, oracle, TypeOK
  <2>3. ASSUME NEW m \in Matches, NEW w \in Signers, DisputeResult(m, w)
        PROVE  NoOracleStep
    BY <2>3 DEF DisputeResult, Contested, oracle, TypeOK, Envelope
  <2>4. QED  BY <1>6, <2>1, <2>2, <2>3 DEF SelfContained
<1>7. ASSUME NEW m \in Matches, Commit(m) \/ Report(m) \/ SettleProposal(m)
      PROVE  NoOracleStep
  BY <1>7 DEF Commit, CommitMatchLobby, Report, ReportResult, SettleProposal, ConfirmResult,
              ResolveDispute, ClaimResult, ForceClaimDisputed, SettleFinal, Settle,
              FinalizeMatch, oracle
<1>8. QED
  BY <1>1, <1>2, <1>3, <1>4, <1>5, <1>6, <1>7, Zenon DEF DeployedNext

LEMMA StepInert ==
  ASSUME QueuesAreReal, TypeOK, OldTournament, ConfigInv, InertInv,
         [DeployedNext]_deployedVars
  PROVE  InertInv'
<1>1. CASE \E choice \in OracleChoices : SetOracleConfig(choice) /\ OnlyConfig
  BY <1>1, OracleConfig DEF QueuesAreReal, InertInv
<1>2. CASE \E m \in Matches : Bind(m)
  BY <1>2 DEF Bind, OnQueue, QueuesAreReal, InertInv
<1>3. CASE \E m \in Matches : ProposeFromFeed(m)
  <2>1. PICK m \in Matches : ProposeFromFeed(m)  BY <1>3
  <2>2. m \in feed_bound /\ UNCHANGED config
    BY <2>1 DEF ProposeFromFeed, ProposeResultOracle
  <2>3. QED  BY <2>1, <2>2 DEF InertInv
<1>4. CASE \A m \in Matches : ~Bind(m) /\ ~ProposeFromFeed(m)
  <2>1. NoOracleStep  BY <1>4, OthersBindNothing
  <2>2. config'.switchboard_queue = Unset => config.switchboard_queue = Unset
    <3>1. CASE UNCHANGED config  BY <3>1
    <3>2. CASE InitializeProtocol  BY <3>2 DEF InitializeProtocol, ConfigInv
    <3>3. CASE MigrateProtocolConfig  BY <3>3 DEF MigrateProtocolConfig, ConfigInv
    <3>4. CASE \E choice \in SasChoices : SetSasConfig(choice)
      BY <3>4 DEF SetSasConfig, ConfigInv
    <3>5. CASE \E choice \in OracleChoices : SetOracleConfig(choice)
      BY <3>5, OracleConfig DEF QueuesAreReal
    <3>6. QED  BY <3>1, <3>2, <3>3, <3>4, <3>5, OthersKeepConfig
  <2>3. QED  BY <2>1, <2>2 DEF InertInv, NoOracleStep
<1>5. QED  BY <1>2, <1>3, <1>4

(***************************************************************************)
(* Zeroed oracle parameters, of a new or a migrated configuration, bind no *)
(* feed and settle nothing, if the zero key is no queue.                   *)
(***************************************************************************)
THEOREM InertUntilConfigured ==
  ASSUME QueuesAreReal
  PROVE  DeployedSpec => []UnconfiguredOracleIsInert
<1>1. DeployedInit => InertInv
  <2>1. DeployedInit => feed_bound = {} /\ envelope = [m \in Matches |-> EmptyEnvelope]
    BY DEF DeployedInit, FreshDeploy, Upgrade, Init
  <2>2. QED  BY <2>1 DEF InertInv, EmptyEnvelope
<1>2. TypeOK /\ OldTournament /\ DeployedInv /\ InertInv /\ [DeployedNext]_deployedVars
        => DeployedInv' /\ InertInv'
  BY StepConfig, StepLobby, StepRest, StepInert DEF DeployedInv
<1>3. DeployedInv /\ InertInv => UnconfiguredOracleIsInert
  BY DEF DeployedInv, LobbyInv, InertInv, UnconfiguredOracleIsInert, OpenNodes
<1>4. QED
  BY <1>1, <1>2, <1>3, DeployedInitInv, DeployedTypesHold, PTL DEF DeployedSpec

(***************************************************************************)
(* What an oracle's proposal rests on                                      *)
(***************************************************************************)
Decisive(e) ==
    /\ e.agree >= 1 /\ e.fresh >= MIN_ORACLE_SAMPLES_FLOOR
    /\ 2 * e.rival <= e.fresh

EvidenceInv ==
    /\ evidence = [m \in Matches |-> evidence[m]]
    /\ \A m \in Matches : envelope[m].source = "Oracle" => Decisive(evidence[m])

LEMMA Larger ==
  ASSUME NEW S, NEW T, IsFiniteSet(T), S \subseteq T
  PROVE  /\ Cardinality(S) \in Nat /\ Cardinality(T) \in Nat
         /\ Cardinality(S) <= Cardinality(T)
BY FS_Subset, FS_CardinalityType, Zenon

LEMMA Inhabited ==
  ASSUME NEW S, IsFiniteSet(S), NEW x \in S
  PROVE  Cardinality(S) \in Nat /\ Cardinality(S) >= 1
<1>1. Cardinality(S) \in Nat  BY FS_CardinalityType, Zenon
<1>2. Cardinality(S) # 0  BY FS_EmptySet, Zenon
<1>3. QED  BY <1>1, <1>2

\* A value that names a player is the first or the second, and in this order.
LEMMA NamesInOrder ==
  ASSUME NEW m, NEW v \in Int, NEW u \in Int, NEW winner, NEW other, other # winner,
         ResolveOracleWinner(m, v, winner), ResolveOracleWinner(m, u, other)
  PROVE  \/ /\ winner = node[m].player_a /\ ToU64(v) = 0
            /\ u > v
         \/ /\ winner = node[m].player_b /\ ToU64(v) = 1
            /\ u < v
BY DEF ResolveOracleWinner, ToU64

Below(sampling, who, v) == {o \in who : sampling[o].value < v}
Above(sampling, who, v) == {o \in who : sampling[o].value > v}

LEMMA MedianLies ==
  ASSUME NEW sampling, NEW who, NEW v, v \in Medians(sampling, who)
  PROVE  /\ 2 * Cardinality(Below(sampling, who, v)) <= Cardinality(who)
         /\ 2 * Cardinality(Above(sampling, who, v)) <= Cardinality(who)
         /\ \E o \in who : v = sampling[o].value
BY Zenon DEF Medians, Below, Above

(***************************************************************************)
(* The samples that name the opponent lie on one side of a median, so they *)
(* are at most half of the fresh ones.                                     *)
(***************************************************************************)
LEMMA MedianDecides ==
  ASSUME NEW m, NEW sampling \in Samplings, NEW least,
         NEW v \in GetValue(sampling, config.max_stale_slots, least),
         NEW winner \in PlayersOf(m), ResolveOracleWinner(m, v, winner)
  PROVE  Decisive(Evidence(m, sampling, winner))
<1>1. PICK who \in SUBSET Oracles : sampling \in [who -> [value : SampleValues, age : SampleAges]]
  BY DEF Samplings
<1>a. PICK recent : recent = Fresh(sampling, config.max_stale_slots)
  OBVIOUS
<1> DEFINE naming(w) == {o \in recent : ResolveOracleWinner(m, sampling[o].value, w)}
           rivals == UNION {naming(w) : w \in PlayersOf(m) \ {winner}}
<1>b. PICK below : below = Below(sampling, recent, v)
  OBVIOUS
<1>c. PICK above : above = Above(sampling, recent, v)
  OBVIOUS
<1>2. IsFiniteSet(recent)
  <2>1. recent \subseteq Oracles  BY <1>1, <1>a DEF Fresh
  <2>2. QED  BY <2>1, OraclesAssumption, FS_Subset, Zenon
<1>3. \A o \in recent : sampling[o].value \in Int
  BY <1>1, <1>a, DeploymentAssumption, ParametersAssumption DEF Fresh
<1>4. /\ 2 * Cardinality(below) <= Cardinality(recent)
      /\ 2 * Cardinality(above) <= Cardinality(recent)
      /\ \E o \in recent : v = sampling[o].value
  <2>1. v \in Medians(sampling, recent)  BY <1>a DEF GetValue
  <2>2. QED  BY <1>b, <1>c, <2>1, MedianLies
<1>5. PICK o \in recent : v = sampling[o].value
  BY <1>4
<1>6. v \in Int  BY <1>3, <1>5
<1>7. Cardinality(naming(winner)) >= 1
  <2>1. o \in naming(winner)  BY <1>5
  <2>2. IsFiniteSet(naming(winner))
    <3>1. naming(winner) \subseteq recent  OBVIOUS
    <3>2. QED  BY <1>2, <3>1, FS_Subset, Zenon
  <2>3. QED  BY <2>1, <2>2, Inhabited, Zenon
<1>8. Cardinality(recent) \in Nat /\ Cardinality(recent) >= 1
  BY <1>2, <1>5, Inhabited, Zenon
<1>9. rivals \subseteq above \/ rivals \subseteq below
  <2>1. \A r \in rivals : r \in recent /\ sampling[r].value \in Int
                          /\ \E other : other # winner
                               /\ ResolveOracleWinner(m, sampling[r].value, other)
    BY <1>3
  <2> HIDE DEF rivals
  <2>2. CASE ToU64(v) = 0
    <3>1. ASSUME NEW r \in rivals  PROVE r \in above
      <4>1. PICK other : other # winner /\ ResolveOracleWinner(m, sampling[r].value, other)
        BY <2>1
      <4>2. QED  BY <1>c, <1>6, <2>1, <2>2, <4>1, NamesInOrder DEF Below, Above
    <3>2. QED  BY <3>1
  <2>3. CASE ToU64(v) # 0
    <3>1. ASSUME NEW r \in rivals  PROVE r \in below
      <4>1. PICK other : other # winner /\ ResolveOracleWinner(m, sampling[r].value, other)
        BY <2>1
      <4>2. QED  BY <1>b, <1>6, <2>1, <2>3, <4>1, NamesInOrder DEF Below, Above
    <3>2. QED  BY <3>1
  <2>4. QED  BY <2>2, <2>3
<1>10. 2 * Cardinality(rivals) <= Cardinality(recent)
  <2>1. below \subseteq recent /\ above \subseteq recent  BY <1>b, <1>c DEF Below, Above
  <2>2. IsFiniteSet(below) /\ IsFiniteSet(above)
    BY <1>2, <2>1, FS_Subset, Zenon
  <2>3. /\ Cardinality(below) \in Nat /\ Cardinality(above) \in Nat
        /\ Cardinality(rivals) \in Nat
        /\ Cardinality(rivals) <= Cardinality(above) \/ Cardinality(rivals) <= Cardinality(below)
    BY <1>9, <2>2, Larger, FS_CardinalityType, Zenon
  <2>4. QED  BY <1>4, <1>8, <2>3
<1>11. Evidence(m, sampling, winner)
         = [fresh |-> Cardinality(recent), agree |-> Cardinality(naming(winner)),
            rival |-> Cardinality(rivals)]
  BY <1>a, Zenon DEF Evidence, Fresh
<1> HIDE DEF naming, rivals
<1>12. QED
  BY <1>7, <1>8, <1>10, <1>11 DEF Decisive, MIN_ORACLE_SAMPLES_FLOOR

LEMMA ProposalRests ==
  ASSUME TypeOK, EvidenceInv, NEW m \in Matches, ProposeFromFeed(m)
  PROVE  EvidenceInv'
<1>1. PICK sampling \in Samplings :
        /\ \E value \in GetValue(sampling, config.max_stale_slots, config.min_oracle_samples),
              relayer \in Players \cup {Relayer} : ProposeResultOracle(m, relayer, value)
        /\ evidence' = [evidence EXCEPT
               ![m] = Evidence(m, sampling, envelope'[m].proposed_winner)]
  BY Zenon DEF ProposeFromFeed
<1>2. PICK value \in GetValue(sampling, config.max_stale_slots, config.min_oracle_samples),
           relayer \in Players \cup {Relayer} : ProposeResultOracle(m, relayer, value)
  BY <1>1, Zenon
<1>3. PICK winner \in PlayersOf(m) : /\ ResolveOracleWinner(m, value, winner)
                                     /\ Propose(m, "Oracle", relayer, winner)
  BY <1>2 DEF ProposeResultOracle
<1>4. /\ envelope'[m].proposed_winner = winner
      /\ \A n \in Matches \ {m} : envelope'[n] = envelope[n]
  BY <1>3 DEF Propose, TypeOK
<1>5. Decisive(Evidence(m, sampling, winner))
  BY <1>2, <1>3, MedianDecides, Zenon
<1>6. evidence' = [n \in Matches |-> IF n = m THEN Evidence(m, sampling, winner) ELSE evidence[n]]
  BY <1>1, <1>4 DEF EvidenceInv
<1>7. QED  BY <1>4, <1>5, <1>6 DEF EvidenceInv

\* Nothing else makes a proposal the oracle's, or rewrites what one rests on.
NoNewOracle ==
    /\ \A m \in Matches : envelope'[m].source = "Oracle" =>
         envelope[m].source = "Oracle" /\ evidence'[m] = evidence[m]
    /\ evidence' = [m \in Matches |-> evidence'[m]]

LEMMA EvidenceKept ==
  ASSUME EvidenceInv, NoNewOracle
  PROVE  EvidenceInv'
BY DEF EvidenceInv, NoNewOracle

LEMMA SameEvidence ==
  ASSUME EvidenceInv, UNCHANGED evidence,
         \A m \in Matches : envelope'[m].source = "Oracle" => envelope[m].source = "Oracle"
  PROVE  EvidenceInv'
BY DEF EvidenceInv

LEMMA EvidenceFollows ==
  ASSUME EvidenceInv, LobbyFollows, NEW gone,
         envelope' = [m \in Matches |-> IF m \in gone THEN EmptyEnvelope ELSE envelope[m]]
  PROVE  EvidenceInv'
<1>1. evidence' = [m \in Matches |->
        IF envelope'[m].source = "Oracle" THEN evidence[m] ELSE NoEvidence]
  BY DEF LobbyFollows
<1>2. \A m \in Matches : envelope'[m].source = "Oracle" => envelope[m].source = "Oracle"
  BY DEF EmptyEnvelope
<1>3. NoNewOracle
  BY <1>1, <1>2 DEF NoNewOracle
<1>4. QED  BY <1>3, EvidenceKept

LEMMA StepEvidence ==
  ASSUME TypeOK, OldTournament, EvidenceInv, [DeployedNext]_deployedVars
  PROVE  EvidenceInv'
<1>1. CASE \/ InitializeProtocol /\ OnlyConfig
           \/ MigrateProtocolConfig /\ OnlyConfig
           \/ \E choice \in SasChoices : SetSasConfig(choice) /\ OnlyConfig
           \/ \E choice \in OracleChoices : SetOracleConfig(choice) /\ OnlyConfig
           \/ MigrateV1Tournament \/ Donate \/ UNCHANGED deployedVars
  <2>1. UNCHANGED <<envelope, evidence>>
    BY <1>1 DEF OnlyConfig, MigrateV1Tournament, Donate, deployedVars, deployment, vars,
                matches, lobby
  <2>2. QED  BY <2>1, SameEvidence
<1>2. CASE Create \/ \E p \in Players : Join(p)
  <2>1. UNCHANGED <<envelope, evidence>>
    BY <1>2 DEF Create, CreateTournament, Join, JoinTournament, lobby, matches
  <2>2. QED  BY <2>1, SameEvidence
<1>3. CASE \E chunk \in SUBSET Players, withDeposit \in BOOLEAN : Refund(chunk, withDeposit)
  <2>1. UNCHANGED <<envelope, evidence>>
    BY <1>3 DEF Refund, CancelTournament, PartialRefundChunk, deployment, lobby, matches
  <2>2. QED  BY <2>1, SameEvidence
<1>4. CASE TimePasses
  <2>1. \A m \in Matches : envelope'[m].source = envelope[m].source
    BY <1>4 DEF TimePasses, Tick, TypeOK, Envelope
  <2>2. UNCHANGED evidence  BY <1>4 DEF TimePasses, lobby
  <2>3. QED  BY <2>1, <2>2, SameEvidence
<1>5. CASE Start
  <2>1. PICK ids \in SUBSET Matches :
          envelope' = [m \in Matches |-> IF m \in ids THEN EmptyEnvelope ELSE envelope[m]]
    BY <1>5 DEF Start, StartTournament
  <2>2. QED  BY <1>5, <2>1, EvidenceFollows DEF Start
<1>6. CASE Close
  <2>1. PICK nodes \in SUBSET Matches :
          envelope' = [m \in Matches |-> IF m \in nodes THEN EmptyEnvelope ELSE envelope[m]]
    BY <1>6 DEF Close, CloseTournament, CloseChildren
  <2>2. QED  BY <1>6, <2>1, EvidenceFollows DEF Close
<1>7. CASE SelfContained
  <2>1. UNCHANGED evidence  BY <1>7 DEF SelfContained, deployment, lobby
  <2>2. CASE RequestSeed \/ (\E seed \in Seeds : RevealSeed(seed)) \/ PartialCancelTournament
    <3>1. UNCHANGED envelope
      BY <2>2 DEF RequestSeed, RevealSeed, PartialCancelTournament, matches
    <3>2. QED  BY <2>1, <3>1, SameEvidence
  <2>3. ASSUME NEW m \in Matches, NEW p \in Players, NEW w \in Players, ProposeResult(m, p, w)
        PROVE  EvidenceInv'
    BY <2>1, <2>3, SameEvidence DEF ProposeResult, Propose, TypeOK
  <2>4. ASSUME NEW m \in Matches, NEW w \in Signers, DisputeResult(m, w)
        PROVE  EvidenceInv'
    BY <2>1, <2>4, SameEvidence DEF DisputeResult, Contested, TypeOK, Envelope
  <2>5. QED  BY <1>7, <2>2, <2>3, <2>4 DEF SelfContained
<1>8. ASSUME NEW m \in Matches, Commit(m) \/ Bind(m) \/ Report(m) \/ SettleProposal(m)
      PROVE  EvidenceInv'
  <2>1. UNCHANGED <<envelope, evidence>>
    BY <1>8 DEF Commit, CommitMatchLobby, Bind, BindMatchFeed, Report, ReportResult, Settled,
                SettleProposal, ConfirmResult, ResolveDispute, ClaimResult, ForceClaimDisputed,
                SettleFinal, Settle, FinalizeMatch, lobby
  <2>2. QED  BY <2>1, SameEvidence
<1>9. CASE \E m \in Matches : ProposeFromFeed(m)  BY <1>9, ProposalRests
<1>10. QED
  BY <1>1, <1>2, <1>3, <1>4, <1>5, <1>6, <1>7, <1>8, <1>9, Zenon DEF DeployedNext

(***************************************************************************)
(* Whatever oracles report and whatever the staleness and the quorum are   *)
(* configured to be, between which samples and whenever: a proposal of the *)
(* oracle's never goes against a majority of the fresh samples.            *)
(***************************************************************************)
THEOREM MajoritiesDecide == DeployedSpec => []FreshMajorityDecides
<1>1. DeployedInit => EvidenceInv
  <2>1. DeployedInit => NothingDeployed /\ envelope = [m \in Matches |-> EmptyEnvelope]
    BY DEF DeployedInit, FreshDeploy, Upgrade, Init
  <2>2. QED  BY <2>1 DEF NothingDeployed, EvidenceInv, EmptyEnvelope
<1>2. TypeOK /\ OldTournament /\ EvidenceInv /\ [DeployedNext]_deployedVars => EvidenceInv'
  BY StepEvidence
<1>3. EvidenceInv => FreshMajorityDecides
  BY DEF EvidenceInv, FreshMajorityDecides, Decisive, OpenNodes
<1>4. QED  BY <1>1, <1>2, <1>3, DeployedTypesHold, PTL DEF DeployedSpec

(***************************************************************************)
(* The bracket of the deployed program                                     *)
(*                                                                         *)
(* A tournament the upgrade finds under way has no matches yet, as far as  *)
(* the program can see, so it is a bracket as good as any.                 *)
(***************************************************************************)
LEMMA UpgradeBracket == Upgrade => BracketInv
<1> SUFFICES ASSUME Upgrade  PROVE BracketInv
  OBVIOUS
<1>1. OpenNodes = {}  BY DEF Upgrade, OpenNodes, NoNode
<1>2. /\ status # "None" /\ incarnation = 1
      /\ status \in {"PendingBracketInit", "Active"} =>
           /\ participant_count >= MIN_PARTICIPANTS
           /\ bracket_size = BracketSize(participant_count)
  BY DEF Upgrade, OldBracket
<1>3. PICK joined \in SUBSET Players :
        /\ participant_count \in Nat /\ participant_count <= MaxParticipants
        /\ \A p \in Players : participant[p].account = IF p \in joined THEN "Open" ELSE "Absent"
        /\ \A p \in joined : participant[p].seed_index < participant_count
        /\ \A p, q \in joined : p # q => participant[p].seed_index # participant[q].seed_index
  BY UpgradeEntrants
<1>6. OpenParticipants \subseteq joined  BY <1>3 DEF OpenParticipants
<1>7. NumbersDiffer  BY <1>3, <1>6 DEF NumbersDiffer
<1>8. NumbersTaken  BY <1>3, <1>6 DEF NumbersTaken
<1>9. InBracket
  <2> SUFFICES ASSUME status \in {"PendingBracketInit", "Active"}
               PROVE  bracket_size \in PowersOfTwo
    BY <1>1 DEF InBracket
  <2>1. participant_count \in MIN_PARTICIPANTS..MAX_PARTICIPANTS
    BY <1>2, <1>3, ParametersAssumption DEF MIN_PARTICIPANTS, MAX_PARTICIPANTS
  <2>2. QED  BY <1>2, <2>1, BracketSizeFits
<1>10. NoLeftovers /\ AsDrawn /\ Sound /\ Mirrored
  BY <1>1, <1>2 DEF NoLeftovers, AsDrawn, Sound, Mirrored
<1>11. QED  BY <1>7, <1>8, <1>9, <1>10 DEF BracketInv, Field

LEMMA DonateBracket ==
  ASSUME BracketInv, Donate
  PROVE  BracketInv'
<1>1. SameField /\ UNCHANGED <<node, status, seed_hash>>
  BY DEF Donate, SameField, tournament, counters, seeding, matches
<1>2. QED  BY <1>1, QuietKeepsBracket

LEMMA BracketAlways ==
  ASSUME MaxIncarnations <= 1, OneLane
  PROVE  DeployedSpec => [](Enrolled /\ (Validated => BracketInv))
<1>1. DeployedSpec => []RightsInv
  BY StepRights, DeployedInitRights, PTL DEF DeployedSpec
<1>2. DeployedInit => BracketInv
  BY InitBracket, UpgradeBracket DEF DeployedInit, FreshDeploy
<1>3. ASSUME TypeOK, OldTournament, [DeployedNext]_deployedVars, Validated'
      PROVE  Validated
  <2>1. CASE [Next]_vars  BY <1>3, <2>1, ValidatedBefore
  <2>2. CASE Donate  BY <1>3, <2>2 DEF Donate, Validated, tournament, terms
  <2>3. QED  BY <1>3, <2>1, <2>2, DeployedStep
<1>4. ASSUME Enrolled, RightsInv, TypeOK', Validated, BracketInv, [DeployedNext]_deployedVars
      PROVE  BracketInv'
  <2>1. CASE [Next]_vars  BY <1>4, <2>1, StepBracket DEF RightsInv
  <2>2. CASE Donate  BY <1>4, <2>2, DonateBracket
  <2>3. QED  BY <1>4, <2>1, <2>2, DeployedStep DEF RightsInv
<1>5. TypeOK /\ Gifts => Enrolled  BY DEF Gifts, Enrolled
<1>6. QED
  BY <1>1, <1>2, <1>3, <1>4, <1>5, DeployedTypesHold, GiftsAlways, PTL DEF DeployedSpec

(***************************************************************************)
(* The bracket of the program as it is deployed: winners move into the     *)
(* slots of their feeders, and matches are playable when both are taken,   *)
(* through every rotation, gift and oracle, and after an upgrade.          *)
(***************************************************************************)
THEOREM WinnersMoveUpDeployed ==
  ASSUME MaxIncarnations <= 1, OneLane
  PROVE  DeployedSpec => []SlotsMirrorFeeders
<1>1. Enrolled /\ (Validated => BracketInv) => SlotsMirrorFeeders
  <2>1. CASE Validated  BY <2>1, SlotsMirror
  <2>2. CASE ~Validated  BY <2>2, SeededIsValidated DEF SlotsMirrorFeeders
  <2>3. QED  BY <2>1, <2>2
<1>2. QED  BY <1>1, BracketAlways, PTL

(***************************************************************************)
(* Who is named in a commitment                                            *)
(***************************************************************************)
\* SAS makes no attestation without a credential; validate_attestation, which
\* compares with what is configured, would take one where nothing is.
RealCredentials == \A a \in Attestations : a.owner = "SAS" => a.credential # Unset

Entered == {p \in Players : participant[p].account # "Absent"}

Names(m) ==
    /\ commitment[m].player_a_game_id = IdentityHash(node[m].player_a)
    /\ commitment[m].player_b_game_id = IdentityHash(node[m].player_b)

NamedInv ==
    /\ committed # {} => settlement_mode = "Oracle"
    /\ \A m \in committed : /\ node[m].status \in {"Active", "Completed"}
                            /\ PlayersOf(m) \subseteq Entered
                            /\ Names(m)
    /\ game # "Manual" => \A p \in Entered : VouchedFor(p)

\* What keeps the committed matches between whom they are.
SeatsKept ==
    /\ committed' \subseteq committed
    /\ \A m \in committed' :
         /\ node'[m].player_a = node[m].player_a /\ node'[m].player_b = node[m].player_b
         /\ node'[m].status \in {"Active", "Completed"}
         /\ commitment'[m] = commitment[m]

\* What keeps those who entered who they are.
IdentitiesKept ==
    /\ Entered' = Entered
    /\ UNCHANGED <<game, attested>>

LEMMA KeptNamed ==
  ASSUME NamedInv, SeatsKept, IdentitiesKept, UNCHANGED settlement_mode
  PROVE  NamedInv'
<1>1. \A p : IdentityHash(p)' = IdentityHash(p) /\ VouchedFor(p)' = VouchedFor(p)
  BY DEF IdentitiesKept, IdentityHash, VouchedFor
<1>2. ASSUME NEW m \in committed'
      PROVE  PlayersOf(m)' = PlayersOf(m) /\ Names(m)'
  <2>1. /\ m \in committed /\ commitment'[m] = commitment[m]
        /\ node'[m].player_a = node[m].player_a /\ node'[m].player_b = node[m].player_b
    BY <1>2 DEF SeatsKept
  <2>2. Names(m)  BY <2>1 DEF NamedInv
  <2>3. attested' = attested  BY DEF IdentitiesKept
  <2>4. QED  BY <2>1, <2>2, <2>3 DEF PlayersOf, Names, IdentityHash
<1>3. QED  BY <1>1, <1>2 DEF NamedInv, SeatsKept, IdentitiesKept

LEMMA SameSeats ==
  ASSUME NamedInv, UNCHANGED <<node, committed, commitment>>
  PROVE  SeatsKept
BY DEF NamedInv, SeatsKept

LEMMA SameEntered ==
  ASSUME UNCHANGED participant \/ (\A p \in Players : participant'[p].account = "Absent"
                                                       <=> participant[p].account = "Absent")
  PROVE  Entered' = Entered
BY DEF Entered

\* Nothing is committed before the tournament is started.
LEMMA NoneCommitted ==
  ASSUME TypeOK, Validated => BracketInv, NamedInv,
         incarnation = 0 \/ status = "Registration"
  PROVE  committed = {}
<1> SUFFICES ASSUME NEW m \in committed  PROVE FALSE
  OBVIOUS
<1>1. settlement_mode = "Oracle"  BY DEF NamedInv
<1>2. BracketInv  BY <1>1 DEF Validated
<1>3. m \in OpenNodes  BY DEF NamedInv, OpenNodes, TypeOK
<1>4. QED  BY <1>2, <1>3 DEF BracketInv, Field, NoLeftovers

(***************************************************************************)
(* The instructions, one by one                                            *)
(***************************************************************************)
LEMMA CreateNamed ==
  ASSUME MaxIncarnations <= 1, Enrolled, Validated => BracketInv, NamedInv, Create
  PROVE  NamedInv'
<1>1. PICK mode \in Modes, preset \in Presets : CreateTournament(mode, preset)
  BY DEF Create
<1>2. incarnation = 0
  BY <1>1, ParametersAssumption DEF CreateTournament, Enrolled, TypeOK
<1>3. committed' = {}
  BY <1>1, <1>2, NoneCommitted DEF Enrolled, CreateTournament, matches, oracle
<1>4. Entered' = {}
  BY <1>1, <1>2 DEF Entered, Enrolled, UnbornIsEmpty, CreateTournament, NoParticipant
<1>5. QED  BY <1>3, <1>4 DEF NamedInv

LEMMA JoinNamed ==
  ASSUME RealCredentials, Enrolled, Validated => BracketInv, ConfigInv, RestInv, NamedInv,
         NEW p \in Players, Join(p)
  PROVE  NamedInv'
<1>1. committed' = {}
  BY NoneCommitted DEF Enrolled, Join, JoinTournament, matches, oracle
<1>2. Entered' = Entered \cup {p} /\ UNCHANGED game
  BY DEF Entered, Enrolled, TypeOK, Join, JoinTournament, NoParticipant
<1>3. ASSUME game # "Manual"
      PROVE  \A q \in Entered' : VouchedFor(q)'
  <2>1. PICK a \in Attestations :
          ValidAttestation(a, p) /\ attested' = [attested EXCEPT ![p] = a]
    BY <1>3 DEF Join
  <2>2. /\ a # NoAccount /\ a.owner = "SAS" /\ a.nonce = p
        /\ a.credential = config.sas_credential /\ a.schema = config.sas_schemas[game]
    BY <2>1, DeploymentAssumption DEF ValidAttestation, NamesPlayer
  <2>3. \E choice \in SasChoices : /\ a.credential = choice.sas_credential
                                   /\ a.schema = choice.sas_schemas[game]
    BY <2>2 DEF RealCredentials, ConfigInv, TrustedSas
  <2>4. attested'[p] = a /\ \A q \in Players \ {p} : attested'[q] = attested[q]
    BY <2>1 DEF RestInv
  <2>5. VouchedFor(p)'  BY <1>2, <2>2, <2>3, <2>4 DEF VouchedFor
  <2>6. \A q \in Entered \ {p} : VouchedFor(q)'
    <3>1. \A q \in Entered \ {p} : VouchedFor(q) /\ attested'[q] = attested[q]
      BY <1>3, <2>4 DEF NamedInv, Entered
    <3>2. QED  BY <1>2, <3>1 DEF VouchedFor
  <2>7. QED  BY <1>2, <2>5, <2>6
<1>4. QED  BY <1>1, <1>2, <1>3 DEF NamedInv

LEMMA StartNamed ==
  ASSUME TypeOK, NamedInv, Start
  PROVE  NamedInv'
<1>1. PICK ids \in SUBSET Matches, size \in PowersOfTwo, seed \in Seeds :
        StartTournament(ids, size, seed)
  BY DEF Start
<1>2. committed' = committed \ ids /\ UNCHANGED <<participant, settlement_mode>>
  BY <1>1 DEF StartTournament, terms
<1>3. \A m \in Matches \ ids : node'[m] = node[m]
  BY <1>1, StartWrites
<1>4. SeatsKept
  BY <1>2, <1>3 DEF NamedInv, SeatsKept, Start, LobbyFollows, TypeOK
<1>5. IdentitiesKept  BY <1>2, SameEntered DEF Start, identity, IdentitiesKept
<1>6. QED  BY <1>2, <1>4, <1>5, KeptNamed

LEMMA CloseNamed ==
  ASSUME TypeOK, NamedInv, Close
  PROVE  NamedInv'
<1>1. PICK players \in SUBSET Players, nodes \in SUBSET Matches, closeRoot \in BOOLEAN :
        CloseTournament(players, nodes, closeRoot)
  BY DEF Close
<1>2. committed' = committed \ nodes /\ UNCHANGED settlement_mode
  BY <1>1 DEF CloseTournament, CloseChildren, terms
<1>3. \A m \in Matches \ nodes : node'[m] = node[m]
  BY <1>1, CloseWrites
<1>4. SeatsKept
  BY <1>2, <1>3 DEF NamedInv, SeatsKept, Close, LobbyFollows, TypeOK
<1>5. Entered' = Entered
  <2>1. \A p \in Players : participant'[p].account = "Absent" <=> participant[p].account = "Absent"
    BY <1>1 DEF CloseTournament, CloseChildren, OpenParticipants, TypeOK, Participant
  <2>2. QED  BY <2>1, SameEntered
<1>6. IdentitiesKept  BY <1>5 DEF Close, identity, IdentitiesKept
<1>7. QED  BY <1>2, <1>4, <1>6, KeptNamed

LEMMA CommitNamed ==
  ASSUME TypeOK, LobbyInv, NamedInv, NEW m \in Matches, Commit(m)
  PROVE  NamedInv'
<1>1. /\ settlement_mode = "Oracle" /\ node[m].status = "Active"
      /\ PlayersOf(m) \subseteq OpenParticipants /\ committed' = committed \cup {m}
      /\ UNCHANGED <<settlement_mode, participant, node, game, attested>>
  BY DEF Commit, CommitMatchLobby, tournament, terms, identity
<1>2. Entered' = Entered /\ PlayersOf(m) \subseteq Entered
  BY <1>1 DEF Entered, OpenParticipants
<1>3. /\ \A n \in Matches \ {m} : commitment'[n] = commitment[n]
      /\ commitment'[m].player_a_game_id = IdentityHash(node[m].player_a)
      /\ commitment'[m].player_b_game_id = IdentityHash(node[m].player_b)
  BY DEF Commit, LobbyInv
<1>4. ASSUME NEW n \in committed'
      PROVE  /\ node'[n].status \in {"Active", "Completed"}
             /\ PlayersOf(n)' \subseteq Entered' /\ Names(n)'
  <2>1. CASE n = m
    BY <1>1, <1>2, <1>3, <2>1 DEF Names, IdentityHash, PlayersOf
  <2>2. CASE n # m
    <3>1. n \in committed /\ n \in Matches  BY <1>1, <2>2 DEF TypeOK
    <3>2. QED  BY <1>1, <1>2, <1>3, <2>2, <3>1 DEF NamedInv, Names, IdentityHash, PlayersOf
  <2>3. QED  BY <2>1, <2>2
<1>5. game' # "Manual" => \A p \in Entered' : VouchedFor(p)'
  BY <1>1, <1>2 DEF NamedInv, VouchedFor
<1>6. QED  BY <1>1, <1>4, <1>5 DEF NamedInv

\* A result leaves every committed match between the two it was committed with:
\* the match the winner goes to waits for him and cannot have been committed yet.
LEMMA FinalizeSeats ==
  ASSUME OneLane, Enrolled, Validated => BracketInv, NamedInv,
         NEW m \in Matches, NEW winner, NEW trusted, NEW signer,
         FinalizeMatch(m, winner, trusted, signer), UNCHANGED commitment
  PROVE  SeatsKept /\ UNCHANGED settlement_mode
<1>1. UNCHANGED <<settlement_mode, committed>>
  BY DEF FinalizeMatch, terms, oracle
<1>2. ASSUME NEW n \in committed
      PROVE  /\ node'[n].player_a = node[n].player_a /\ node'[n].player_b = node[n].player_b
             /\ node'[n].status \in {"Active", "Completed"}
  <2>1. BracketInv  BY <1>2 DEF NamedInv, Validated
  <2>2. n \in Matches /\ node[n].status \in {"Active", "Completed"}
    BY <1>2 DEF NamedInv, Enrolled, TypeOK
  <2>3. CASE CompleteTournament(m, winner, trusted)
    BY <2>2, <2>3 DEF CompleteTournament, Decided, Enrolled, TypeOK, MatchNode
  <2>4. CASE AdvanceWinner(m, winner)
    <3>1. PICK next \in OpenNodes :
            /\ FeedsInto(m, next)
            /\ node' = [node EXCEPT ![m] = Decided(@, winner),
                                    ![next] = Seated(@, IsLeftChild(m), winner)]
      BY <2>4 DEF AdvanceWinner
    <3>2. n # next
      BY <2>1, <2>2, <3>1, PlayableIsOpen DEF FinalizeMatch
    <3>3. node'[n] = IF n = m THEN Decided(node[m], winner) ELSE node[n]
      BY <2>2, <3>1, <3>2 DEF Enrolled, TypeOK, OpenNodes
    <3>4. QED  BY <2>2, <3>3 DEF Decided, Enrolled, TypeOK, MatchNode
  <2>5. QED  BY <2>3, <2>4 DEF FinalizeMatch
<1>3. QED  BY <1>1, <1>2 DEF SeatsKept

LEMMA ResultNamed ==
  ASSUME OneLane, Enrolled, Validated => BracketInv, NamedInv,
         NEW m \in Matches, Report(m) \/ SettleProposal(m)
  PROVE  NamedInv'
<1>1. PICK winner, trusted, signer :
        /\ FinalizeMatch(m, winner, trusted, signer)
        /\ UNCHANGED participant \/ CreditMatchStats(m, winner)
  BY Zenon DEF Report, ReportResult, SettleProposal, ConfirmResult, ResolveDispute, ClaimResult,
               ForceClaimDisputed, SettleFinal, Settle
<1>2. UNCHANGED <<commitment, game, attested>>
  BY DEF Report, SettleProposal, Settled, lobby, identity
<1>3. SeatsKept /\ UNCHANGED settlement_mode  BY <1>1, <1>2, FinalizeSeats
<1>4. \A p \in Players : participant'[p].account = participant[p].account
  BY <1>1 DEF CreditMatchStats, Enrolled, TypeOK, Participant
<1>5. IdentitiesKept  BY <1>2, <1>4, SameEntered DEF IdentitiesKept
<1>6. QED  BY <1>3, <1>5, KeptNamed

\* The instructions that seat, enter and commit nobody.
LEMMA OthersNamed ==
  ASSUME TypeOK, OldTournament, NamedInv,
         \/ OnlyConfig \/ MigrateV1Tournament \/ UNCHANGED deployedVars
         \/ Donate \/ TimePasses \/ SelfContained
         \/ \E chunk \in SUBSET Players, withDeposit \in BOOLEAN : Refund(chunk, withDeposit)
         \/ \E m \in Matches : Bind(m) \/ ProposeFromFeed(m)
  PROVE  NamedInv'
<1>1. CASE OnlyConfig \/ MigrateV1Tournament \/ UNCHANGED deployedVars
  <2>1. UNCHANGED vars  BY <1>1, Bystanders
  <2>2. UNCHANGED <<commitment, game, attested>>
    BY <1>1 DEF OnlyConfig, MigrateV1Tournament, deployedVars, deployment, identity, lobby
  <2>3. QED
    BY <2>1, <2>2, SameSeats, SameEntered, KeptNamed
    DEF IdentitiesKept, vars, tournament, terms, matches, oracle
<1>2. CASE Donate \/ TimePasses
  BY <1>2, SameSeats, SameEntered, KeptNamed
  DEF Donate, TimePasses, Tick, IdentitiesKept, identity, lobby, tournament, terms, matches, oracle
<1>3. CASE SelfContained
  <2>1. UNCHANGED <<commitment, game, attested>>
    BY <1>3 DEF SelfContained, deployment, identity, lobby
  <2>2. UNCHANGED <<settlement_mode, node, committed, participant>>
    BY <1>3 DEF SelfContained, RequestSeed, RevealSeed, PartialCancelTournament, ProposeResult,
                Propose, DisputeResult, tournament, terms, matches, oracle
  <2>3. QED  BY <2>1, <2>2, SameSeats, SameEntered, KeptNamed DEF IdentitiesKept
<1>4. ASSUME NEW chunk, NEW withDeposit, Refund(chunk, withDeposit)
      PROVE  NamedInv'
  <2>1. /\ UNCHANGED <<settlement_mode, node, committed, commitment, game, attested>>
        /\ RefundChunk(chunk, withDeposit)
    BY <1>4 DEF Refund, CancelTournament, PartialRefundChunk, deployment, identity, lobby,
                tournament, terms, matches, oracle
  <2>2. \A p \in Players : participant'[p].account = participant[p].account
    BY <2>1 DEF RefundChunk, TypeOK, Participant
  <2>3. QED  BY <2>1, <2>2, SameSeats, SameEntered, KeptNamed DEF IdentitiesKept
<1>5. ASSUME NEW m \in Matches, Bind(m) \/ ProposeFromFeed(m)
      PROVE  NamedInv'
  <2>1. UNCHANGED <<settlement_mode, node, committed, participant, commitment, game, attested>>
    BY <1>5 DEF Bind, BindMatchFeed, ProposeFromFeed, ProposeResultOracle, Propose, identity,
                tournament, terms, oracle
  <2>2. QED  BY <2>1, SameSeats, SameEntered, KeptNamed DEF IdentitiesKept
<1>6. QED  BY <1>1, <1>2, <1>3, <1>4, <1>5

LEMMA StepNamed ==
  ASSUME MaxIncarnations <= 1, OneLane, RealCredentials,
         Enrolled, OldTournament, Validated => BracketInv, DeployedInv, NamedInv,
         [DeployedNext]_deployedVars
  PROVE  NamedInv'
<1>1. TypeOK /\ ConfigInv /\ LobbyInv /\ RestInv  BY DEF Enrolled, DeployedInv
<1>2. CASE \/ OnlyConfig \/ MigrateV1Tournament \/ UNCHANGED deployedVars
           \/ Donate \/ TimePasses \/ SelfContained
           \/ \E chunk \in SUBSET Players, withDeposit \in BOOLEAN : Refund(chunk, withDeposit)
           \/ \E m \in Matches : Bind(m) \/ ProposeFromFeed(m)
  BY <1>1, <1>2, OthersNamed
<1>3. CASE Create  BY <1>3, CreateNamed
<1>4. CASE \E p \in Players : Join(p)  BY <1>1, <1>4, JoinNamed
<1>5. CASE Start  BY <1>1, <1>5, StartNamed
<1>6. CASE Close  BY <1>1, <1>6, CloseNamed
<1>7. CASE \E m \in Matches : Commit(m)  BY <1>1, <1>7, CommitNamed
<1>8. CASE \E m \in Matches : Report(m) \/ SettleProposal(m)  BY <1>8, ResultNamed
<1>9. QED
  BY <1>2, <1>3, <1>4, <1>5, <1>6, <1>7, <1>8, Zenon DEF DeployedNext

(***************************************************************************)
(* Whoever rotates the SAS configuration and whenever attestations expire: *)
(* the identities a match is committed with are those of the two wallets   *)
(* that play it, each vouched for to its own wallet when it joined, by     *)
(* somebody the protocol trusted then.                                     *)
(***************************************************************************)
THEOREM CommitmentsAreAttested ==
  ASSUME MaxIncarnations <= 1, OneLane, RealCredentials
  PROVE  DeployedSpec => []CommitmentNamesThePlayers
<1>1. DeployedInit => NamedInv
  <2> SUFFICES ASSUME DeployedInit  PROVE NamedInv
    OBVIOUS
  <2>1. committed = {} /\ game = "Manual"
    BY DEF DeployedInit, FreshDeploy, Upgrade, Init, NothingDeployed
  <2>2. QED  BY <2>1 DEF NamedInv
<1>2. TypeOK /\ OldTournament /\ DeployedInv /\ [DeployedNext]_deployedVars => DeployedInv'
  BY StepConfig, StepLobby, StepRest DEF DeployedInv
<1>3. Enrolled /\ OldTournament /\ (Validated => BracketInv) /\ DeployedInv /\ NamedInv
        /\ [DeployedNext]_deployedVars => NamedInv'
  BY StepNamed
<1>4. NamedInv => CommitmentNamesThePlayers
  BY DEF NamedInv, Names, CommitmentNamesThePlayers
<1>5. QED
  BY <1>1, <1>2, <1>3, <1>4, DeployedInitInv, DeployedTypesHold, BracketAlways, PTL
  DEF DeployedSpec
===============================================================================
