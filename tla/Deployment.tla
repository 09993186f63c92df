------------------------------ MODULE Deployment ------------------------------
(***************************************************************************)
(* BracketChain as it is deployed: with the protocol's configuration, with *)
(* the accounts of other programs that its instructions read (attestations *)
(* of SAS, feeds of Switchboard), with tokens sent to the vault from       *)
(* outside, and with a tournament begun under the MVP program that it was  *)
(* upgraded over.  Every instruction of BracketChain is joined with what   *)
(* it reads and writes of these.                                           *)
(***************************************************************************)
EXTENDS BracketChain, ProtocolConfig, OracleFeed

CONSTANTS
    Games,          \* the games create_tournament may be given
    Attestations,   \* the accounts that may be passed as attestations
    Lifetime,       \* the time left to those that expire
    FeedAccounts,   \* the accounts that may be passed as feeds
    FeedHashes,     \* the expected_feed_hash an organizer may commit
    NoIdentity,     \* the all-zero identity_hash
    NoAccount,      \* Pubkey::default() for an attestation or a feed
    MaxDonations    \* bound: tokens sent from outside

ASSUME DeploymentAssumption ==
    /\ "OrganizerOnly" \in Modes
    /\ SampleValues \subseteq FeedValues
    /\ NoAccount \notin Attestations /\ NoAccount \notin FeedAccounts /\ NoAccount \notin FeedHashes
    /\ MaxDonations \in Nat

VARIABLES
    \* ---- tournament.game; per Participant the attestation it names
    game, attested,
    attestation_timer,   \* the time left to the attestations that expire
    \* ---- MatchNode.commitment, MatchNode.switchboard_feed
    commitment, switchboard_feed,
    evidence,            \* history: the samples an oracle proposal rests on
    donated,             \* history: what the vault holds from outside
    \* ---- the layouts an upgrade leaves behind
    layout,              \* of the Tournament account
    unreadable           \* whose Participant account still has the MVP's

identity == <<game, attested, attestation_timer>>
lobby == <<commitment, switchboard_feed, evidence>>
upgrade == <<layout, unreadable>>
deployment == <<config, identity, lobby, donated, upgrade>>
deployedVars == <<vars, deployment>>

NoCommitment == [player_a_game_id |-> NoIdentity, player_b_game_id |-> NoIdentity,
                 expected_feed_hash |-> NoAccount]
NoEvidence == [fresh |-> 0, agree |-> 0, rival |-> 0]

NothingDeployed ==
    /\ game = "Manual"
    /\ attested = [p \in Players |-> NoAccount]
    /\ attestation_timer = Lifetime
    /\ commitment = [m \in Matches |-> NoCommitment]
    /\ switchboard_feed = [m \in Matches |-> NoAccount]
    /\ evidence = [m \in Matches |-> NoEvidence]
    /\ donated = 0

FreshDeploy ==
    /\ Init /\ NothingDeployed
    /\ config = NoConfig /\ layout = "Current" /\ unreadable = {}

ModeOfZeroMutant == "PlayerReported"  \* the variants in another order

\* What the appended settlement_mode decodes to: the variant numbered 0.
ModeOfZero == "OrganizerOnly"

(***************************************************************************)
(* The program is upgraded over a tournament of the MVP, in any of its     *)
(* statuses: drawn in part, reported in part, refunded in part, paid out.  *)
(* Its MatchNodes are at other addresses, so that to the new program there *)
(* are none.  The ledger starts here: it holds what was paid in and not    *)
(* given back, and of prizes of the MVP nothing.                           *)
(***************************************************************************)
OldParticipants ==
    \E joined \in SUBSET Players : \E refunded \in SUBSET joined :
        /\ unreadable = joined
        /\ participant_count = Cardinality(joined)
        /\ participant_count <= MaxParticipants
        /\ status # "Cancelled" => refunded = {}
        /\ \E number \in [joined -> 0..(participant_count - 1)] :
             /\ \A p, q \in joined : p # q => number[p] # number[q]
             /\ participant = [p \in Players |->
                    IF p \in joined
                    THEN [NoParticipant EXCEPT !.account = "Open", !.seed_index = number[p],
                                               !.refund_paid = (p \in refunded)]
                    ELSE NoParticipant]

OldMoney ==
    /\ organizer_deposit_refunded \in BOOLEAN
    /\ organizer_deposit_refunded => status = "Cancelled"
    /\ vault = IF status = "Completed" THEN 0
               ELSE (IF organizer_deposit_refunded THEN 0 ELSE OrganizerDeposit)
                        + EntryFee * Cardinality({p \in unreadable : ~participant[p].refund_paid})
    /\ wallet = [w \in Wallets |->
           - (IF w = Organizer /\ ~organizer_deposit_refunded THEN OrganizerDeposit ELSE 0)
           - (IF w \in unreadable /\ ~participant[w].refund_paid THEN EntryFee ELSE 0)]

OldBracket ==
    \/ /\ status \in {"Registration", "Cancelled"}
       /\ bracket_size = 0 /\ matches_initialized = 0 /\ matches_reported = 0
       /\ seed_hash = NoSeed
    \/ /\ status # "Registration" /\ participant_count >= MIN_PARTICIPANTS
       /\ bracket_size = BracketSize(participant_count) /\ seed_hash \in Seeds
       /\ matches_initialized \in IF status \in {"Active", "Completed"} THEN {bracket_size - 1}
                                  ELSE 0..(bracket_size - 2)
       /\ matches_reported \in 0..matches_initialized
       /\ status = "Completed" => matches_reported = bracket_size - 1
       /\ status = "Active" => matches_reported < bracket_size - 1

Upgrade ==
    /\ NothingDeployed
    /\ config = OldConfig /\ layout = "MVP"
    /\ status \in {"Registration", "PendingBracketInit", "Active", "Completed", "Cancelled"}
    /\ settlement_mode = "OrganizerOnly" /\ payout_preset \in Presets
    /\ OldParticipants /\ OldMoney /\ OldBracket
    /\ registration_timer = IF status = "Registration" THEN RegistrationPeriod ELSE 0
    /\ champion \in IF status = "Completed" THEN unreadable ELSE {NoOne}
    /\ vrf_bound = FALSE /\ seed_revealed = FALSE
    /\ node = [m \in Matches |-> NoNode]
    /\ envelope = [m \in Matches |-> EmptyEnvelope]
    /\ committed = {} /\ feed_bound = {}
    /\ settledBy = [m \in Matches |-> NoOne]
    /\ incarnation = 1

DeployedInit == FreshDeploy \/ Upgrade

\* Anchor decodes the Tournament before any instruction runs, save its migration.
TournamentReadable == layout # "MVP"

(***************************************************************************)
(* migrate_v1_tournament: grows the account, whatever its status; nothing  *)
(* grows the Participant accounts.                                         *)
(***************************************************************************)
MigrateV1Tournament ==
    /\ ConfigReadable
    /\ layout = "MVP"
    /\ layout' = "Migrated"
    /\ settlement_mode' = ModeOfZero
    /\ UNCHANGED <<status, payout_preset, registration_timer, counters, champion, seeding,
                   money, participant, matches, incarnation,
                   config, identity, lobby, donated, unreadable>>

(***************************************************************************)
(* Tokens from outside, and time                                           *)
(***************************************************************************)
\* Anyone may send tokens to a token account; no instruction is involved.
Donate ==
    /\ status # "None" /\ donated < MaxDonations
    /\ vault' = vault + 1 /\ donated' = donated + 1
    /\ UNCHANGED <<tournament, wallet, organizer_deposit_refunded, participant, matches,
                   incarnation, config, identity, lobby, upgrade>>

TimePasses ==
    /\ Tick
    /\ attestation_timer' = [a \in DOMAIN attestation_timer |-> CountDown(attestation_timer[a])]
    /\ UNCHANGED <<config, game, attested, lobby, donated, upgrade>>

(***************************************************************************)
(* join_tournament with its identity gate                                  *)
(***************************************************************************)
NamesPlayerMutant(a, p) == TRUE  \* the nonce is not compared

NamesPlayer(a, p) == a.nonce = p

\* validate_attestation
ValidAttestation(a, p) ==
    /\ a.owner = "SAS"
    /\ NamesPlayer(a, p)
    /\ a.credential = config.sas_credential
    /\ a.schema = config.sas_schemas[game]
    /\ a \in DOMAIN attestation_timer => attestation_timer[a] > 0

Join(p) ==
    /\ ConfigReadable /\ TournamentReadable
    /\ JoinTournament(p)
    /\ \/ game = "Manual" /\ attested' = [attested EXCEPT ![p] = NoAccount]
       \/ /\ game # "Manual"
          /\ \E a \in Attestations :
                ValidAttestation(a, p) /\ attested' = [attested EXCEPT ![p] = a]
    /\ unreadable' = unreadable \ {p}
    /\ UNCHANGED <<config, game, attestation_timer, lobby, donated, layout>>

IdentityHash(p) == IF attested[p] = NoAccount THEN NoIdentity ELSE attested[p].identity

(***************************************************************************)
(* The oracle's set-up and its proposal                                    *)
(***************************************************************************)
\* commit_match_lobby copies both identities; the hash is the organizer's word.
Commit(m) ==
    /\ TournamentReadable
    /\ CommitMatchLobby(m)
    /\ PlayersOf(m) \cap unreadable = {}
    /\ \E hash \in FeedHashes :
         commitment' = [commitment EXCEPT
             ![m] = [player_a_game_id |-> IdentityHash(node[m].player_a),
                     player_b_game_id |-> IdentityHash(node[m].player_b),
                     expected_feed_hash |-> hash]]
    /\ UNCHANGED <<config, identity, switchboard_feed, evidence, donated, upgrade>>

OnQueueMutant(feed) == TRUE  \* the queue is not compared

OnQueue(feed) == feed.queue = config.switchboard_queue

\* bind_match_feed: the queue is the one configured now.
Bind(m) ==
    /\ ConfigReadable /\ TournamentReadable
    /\ BindMatchFeed(m)
    /\ \E feed \in FeedAccounts :
         /\ feed.owner = "OnDemand"
         /\ OnQueue(feed)
         /\ feed.feed_hash = commitment[m].expected_feed_hash
         /\ switchboard_feed' = [switchboard_feed EXCEPT ![m] = feed]
    /\ UNCHANGED <<config, identity, commitment, evidence, donated, upgrade>>

\* The fresh samples of a sampling, and how many name a player.
Evidence(m, sampling, winner) ==
    LET recent == {o \in DOMAIN sampling : sampling[o].age <= config.max_stale_slots}
        naming(w) == {o \in recent : ResolveOracleWinner(m, sampling[o].value, w)}
    IN  [fresh |-> Cardinality(recent),
         agree |-> Cardinality(naming(winner)),
         rival |-> Cardinality(UNION {naming(w) : w \in PlayersOf(m) \ {winner}})]

\* propose_result_oracle: neither the queue nor the hash is compared again.
\* Whoever is no player relays as the Relayer does.
ProposeFromFeed(m) ==
    /\ ConfigReadable /\ TournamentReadable
    /\ switchboard_feed[m] # NoAccount /\ NoProposalYet(m)
    /\ \E sampling \in Samplings :
         /\ \E value \in GetValue(sampling, config.max_stale_slots, config.min_oracle_samples),
               relayer \in Players \cup {Relayer} : ProposeResultOracle(m, relayer, value)
         /\ evidence' = [evidence EXCEPT
                ![m] = Evidence(m, sampling, envelope'[m].proposed_winner)]
    /\ UNCHANGED <<config, identity, commitment, switchboard_feed, donated, upgrade>>

(***************************************************************************)
(* The other instructions                                                  *)
(***************************************************************************)
\* A match account that is created or closed holds no commitment and no feed.
LobbyFollows ==
    /\ commitment' = [m \in Matches |-> IF m \in committed' THEN commitment[m] ELSE NoCommitment]
    /\ switchboard_feed' = [m \in Matches |->
           IF m \in feed_bound' THEN switchboard_feed[m] ELSE NoAccount]
    /\ evidence' = [m \in Matches |->
           IF envelope'[m].source = "Oracle" THEN evidence[m] ELSE NoEvidence]

Create ==
    /\ ConfigReadable
    /\ \E mode \in Modes, preset \in Presets : CreateTournament(mode, preset)
    /\ game' \in Games
    /\ layout' = "Current"
    /\ UNCHANGED <<config, attested, attestation_timer, lobby, donated, unreadable>>

\* Descriptors are checked against the Participant accounts only outside OrganizerOnly.
Start ==
    /\ TournamentReadable
    /\ \E ids \in SUBSET Matches, size \in PowersOfTwo, seed \in Seeds :
          /\ StartTournament(ids, size, seed)
          /\ settlement_mode # "OrganizerOnly" =>
                \A m \in ids : PlayersOf(m)' \cap unreadable = {}
    /\ LobbyFollows
    /\ UNCHANGED <<config, identity, donated, upgrade>>

\* A refund reads and writes the Participant accounts of its chunk.
Refund(chunk, withDeposit) ==
    /\ TournamentReadable /\ chunk \cap unreadable = {}
    /\ \/ \E caller \in {Organizer, Relayer} : CancelTournament(caller, chunk, withDeposit)
       \/ PartialRefundChunk(chunk, withDeposit)
    /\ UNCHANGED deployment

\* close_tournament reads no more of a child than whose it is.
Close ==
    /\ TournamentReadable
    /\ \E players \in SUBSET Players, nodes \in SUBSET Matches, closeRoot \in BOOLEAN :
          CloseTournament(players, nodes, closeRoot)
    /\ LobbyFollows
    /\ UNCHANGED <<config, identity, donated, upgrade>>

\* A final pays out the vault, what came from outside included.
Settled ==
    /\ donated' = IF status' = "Completed" THEN 0 ELSE donated
    /\ UNCHANGED <<config, identity, lobby, upgrade>>

Report(m) ==
    /\ ConfigReadable /\ TournamentReadable
    /\ \E w \in Wallets : ReportResult(m, w)
    /\ Settled

SettleProposal(m) ==
    /\ ConfigReadable /\ TournamentReadable
    /\ PlayersOf(m) \cap unreadable = {}
    /\ \/ \E p \in Players : ConfirmResult(m, p)
       \/ \E w \in Players : ResolveDispute(m, w)
       \/ ClaimResult(m) \/ ForceClaimDisputed(m) \/ SettleFinal(m)
    /\ Settled

\* Instructions that read nothing of the deployment but the tournament.
SelfContained ==
    /\ TournamentReadable
    /\ \/ RequestSeed
       \/ \E seed \in Seeds : RevealSeed(seed)
       \/ PartialCancelTournament
       \/ \E m \in Matches :
             \/ \E p, w \in Players : ProposeResult(m, p, w)
             \/ \E w \in Signers : DisputeResult(m, w)
    /\ UNCHANGED deployment

\* The instructions of the protocol's authority write nothing but the config.
OnlyConfig == UNCHANGED <<vars, identity, lobby, donated, upgrade>>

DeployedNext ==
    \/ InitializeProtocol /\ OnlyConfig
    \/ MigrateProtocolConfig /\ OnlyConfig
    \/ \E choice \in SasChoices : SetSasConfig(choice) /\ OnlyConfig
    \/ \E choice \in OracleChoices : SetOracleConfig(choice) /\ OnlyConfig
    \/ MigrateV1Tournament
    \/ Donate
    \/ TimePasses
    \/ Create \/ Start \/ Close \/ SelfContained
    \/ \E p \in Players : Join(p)
    \/ \E chunk \in SUBSET Players, withDeposit \in BOOLEAN : Refund(chunk, withDeposit)
    \/ \E m \in Matches : \/ Commit(m) \/ Bind(m) \/ ProposeFromFeed(m)
                          \/ Report(m) \/ SettleProposal(m)

DeployedSpec == DeployedInit /\ [][DeployedNext]_deployedVars

(***************************************************************************)
(*                               Properties                                *)
(***************************************************************************)
(***************************************************************************)
(* The accounts of the deployment hold what their structs declare, the     *)
(* oracle's parameters stay within the bounds of constants.rs, and the two *)
(* sets of Settlement are the matches whose fields here are filled.        *)
(***************************************************************************)
DeployedTypeOK ==
    /\ config.layout \in {"None", "Old", "Current"}
    /\ config.max_stale_slots \in 0..MAX_ORACLE_STALE_SLOTS_CEILING
    /\ game \in Games \cup {"Manual"}
    /\ attested \in [Players -> Attestations \cup {NoAccount}]
    /\ committed = {m \in Matches : commitment[m] # NoCommitment}
    /\ feed_bound = {m \in Matches : switchboard_feed[m] # NoAccount}
    /\ layout \in {"Current", "MVP", "Migrated"}
    /\ unreadable \subseteq Players
    /\ donated \in Nat

\* Somebody the protocol trusted, now or earlier, vouches for p as a player of this game.
VouchedFor(p) ==
    /\ attested[p] # NoAccount
    /\ attested[p].owner = "SAS" /\ attested[p].nonce = p
    /\ \E choice \in SasChoices :
          /\ attested[p].credential = choice.sas_credential
          /\ attested[p].schema = choice.sas_schemas[game]

(***************************************************************************)
(* The identities a match is committed with are those of the two wallets   *)
(* that play it, each vouched for to its own wallet: through rotations of  *)
(* the SAS configuration and attestations that expire between joining and  *)
(* playing (commit_match_lobby.rs, join_tournament.rs).                    *)
(***************************************************************************)
CommitmentNamesThePlayers ==
    \A m \in committed :
        /\ commitment[m].player_a_game_id = IdentityHash(node[m].player_a)
        /\ commitment[m].player_b_game_id = IdentityHash(node[m].player_b)
        /\ game # "Manual" => \A p \in PlayersOf(m) : VouchedFor(p)

(***************************************************************************)
(* A feed bound to a match runs the job the match is committed to, however *)
(* often it is bound again, and whatever happens to the match meanwhile    *)
(* (bind_match_feed.rs: the anti-redirection check).                       *)
(***************************************************************************)
BoundFeedRunsTheCommittedJob ==
    \A m \in feed_bound : switchboard_feed[m].feed_hash = commitment[m].expected_feed_hash

(***************************************************************************)
(* An oracle proposal rests on fresh samples: on one that names its winner *)
(* at least, and never against a majority of them that names the opponent, *)
(* however many stale ones the feed still holds (propose_result_oracle.rs, *)
(* get_value and resolve_oracle_winner).                                   *)
(***************************************************************************)
FreshMajorityDecides ==
    \A m \in OpenNodes : envelope[m].source = "Oracle" =>
        /\ evidence[m].agree >= 1 /\ evidence[m].fresh >= MIN_ORACLE_SAMPLES_FLOOR
        /\ 2 * evidence[m].rival <= evidence[m].fresh

(***************************************************************************)
(* Until set_oracle_config was called the oracle settles nothing: zeroed   *)
(* parameters, of a new or a migrated config, are no quorum and no queue   *)
(* of anybody's.                                                           *)
(***************************************************************************)
UnconfiguredOracleIsInert ==
    config.switchboard_queue = Unset =>
        \A m \in OpenNodes : switchboard_feed[m] = NoAccount /\ envelope[m].source # "Oracle"

(***************************************************************************)
(* A tournament of the MVP stays what it was when it was begun: after the  *)
(* upgrade, in whatever status it is migrated, its matches are decided by  *)
(* its organizer and nothing is ever proposed, disputed or read from an    *)
(* oracle (migrate_v1_tournament.rs: the appended fields decode as zero).  *)
(***************************************************************************)
MigratedIsOrganizerRun ==
    layout # "Current" => \A m \in Matches :
        /\ settledBy[m] \in {Organizer, NoOne}
        /\ envelope[m] = EmptyEnvelope
        /\ m \notin committed

(***************************************************************************)
(* Tokens from outside take nothing from anybody and do not get stuck in   *)
(* the end: the vault holds them on top of all it owes, a final shares     *)
(* them out with the prizes, and afterwards it holds what was sent since   *)
(* and the prizes made out to the vault itself, nothing else.              *)
(***************************************************************************)
VaultHoldsDebtsAndGifts ==
    vault = donated + (CASE status = "None" -> 0
                         [] status = "Completed" -> wallet[TournamentPda]
                         [] OTHER -> DepositHeld + EntryFee * Cardinality(Unrefunded))

(***************************************************************************)
(* The authority migrates, and every refund is sent, by somebody.          *)
(***************************************************************************)
UpgradeFairness ==
    /\ WF_deployedVars(MigrateProtocolConfig /\ OnlyConfig)
    /\ WF_deployedVars(MigrateV1Tournament)
    /\ \A p \in Players : WF_deployedVars(Refund({p}, FALSE))

UpgradeSpec == DeployedSpec /\ UpgradeFairness

(***************************************************************************)
(* migrate_v1_tournament.rs:17 of a tournament the upgrade finds under     *)
(* way, "such tournaments must be cancelled & refunded".  No instruction   *)
(* grows a Participant account of the MVP, and every refund decodes one.   *)
(***************************************************************************)
SurvivorsAreRefunded ==
    \A p \in Players :
        (status \in {"Cancelled", "PartialCancelled"} /\ participant[p].account = "Open")
            ~> (participant[p].refund_paid \/ participant[p].account = "Closed")
=============================================================================
