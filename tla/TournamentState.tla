--------------------------- MODULE TournamentState ---------------------------
(***************************************************************************)
(* The accounts of one tournament: the Tournament PDA, its token vault,    *)
(* the Participant and MatchNode PDAs, and the token balances around them. *)
(* Every instruction of the program is one atomic transaction on these     *)
(* accounts; Lifecycle and Settlement hold the instructions, BracketChain  *)
(* composes them.                                                          *)
(*                                                                         *)
(* Time is modelled by countdowns.  The code stores absolute times and     *)
(* only ever compares them with the clock (now < registration_deadline,    *)
(* now >= claim_deadline), so what a deadline means is the time left to    *)
(* it, 0 once it has passed.  No bound on the clock is needed.             *)
(***************************************************************************)
EXTENDS Integers, FiniteSets, Bracket, Seeding, Payout

CONSTANTS
    Players,              \* the wallets that may join
    Organizer,            \* tournament.organizer, also its arbitrator
    Treasury,             \* protocol_config.treasury
    Relayer,              \* any other signer: crons, fee payers
    TournamentPda,        \* the Tournament's own address, as the owner of the vault
    NoOne,                \* Pubkey::default()
    NoSeed,               \* the all-zero seed_hash of a new tournament
    Modes,                \* the settlement modes create_tournament may be given
    Presets,              \* the payout presets it may be given
    EntryFee,             \* entry_fee
    OrganizerDeposit,     \* organizer_deposit
    MaxParticipants,      \* max_participants
    RegistrationPeriod,   \* registration_deadline - now at creation
    DisputeWindow,        \* dispute_window_secs
    ForceClaimWindow,     \* FORCE_CLAIM_WINDOW_SECS
    Seeds,                \* the streams a revealed or slot-hash seed may yield
    Lanes,                \* the `bracket' bytes a descriptor may carry
    FreeEntrants,         \* whom an OrganizerOnly descriptor may name freely
    FeedValues,           \* what an oracle feed may report, in halves
    MaxChunk,             \* bound: descriptors or refunds in one transaction
    MaxCloseChunk,        \* bound: child accounts one close_tournament may carry
    MaxIncarnations       \* bound: how often the same PDA is created

(***************************************************************************)
(* A program address signs nothing, but an instruction may name it where   *)
(* it names a wallet.  The token account it names with it is the vault; an *)
(* address with any other token account is a wallet like all others.       *)
(***************************************************************************)
Signers == Players \cup {Organizer, Relayer}
Wallets == Signers \cup {Treasury, TournamentPda}

SettlementMode == {"OrganizerOnly", "PlayerReported", "Oracle"}

ASSUME PartiesAssumption ==
    /\ IsFiniteSet(Players)
    /\ NoOne \notin Wallets
    /\ NoSeed \notin Seeds
    /\ TournamentPda \notin Signers

ASSUME ParametersAssumption ==
    /\ Modes \subseteq SettlementMode
    /\ Presets \subseteq PayoutPreset
    /\ EntryFee \in Nat /\ OrganizerDeposit \in Nat
    /\ MaxParticipants \in MIN_PARTICIPANTS..MAX_PARTICIPANTS
    /\ RegistrationPeriod \in Nat \ {0}
    /\ DisputeWindow \in Nat /\ ForceClaimWindow \in Nat
    /\ IsFiniteSet(Lanes)
    /\ FreeEntrants \subseteq Wallets \cup {NoOne}
    /\ FeedValues \subseteq Int
    /\ MaxChunk \in Nat /\ MaxCloseChunk \in Nat /\ MaxIncarnations \in Nat

\* Every number a seed yields is a u64 (splitmix64), and there are enough of them.
ASSUME SeedsAssumption ==
    \A seed \in Seeds : \A k \in 1..(MaxParticipants - 1) : seed[k] \in Nat

VARIABLES
    \* ---- the Tournament PDA
    status, settlement_mode, payout_preset,
    registration_timer,
    participant_count, bracket_size, matches_initialized, matches_reported,
    champion,
    vrf_bound,            \* vrf_randomness_account # Pubkey::default()
    seed_revealed, seed_hash,
    organizer_deposit_refunded,
    \* ---- its vault, and the balance changes of the token accounts around it;
    \*      wallet[TournamentPda] is what the vault was ever told to pay itself
    vault, wallet,
    \* ---- the Participant PDAs
    participant,
    \* ---- the MatchNode PDAs: the node, its proposal envelope, its oracle fields
    node, envelope, committed, feed_bound,
    \* ---- history: who signed the settlement of a match; how often created
    settledBy, incarnation

\* The fields create_tournament fixes.
terms == <<settlement_mode, payout_preset>>
seeding == <<vrf_bound, seed_revealed, seed_hash>>
counters == <<participant_count, bracket_size, matches_initialized, matches_reported>>
money == <<vault, wallet, organizer_deposit_refunded>>
oracle == <<committed, feed_bound>>
matches == <<node, envelope, oracle, settledBy>>

tournament == <<status, terms, registration_timer, counters, champion, seeding>>
vars == <<tournament, money, participant, matches, incarnation>>

(***************************************************************************)
(* Types                                                                   *)
(***************************************************************************)
\* "None": there is no Tournament account at the PDA.
Status == {"None", "Registration", "PendingBracketInit", "Active",
           "Completed", "Cancelled", "PartialCancelled"}

TerminalStatus == {"Completed", "Cancelled", "PartialCancelled"}

Matches == MatchIds(Lanes, BracketSize(MaxParticipants))

(***************************************************************************)
(* "Absent" and "Closed" are the same to the program: no account at the    *)
(* PDA.  They are told apart so that properties can speak of who paid in;  *)
(* refund_paid is kept after the close for the same reason.                *)
(***************************************************************************)
Participant == [account : {"Absent", "Open", "Closed"}, seed_index : Nat,
                refund_paid : BOOLEAN, wins : Nat, losses : Nat]

NoParticipant == [account |-> "Absent", seed_index |-> 0,
                  refund_paid |-> FALSE, wins |-> 0, losses |-> 0]

\* "Absent": there is no MatchNode account at the PDA.
MatchNode == [status : {"Absent", "Pending", "Active", "Completed"},
              player_a : Wallets \cup {NoOne}, player_b : Wallets \cup {NoOne},
              winner : Wallets \cup {NoOne}, bye : BOOLEAN]

NoNode == [status |-> "Absent", player_a |-> NoOne, player_b |-> NoOne,
           winner |-> NoOne, bye |-> FALSE]

ProposalSource == {"None", "Player", "Oracle"}

\* claim_timer is the time left until claim_deadline.
Envelope == [source : ProposalSource, proposer : Wallets \cup {NoOne},
             proposed_winner : Wallets \cup {NoOne}, claim_timer : Nat,
             disputed : BOOLEAN]

EmptyEnvelope == [source |-> "None", proposer |-> NoOne, proposed_winner |-> NoOne,
                  claim_timer |-> 0, disputed |-> FALSE]

OpenParticipants == {p \in Players : participant[p].account = "Open"}
OpenNodes == {m \in Matches : node[m].status # "Absent"}

PlayersOf(m) == {node[m].player_a, node[m].player_b}
=============================================================================
