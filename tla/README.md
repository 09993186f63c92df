# BracketChain in TLA+

A model of the BracketChain Anchor program (`src/programs/bracket-chain`), the
TLC configurations that check it and the TLAPS proofs about it. Paths below
are relative to `src/programs/bracket-chain/src/` unless they start with `src/`.

The program runs single-elimination tournaments on Solana. Entry fees and an
organizer's deposit go into a vault; a bracket is drawn from a seed; matches
are settled by the organizer, by the players or by an oracle; the final pays
the vault out by a preset, and a cancellation pays everyone back. Every
instruction is one atomic transaction, so what is hard is not shared memory
but the *order* of transactions: two dozen instructions, many of them open to
anybody and repeated by crons, act on the same three kinds of accounts, most
are sent in chunks, and time decides which of them are allowed. Around them
stand accounts of others that change under them: a configuration shared by all
tournaments, attestations that expire, feeds whose samples age, and accounts an
earlier version of the program left behind. Clients see none of the accounts:
they follow the events.

## 1. Inventory

### Accounts (the state)

| account | fields that decide something | module |
|---|---|---|
| `Tournament` (`state/tournament.rs`) | `status`, `settlement_mode`, `payout_preset`, deadline, counters, `bracket_size`, VRF fields, `champion`, `organizer_deposit_refunded` | `TournamentState` |
| | `game`; the layout (MVP or V1) | `Deployment` (`game`, `layout`) |
| vault (SPL token account) | its amount | `TournamentState` (`vault`; `wallet` holds every wallet's change of balance, and what was made out to the tournament itself) |
| `Participant` (`state/participant.rs`) | existence, `seed_index`, `refund_paid`, `wins`, `losses` | `TournamentState` (`participant`) |
| | the attestation and the identity hash; the layout | `Deployment` (`attested`, `unreadable`) |
| `MatchNode` (`state/match_node.rs`) | `status`, players, `winner`, `bye`; the proposal envelope; that it is committed and bound | `TournamentState` (`node`, `envelope`, `committed`, `feed_bound`) |
| | what it is committed and bound to | `Deployment` (`commitment`, `switchboard_feed`) |
| `ProtocolConfig` (`state/protocol_config.rs`) | layout, SAS credential and schemas, queue, staleness and quorum | `ProtocolConfig` (`config`); authority, treasury and the dispute window are constants |
| attestation (SAS), feed (Switchboard) | accounts of other programs | `Deployment` (`Attestations`, `attestation_timer`), `OracleFeed` |
| the event log (`events.rs`) | what an indexer has been told | `Events` (`view`) |

### Components, operations, interactions

| component | operations | what makes it correct |
|---|---|---|
| factory | `create_tournament`, `join_tournament` | the vault holds what was paid in (`VaultAccounting`) |
| verifiable seeding | `request_seed`, `reveal_seed`, `seed_permutation` | a draw is binding (`DrawIsBinding`), nobody is lost in it (`NobodyIsLost`, `EveryOrderOnce`) |
| bracket engine | `start_tournament` in chunks | every entrant drawn once, counters that agree with the accounts, no dead end (`EveryEntrantDrawnOnce`, `CountersMatchAccounts`, `SomeMatchIsPlayable`) |
| settlement core | `finalize_match`, `advance_winner`, `credit_match_stats` | winners in the right slots, results irrevocable, one champion (`SlotsMirrorFeeders`, `SingleElimination`, `ReportedIsIrrevocable`, `CompletedMeansDecided`) |
| payout | `distribute_prizes`, `split_placements` | the whole vault goes out, by the preset (`WholePoolGoesOut`, `PrizesMatchThePreset`) |
| direct report | `report_result` | as settlement core |
| settlement envelope | `propose_result`, `confirm_result`, `dispute_result`, `claim_result`, `resolve_dispute`, `force_claim_disputed`, `settle_final` | who may end a match, when, for whom (`SettlementAuthority`, `ProposalIsBinding`, `PlacesNeedTheOrganizer`, `ProposalEventuallySettles`) |
| oracle | `commit_match_lobby`, `bind_match_feed`, `propose_result_oracle` | as another proposer, under the same rules; the committed job, fresh samples, and nothing before it is configured (`BoundFeedRunsTheCommittedJob`, `FreshMajorityDecides`, `UnconfiguredOracleIsInert`) |
| identity gate | `validate_attestation` in `join_tournament` | a match is committed with identities vouched for to the wallets that play it (`CommitmentNamesThePlayers`) |
| cancellation | `cancel_tournament`, `partial_cancel_tournament`, `partial_refund_chunk` | everybody made whole, once (`RefundsMakeWhole`, `RefundsEventually`) |
| cleanup | `close_tournament` | the vault is closed only when nobody is owed anything (`ImplementsEscrow`, `VaultHoldsDebtsAndGifts`) |
| admin | `initialize_protocol`, `set_sas_config`, `set_oracle_config` | parameters within the bounds of `constants.rs`, whatever the order |
| migrations | `migrate_protocol_config`, `migrate_v1_tournament` | an old tournament keeps its rules and its money (`MigratedIsOrganizerRun`, `VaultHoldsDebtsAndGifts`) |
| events | `emit!` in seventeen files | whoever replays them sees what the accounts hold (`ViewAgrees`, `LogIsTheLedger`, `LogExplainsItself`, `RefundsAreLogged`) |
| errors, tests, scripts | | not modelled, see section 8 |

Instructions interact only through the accounts. Six instructions converge on
`finalize_match`; `cancel_tournament` and `partial_refund_chunk` share the
refund code; `start_tournament` and `finalize_match` both write the slots of a
second-round match; every instruction that reads `ProtocolConfig` depends on
what its authority wrote in the meantime. Hard behaviours, each with its line
and the properties that cover it, are the `hazards` of `PROJECT.json`: refunds
repeated by several senders; proposals, disputes and claims that race; one
deadline field with two meanings; chunks in any order; byes that meet in the
second round; a seed revealed or rebound while it is in use; accounts closed
while they are owed money; a PDA created twice; a configuration rotated, or
never written, under a running tournament; samples that outlive their window;
tokens nobody accounted for; accounts of two layouts; an event missing or
doubled on one of several paths; floors and off-by-ones.

## 2. Modules and plan

```
Bracket   Seeding   Payout                pure operators, no state
     \       |       /
      TournamentState                     constants, accounts, types
        /          \
  Lifecycle     Settlement                one action per instruction
        \          /
       BracketChain  ------>  Escrow      Init, Next, properties; the refinement
       /     |     \
  Claims  Events   Deployment             docs contradicted; the log; the surroundings
                    /      \
         ProtocolConfig   OracleFeed      the shared account; Switchboard's
```

`MCBracketChain`, `MCEvents` and `MCDeployment` give TLC its instances.
`DrawCheck` checks `Bracket` and `Seeding` on their own and `PayoutCheck` checks
`Payout`; `MCAlgorithms` runs both. No module uses RECURSIVE, so that all of them
can be proved about. The theorems are in eight modules:

| module | about | its theorems |
|---|---|---|
| `AlgorithmProofs` | `Bracket`, `Seeding`, `Payout` | what the operators compute, for every input |
| `CheckProofs` | `DrawCheck`, `PayoutCheck` | the properties of the run `algorithms`, without its bounds |
| `BracketChainProofs` | `BracketChain` | types; the rights of the parties; end states |
| `MoneyProofs` | `BracketChain`, `Escrow` | the vault; the refinement of the abstract escrow |
| `AdvancementProofs` | `BracketChain` | slots, results, counters, no dead end |
| `EliminationProofs` | `BracketChain` | the draw, the score, completion, prizes |
| `EventProofs` | `Events` | the log |
| `DeploymentProofs` | `Deployment` | all that the surroundings could change |

`Events` and `Deployment` are two compositions over the same core. In both every
action of `BracketChain` is *joined* with what it emits, or with what it reads
and writes of its surroundings, and is otherwise the action itself: the core is
stated once, and what was proved step by step of it carries over (section 6).

Built so far: everything above. Planned: several tournaments of one organizer,
and the leftovers of a closed one, as the setting of `claim_leftovers`; and the
theorems of section 6 that suppose one tournament at a PDA, stated for PDAs that
are created again.

### How code becomes model

* One action per instruction handler, with the handler's whole effect.
  `require!`s and Anchor constraints are conjuncts, `init` is "the account does
  not exist", assignments are primed variables. A failing CPI undoes the
  transaction, so it is a guard (`total <= vault`). Handlers shared by several
  instructions are operators (`FinalizeMatch`, `RefundChunk`, `CloseChildren`).
* **Time.** The code stores absolute deadlines and only compares them with the
  clock. A deadline is modelled by the time left (`registration_timer`,
  `claim_timer`, `attestation_timer`), 0 once it is reached; `Tick` counts all of
  them down. Nothing is lost: two deadlines are ordered as the timers are. The
  registration deadline only closes `join_tournament`, as in the code.
* **Seeds.** A seed is the stream of numbers splitmix64 would derive from it, and
  any stream may come; keccak and splitmix64 are not modelled bit by bit.
* **Money.** `wallet` starts at 0 and counts changes. Fees in the runs are 1010
  and 507 so that fee and shares have remainders. Products cannot wrap in
  `u128` (header of `Payout`), so numbers are plain.
* **Oracle values** are counted in halves, so that a fraction exists.
* **History variables**: `settledBy` (who signed a settlement), `incarnation`
  (how often the PDA was created), `evidence` (the samples an oracle proposal
  rests on), `donated` (what came from outside), and in `participant` the
  difference between `Absent` and `Closed` and the `refund_paid` of a closed
  account. No guard depends on them except where it bounds the run
  (`MaxIncarnations`, `MaxDonations`).
* **Placements.** `Placements` fixes what `distribute_prizes` checks (places 1
  and 2) and lets the signer name any wallet for the rest, `TournamentPda` too.
  `validate_token_account` asks only for an account of the named owner, and the
  vault is one of the tournament's: a transfer to it moves nothing. `Sent` is what
  a wallet is sent, `SentAway` what leaves the vault.
* **OrganizerOnly descriptors** are not validated by the code
  (`start_tournament.rs:161`, `:187`). `FreeDraws` fills their slots with any of
  `FreeEntrants`, be it an entrant, nobody or a key that never joined, with byes
  wherever the organizer wants them; `SeededDraws` is what the SDK builds, and all
  that the other modes accept. `DrawIsSeeded` holds in those modes, and in
  `OrganizerOnly` where an instance has no `FreeEntrants`. Properties that need the
  seeded draw state it; the others are said of draws at will too.
* **Events.** An event is an operator from the indexer's view to the view after
  it. An instruction that emits several composes them in the order of its
  `emit!`s; what an indexer never learns (the seed's binding, byes, which
  children were closed) is not in the view.
* **Accounts of other programs** are read by what the code reads of them. An
  attestation is a record of owner, wallet, credential, schema, identity and
  perhaps an expiry; a feed is a record of owner, queue and job. What a feed
  holds when it is read is any sampling (`Samplings`), and `GetValue` is the
  median of the fresh ones: an external definition, written from the call and
  the comments in `propose_result_oracle.rs` and `constants.rs`.
* **Layouts.** An account of an old layout is not decoded: every action that
  reads one requires the new (`ConfigReadable`, `TournamentReadable`,
  `unreadable`), because Anchor fails before the handler runs. `Upgrade` is a
  second initial state: the accounts an MVP tournament has in any of its five
  statuses, drawn, reported or refunded in part as the status allows, with no
  `MatchNode`s (their addresses moved). The ledger starts there and knows nothing
  of prizes the MVP paid.
* Definitions named `...Mutant` are plausible bugs. No specification uses them;
  each is the body with which some property was seen to fail.

## 3. Runs

All runs use `CHECK_DEADLOCK FALSE`: a closed tournament really stops.
Symmetry over players is used in one run, which checks safety only.

| run | instance | question |
|---|---|---|
| `two_players` | 2 players, all three modes, winner-takes-all and 70/30, windows 1 and 2, closes of 2 accounts, descriptors over an entrant, nobody and the tournament's key, feed values -1, 0, ½, 1, 1½, 2; with the log (66,544 states) | the whole life of one match: types, money, rights of the parties, frozen end states, refinement of `Escrow`; an indexer that replays the events sees what the accounts hold, and why |
| `three_players` | 3 players, player-reported and organizer-only, winner-takes-all and 60/25/15, two seeds, chunks of up to 3, free descriptors over nobody and the tournament's key (266,696 states) | two rounds and a bye: binding draw and exact prizes, in both modes; slots, elimination and irrevocability, in the mode that validates the draw |
| `five_entrants` | 5 entrants in 8 slots, oracle mode, two seeds, chunks of up to 2, starting with the field complete, played in harmony (33,476 states) | the validated draw and the counters, in every order of chunks and of results |
| `liveness` | 3 players, player-reported, starting with the field complete, fairness of the crons and of the refund senders | proposals and refunds do not stay open; a bracket comes to its end if its players report |
| `deployment` | 2 players, organizer-only and oracle, two SAS configurations, three oracle ones (two refused), seven attestations, four feeds, three oracles with fresh and stale samples, one donation, MVP tournaments of all five statuses (232,046 states) | what the program reads of others: rotated, expired, stale, migrated or given |
| `algorithms` | every field 2..128; the shuffle for 2..5; every pool up to 1,200 with six valid presets | geometry of the bracket; Fisher-Yates; `split_placements` against the definition of a floor |

What the properties say is written above each of them. Some that deserve a word:

* `SettlementAuthority` is about *steps*, not handlers: whatever instruction
  ends a match with a proposal, an unchallenged one ends for its own winner,
  after the window or with the consent of a player who did not propose it; a
  disputed one ends by the organizer, or for the proposed winner after the
  second window. `PlacesNeedTheOrganizer` adds that a final with several places
  is never settled by anybody else.
* `VaultAccounting` relates the vault to the participants' flags through any
  sequence of chunks; it implies that the vault can always pay the refunds it
  owes, and that after the prizes it holds what was made out to the vault itself
  and nothing else: no dust, so that it is empty, as `close_tournament` requires,
  unless a signer who names lower places names the tournament.
  `VaultHoldsDebtsAndGifts` is the same with tokens from outside, which the code
  neither counts nor refuses: they never stand for a debt, and a final shares
  them out.
* `PrizesMatchThePreset` is exact, wallet by wallet: there is an assignment of
  the paid places, the champion first and the beaten finalist second, by which
  every wallet has the prizes of its places, the treasury the fee besides, and
  nobody anything else. One wallet may hold several places.
* `CompletedMeansDecided` is not a guard of the code: nothing checks that the
  other matches are over when the final is settled. In a draw by the seed it
  follows from how slots fill; a draw at will can be completed with matches open
  (section 5). The same holds of `ReportedIsIrrevocable`, and of the reasons why
  the counters agree and no bracket stalls.
* `ImplementsEscrow` says with `Escrow` what the vault promises with all of the
  tournament left out: whole as prizes, or piece by piece back, each piece once.
* `ViewAgrees`, `LogIsTheLedger`, `LogExplainsItself` relate the accounts to a
  *history* of what the handlers announce. They would break if a chunk that
  does not activate announced the start, if a repeated refund were announced, or
  if a forced claim were not told from a plain one.
* `FreshMajorityDecides` says what an oracle's result rests on when stale samples
  still sit in the feed: not that a majority of *all* samples agrees (a median
  of the fresh ones is no such thing).
* `CommitmentNamesThePlayers` holds although neither configuration nor
  attestation is read again after the join: what was vouched for is copied.

### Bounds and why they are enough

* Two players give one match with both windows, both cancellations, and every
  actor of it (proposer, opponent, organizer, outsider); three give a bye, a
  feeder and a final of several places; five give two byes that meet in one
  second-round match, a bye whose opponent must play first, and three rounds.
* `Harmony`, the action constraint of `five_entrants`: a match is proposed by its
  first player, for either of its two, or the final by the oracle; nobody disputes
  or cancels. All of that is left open in the runs with two and
  three players; the questions of this run are about how the bracket fills,
  which does not depend on who proposed.
* Free descriptors: nobody, an entrant (`two_players`) and a key that never joined
  (the tournament's own, which is also a wallet a prize may be made out to) are the
  kinds of entries a slot can hold. `claim_irrevocable` needs two entrants and lets
  the organizer draw a seeded first round before the rest, which the other runs do
  not demand.
* The dispute window is 1 and the force-claim window 2, so that a step before,
  at and after each deadline exists and the two are distinguishable (`liveness`
  uses 1 and 1, where the question is only that both end; `deployment` uses 0
  and 0: none of its questions is about a window).
* A chunk is any set of up to `MaxChunk` accounts, so every smaller chunk and every
  order of chunks is included. `MaxCloseChunk` is 2 where closes
  matter, and 0 where a closed account would only empty the antecedent.
* `MaxIncarnations` is 1: see `claim_leftovers`, which uses 2. `MaxDonations` is
  1: a second gift is the first one again, and the theorem has no bound.
* Three oracles are the least for which a stale sample can outweigh the fresh
  ones, with a quorum of 2; sample ages 0 and 101 lie on both sides of the
  staleness of 100 that the accepted configuration sets.
* The seven attestations are two that a player may join with, one of them shared
  with the other player's, one of the issuer the protocol may turn to, and one
  of every kind the gate refuses: expired, of another game, of another program.
* `FieldComplete` (of `MCBracketChain`) starts after all joins, in one order:
  other orders rename the players. It is a state `Spec` reaches: everybody
  joined, then the registration deadline passed.
* `Largest` is `MAX_PARTICIPANTS`, so the geometry is checked completely.
* `Lanes` is {0}: see "Observed" in section 5.

## 4. Fairness

* `Tick`: time passes.
* `ClaimResult` and `ForceClaimDisputed` of every match: permissionless, and the
  README of the repository has a cron retry each of them. Weak fairness is
  enough, because neither is ever disabled by anything but its own success, a
  dispute (which re-arms the deadline once) or the end of the tournament.
* Refund senders (`RefundFairness`): `cancel_tournament` on a cancelled
  tournament and `partial_refund_chunk` are permissionless and idempotent, and
  each entrant has an interest to send its own. `RefundsAreLogged` assumes the
  same of the senders and states what the log shows for it.
* `PlayFairness`, in `PlayedToTheEnd` only: one of the two players of each
  playable match reports. The code has no way to end a match nobody reports
  except `partial_cancel_tournament`.
* `UpgradeFairness`, in `claim_upgrade` only: the authority migrates what it can,
  and refunds are sent. It is there so that the counterexample is no idleness.

Nothing is ever assumed of the organizer, the arbitrator or an opponent.
`RefundsEventually` allows for participants whose account was closed on the
way (`claim_refund` shows that this happens); `ProposalEventuallySettles` is
checked for winner-takes-all (`claim_force` shows that it fails otherwise). An
oracle match whose feed never settles and whose players are silent has no
proposal to settle; only the organizer's partial cancellation ends it.

## 5. Where the code and its documentation disagree

Each of these runs finds its property violated.

* **`claim_refund`**: `close_tournament` closes a `Participant` of a cancelled
  tournament without reading `refund_paid`. It is permissionless, and the
  refund instructions need the account, so the fee stays in the vault for good,
  and a vault that is not empty is never closed. The comment of
  `partial_refund_chunk` promises a full refund to every participant.
* **`claim_leftovers`**: the root can be closed before its children. If the same
  organizer creates a tournament of the same name, the PDA is the same and the
  old `Participant` accounts pass for entrants of the new one: they are refunded
  from a vault they did not pay into. The comment in `close_tournament.rs`
  counts only lost rent, for the organizer. (Theorems with the
  hypothesis `MaxIncarnations <= 1` leave this out.)
* **`claim_force`**: `force_claim_disputed` is untrusted for placements, so a
  disputed final of a preset with more than one place stays open while the
  organizer is silent, 24 hours or for ever.
* **`claim_feed`**: a fractional feed value is truncated, not rejected.
* **`claim_irrevocable`**: `src/README.md:43` says "A reported match is otherwise
  irrevocable." No descriptor of an `OrganizerOnly` tournament is validated. In the
  run five entrants are drawn; the first round is as it should be, but a
  second-round match is drawn with both its players, and therefore `Active`. It is
  reported; then its feeder is, and `advance_winner` writes the feeder's winner
  over a player of the decided match and makes it `Active` again, because it reads
  neither slot nor status (`settlement.rs:198-207`). `ReportedIsIrrevocable` is
  what holds: of a draw by the seed, which the other modes enforce.
* **`claim_upgrade`**: `migrate_v1_tournament.rs:17` and `src/README.md:113` say
  that a tournament the upgrade finds under way "must be cancelled & refunded".
  `migrate_v1_tournament` grows the `Tournament` account only. The refund
  instructions decode the `Participant` accounts, which keep the MVP's shorter
  layout, so they fail on each of them. The tournament can be cancelled and the
  deposit refunded; the fees stay in the vault, whatever is sent. This is also so
  for a tournament still in registration, the case the migration is meant for:
  who joined before the upgrade cannot be refunded.
  How far the layouts differ is read from `state/participant.rs` (fields marked
  as of V1) and from the fact that only the two migrations reallocate.

Observed while modelling, without a run of their own:

* `confirm_result.rs:9` speaks of the counterparty, and its check (line 72 on)
  asks only for a player who is not the proposer. The proposer of an oracle
  result is the relayer, so the player it favours confirms alone, inside the
  window in which the other could have disputed. `SettlementAuthority` states
  the rule as the code has it.
* A lower place may be made out to the tournament itself: `distribute_prizes`
  validates places 1 and 2 only, and `validate_token_account` takes the vault as
  the token account of the tournament's key (`settlement.rs:294`, `:338-357`). The
  transfer from the vault to the vault moves nothing, the tournament becomes
  `Completed`, and a vault that is not empty is never closed. The comment at
  `settlement.rs:277` ("the vault drains to zero") is about rounding, and right
  about it: `VaultAccounting` says that nothing else stays. Only a trusted signer
  names lower places (`PlacesNeedTheOrganizer`). `three_players` has such finals.
* In a draw at will the final itself may be `Active` from the start: reported at
  once, it completes the tournament with every other match open. It may be drawn
  as a bye, too, and be overwritten by a feeder's winner like the match of
  `claim_irrevocable`; or no match may ever get two players, which leaves the
  tournament to `partial_cancel_tournament`. A match that is made playable again is
  announced again (`MatchReported` twice). `CompletedMeansDecided`,
  `SomeMatchIsPlayable`, `CountersMatchAccounts` and `LogExplainsItself` are
  therefore stated of a draw by the seed.
* `initialize_protocol` takes the treasury unchecked: it may be an entrant, the
  organizer or a tournament's key. No property depends on it.
* `src/README.md:68` says the final refunds the deposit; the code pays it out
  with the prizes (`PrizesMatchThePreset` states the pool that way).
* `src/README.md:88` has `propose_result_oracle` verify "the winner hash vs the
  commitment"; the code reads an index, 0 or 1, and compares nothing with the
  commitment. Comments of `propose_result_oracle.rs` (11, 21-26) still describe
  a Steam ID.
* `match_commitment.rs:7-15` and `bind_match_feed.rs:76-78` tie the feed to the
  committed identities. On chain `expected_feed_hash` is the organizer's word;
  it is compared with the feed's (`BoundFeedRunsTheCommittedJob`) and with
  nothing else.
* The queue and the hash of a feed are compared when it is bound, not when it is
  read: taking the queue out of the configuration does not stop a bound feed.
  (`UnconfiguredOracleIsInert` is about the time before the first
  `set_oracle_config`; no choice of its instance sets the default key again.)
* `constants.rs:59-63` introduces the floor of one sample because zero "would let
  get_value settle on a single submission"; with one it does, too.
* `src/README.md:113` has in-progress tournaments excluded from the migration;
  the handler reads no status.
* An `Oracle` tournament may be created for the game `Manual`, whose entrants
  have no identity; every commitment then names the zero identity twice.
  `create_tournament` also takes games `game.rs:7` calls reserved.
* Two wallets may join with attestations of one identity.
* `src/README.md:128` says `bracket_size` covers `max_participants`; the code
  takes it from `participant_count`.
* `src/README.md:173` lists a field `kind` of `RefundIssued`; the event has none,
  and an indexer tells the deposit from a fee only by its recipient.
* A bye emits no `MatchReported`: whoever replays the log must derive byes from
  the draw. `ResultDisputed` may follow `MatchReported`, because
  `dispute_result` reads no status: a settled match can be marked disputed, a
  match of a cancelled tournament too. Nothing follows from it
  (`TerminalIsFrozen`, `ReportedIsIrrevocable`).
* `report_result` credits no wins and losses (`state/participant.rs:20`), and
  no instruction credits the "points" of `src/README.md:75`.
* Placements from the third on are any wallets, one of them for several places
  if the signer likes (`lib.rs:226` speaks of an invariant).
* The lane of a descriptor and of the next match is not checked: with two lanes
  a tournament may become `Active` with matches of lane 0 missing.
* `vrf_commit_slot` is stored and not compared in `reveal_seed`, and
  `committed_slot` of a commitment is compared nowhere.

## 6. Proofs

Every safety invariant and every action property of the passing runs has a
theorem, checked by TLAPS to the last leaf. The theorems hold for every finite
set of players, every fee, deposit, preset, window, chunk size, lane and seed,
for every field from 2 to 128, and those about `Deployment` for all
attestations, feeds, samples and configurations.

**Assumptions** say what the code's types and address constraints say, and TLC
evaluates each of them in a run: `PartiesAssumption` (finitely many players; the
default key is no party; the tournament's key, which is derived by the program,
signs nothing. Organizer, relayer and treasury may be one another, and players),
`ParametersAssumption` and `SeedsAssumption` (a seed is a stream of naturals) of
`TournamentState`, `DeploymentAssumption`, `OracleChoicesAssumption` of
`ProtocolConfig` (`max_stale_slots` is unsigned), `OraclesAssumption` of
`OracleFeed` (finitely many oracles), `LargestAssumption` of `DrawCheck` and
`CheckedAssumption` of `PayoutCheck`.

**Hypotheses** stand in the theorem that needs them, and nowhere else:

| hypothesis | says | why it is needed |
|---|---|---|
| `MaxIncarnations <= 1` | the PDA is created once | `claim_leftovers` is the counterexample for 2 |
| `OneLane` | all matches are of one lane | the lane byte is not checked (section 5) |
| `Validated` | if the tournament is organizer-run, its descriptors are the seed's | in `TheLogShowsTheTournament` only: the code takes any descriptor of such a tournament, and the log shows its size and seed, not its slots |
| `QueuesAreReal` | the default key is no feed's queue and is never configured | `set_oracle_config` does not reject it |
| `RealCredentials` | SAS makes no attestation without a credential | `validate_attestation` compares with whatever is configured |

Properties of the bracket carry their own condition, `DrawIsSeeded`, a state
predicate and no restriction of the model: in the modes other than
`OrganizerOnly`, which validate the draw, they hold as they stand, whatever
`FreeEntrants` is; of an organizer-run tournament they say nothing unless it has
the SDK's draw. `BracketInv` and `EliminationInv` are proved in the form
`Validated => ...`, where `Validated` also allows for a PDA without a tournament.
Money, rights, end states, prizes and the binding of the draw need no such
condition.

### The vault (`MoneyProofs`)

* `VaultIsAccounted`, `RefundsAreExact`: `VaultAccounting` and `RefundsMakeWhole`.
  Neither is inductive alone. `MoneyInv` adds to them and to `TypeOK`
  - `UnbornIsEmpty`: before creation nobody has joined and
    the balances are 0 (otherwise creation would not establish the sum);
  - `NobodyClosedEarly`: while a tournament is still open to joins, no
    Participant account has been closed (otherwise `join_tournament`, whose
    `init` succeeds on a closed PDA, would count a player twice).

  The sum in `VaultAccounting` is a cardinality; the steps use that joining adds
  one player to `Unrefunded` (`JoinAddsADebt`), that a chunk removes exactly
  `Unpaid(chunk)` (`RefundSettlesDebts`) and that closes forget nothing that is
  owed (`CloseForgetsNothing`). That the final leaves in the vault what it sends
  the vault, and no more, is `FinalLeavesItsOwn`: the prizes add up to the pool
  (`AlgorithmProofs!SplitAddsUp`), and until the final nothing was sent to the
  tournament itself (`NothingOwn`).
* `VaultIsAnEscrow`: `Spec => ImplementsEscrow`. Every instruction maps to a step
  of `Escrow`, or to a stutter: create to `Open`, join to `PayIn`, every refund and
  both cancellations to `Refund` (an empty one, if nobody is paid), the final to
  `PayOut`, which pays out all but what it keeps of its own, the close of the root
  to `Dissolve`. `MoneyInv` gives that the pool is
  empty when it dissolves and that nobody pays in twice; `NothingRefundedUnpaid`
  is added, so that an entrant who joins is not yet refunded.

### Rights and end states (`BracketChainProofs`)

* `TypeCorrect`: `Spec => []TypeOK`. One lemma per instruction; the settlement
  ones go through a lemma about `FinalizeMatch`.
* `ProposalsBind`: `ProposalIsBinding`, resting on `NoMatchNoProposal` (an account
  that does not exist holds no proposal, so `start_tournament`, which empties
  envelopes, overwrites none).
* `OnlyTheEntitledSettle`: `SettlementAuthority`, resting on
  `OrganizerOnlyHasNoProposals`: `report_result` reads no envelope, and only the
  settlement mode keeps it away from one. A PDA created again in another mode
  with a match account left over would bring them together.
* `DrawsBind`: `DrawIsBinding`, resting on `DrawnMeansSealed` (once a bracket is
  begun, a bound seed has been revealed, so that `reveal_seed`, which reads no
  status, cannot replace the seed in use).
* `TheEndIsFinal`: `TerminalIsFrozen`, from `TypeOK` alone.

### How winners move up (`AdvancementProofs`)

* `WinnersMoveUp`: `SlotsMirrorFeeders`. Its invariant `BracketInv` says that
  slots mirror feeders at every moment (`Mirrored`), that a match waits exactly
  for the players it lacks (`Sound`), and, so that the chunks of
  `start_tournament` fit together, that what is drawn so far is what seed and
  field stand for (`AsDrawn`). That needs that no two entrants share a join
  number (`NumbersDiffer`) and, from `DrawsBind`, that the seed is fixed. An
  arriving winner finds its slot empty, because its feeder was undecided. Of
  `MoneyInv` only the part about accounts is used (`Enrolled`).
* `ResultsAreIrrevocable`: `ReportedIsIrrevocable`. A match whose slot is empty
  is not decided (`PlayableIsOpen`), so no winner lands on a decided one.
* `CountersAgree`: `CountersMatchAccounts`. That the count `size - 1` means a
  complete bracket is `AlgorithmProofs!OneLessThanItsSlots`.
* `BracketsNeverStall`: `SomeMatchIsPlayable`. The final of an Active tournament
  is undecided (`FinalIsOpen`; it is no bye, since two entrants fill a bracket
  of two), so there is an undecided match of the lowest round; its feeders exist
  (`FeedersExist`), are decided, and have filled its slots.
* `TheOrganizerPlaces`: `PlacesNeedTheOrganizer`, under `OneLane` alone.

### Draw, score, completion, prizes (`EliminationProofs`)

The invariant `EliminationInv` (theorem `EliminationInvariant`) says, on top of
`BracketInv`: the entrants have the join numbers from 0 on, each once
(`Numbered`); the first round seats the ranks by the seed's permutation
(`FirstRoundSeeded`); a winner is one of the two players (`WinnersPlayed`); wins
and losses are those of the matches (`Scored`, in the modes that credit them and
while the accounts last); and `CompletedMeansDecided`.

* `EveryoneIsDrawn`: `EveryEntrantDrawnOnce`. `Numbered` and
  `AlgorithmProofs!SeedPermutationPermutes` give every entrant one rank,
  `RankHasOneMatch` gives every rank one match.
* `BeatenMeansOut`: `SingleElimination`. By induction over rounds a player has at
  most one match in a round and has won every earlier one (`ClimbsTo`), so the
  match that was lost is the last.
* `CompletionIsComplete`: `CompletedMeansDecided`. The final has both players only
  if both feeders are decided, and so down to the first round. Conversely, in a
  bracket that is played out a player nobody beat is in every round, hence in the
  final (`TheUnbeatenWins`).
* `PrizesAreExact`: `PrizesMatchThePreset`. Its invariant `PrizesInv` needs no
  seeded draw: when the final is settled nothing has been refunded
  (`NothingRefundedYet`), so the vault is the pool, and the preset is a valid one
  (`PresetValid`). Prizes are compared wallet by wallet (`PrizesByName`), and the
  sum over all wallets is that of the eight places
  (`AlgorithmProofs!SlotTotals`), although one wallet may hold several.

### The operators (`AlgorithmProofs`, `CheckProofs`)

* `SplitAddsUp` (prizes add up to the net pool, for any pool), `SplitIsFair`
  (every lower place gets its floor, the champion at least its own).
* `BracketSizeFits`, `NoDoubleBye`, `RankHasOneMatch` (for every field there is one
  bracket size, no match is a bye for both sides, and every rank is in one
  first-round match) and `OneLessThanItsSlots`.
* `SeedPermutationPermutes`: the shuffle of any stream is a permutation of the
  join numbers. `IsShuffle` describes the function by its rounds; each swap
  keeps an order an order.
* `CheckProofs` states the same of the loop as `seeding.rs` runs it, and of the
  other properties of the run `algorithms`, without that run's bounds.
  `LoopInv` says that the order so far is one of the join numbers and is what the
  rounds done so far make of the draws; from it come `ShuffleLosesNobody`,
  `LoopComputesTheFunction` (the loop is the function the other modules use),
  `EveryOrderHasOneDraw` (the draws can be read off the order, from the last
  round back), `EveryFieldHasATree` and `EveryFieldMeetsOnce`. Of the split:
  `NoDustNoDebt` and `PlacesAreRanked`, for every pool and every accepted preset.

The provers cannot instantiate the library's induction theorems.
Where an induction is needed it is done on a *set* of numbers or of sets:
`Counting` and `Collecting` are proved from the well-foundedness of the order of
the naturals, and a recursive function is used through its defining equation,
for which existence and uniqueness are proved first (`SumExists`, `SumUnique`).

### The log (`EventProofs`)

* `EventSpecImplements`: what is proved of `Spec` holds of `EventSpec`.
* `TheLogIsALedger`: `LogIsTheLedger`, without any hypothesis: however often a PDA
  is created, the amounts announced are those moved (`Balanced`), and the vault of
  a completed tournament holds what the log made out to the tournament (`Kept`).
* `TheLogShowsTheTournament`: `ViewAgrees`. Its invariant consists of `HeaderInv`
  (a bracket that is announced has a size, so that its seed is fixed) and
  `MatchesInv` (until a tournament ends, the log has said nothing of a match there
  is no account of: what `start_tournament` writes finds a blank page).
* `TheLogExplainsItself`: `LogExplainsItself`. `Fits` says which way of closing may
  be announced for which envelope; that only a proposal is disputed
  (`DisputesAnswer`) and that an organizer-run match has none make every path fit.

### The program as deployed (`DeploymentProofs`)

A step of the deployed program is a step of `BracketChain`, a gift to the vault,
the migration of the tournament, or a step that leaves the tournament alone.
What was proved of `BracketChain` step by step therefore carries over, with three
things to show: that the feed's values are among those the core allows
(`FeedReportsSamples`), that the migration, which changes `settlement_mode`, does
so before there is a proposal, and that the states an upgrade may find satisfy
the invariants.

* `DeployedTypesHold`: `TypeOK`, with `OldTournament` (an MVP tournament that is
  not migrated was created, and is organizer-run: it cannot be closed).
  `DeploymentIsTyped`: `DeployedTypeOK`, for configuration, lobby and feeds.
* `RightsSurviveDeployment`: `ProposalIsBinding`, `DrawIsBinding` and
  `SettlementAuthority`. `WinnersMoveUpDeployed`: `SlotsMirrorFeeders`.
* `MigrationKeepsTheRules`: `MigratedIsOrganizerRun`, to the last account of the
  old tournament, for any incarnations. Its invariant adds that the mode stays
  that of the variant numbered zero, which every handler that opens a proposal
  or commits a match refuses.
* `FeedsRunCommittedJobs`: `BoundFeedRunsTheCommittedJob`, for any incarnations.
  Its invariant `FeedInv` adds that only committed matches are bound, so that
  a commitment, which is made once, is never written under a feed.
* `GiftsChangeNoDebt`: `VaultHoldsDebtsAndGifts`, for gifts of any number at any
  moment. The invariant `Gifts` is `MoneyInv`'s with `donated` on top, and says
  that nothing is made out to the tournament but by a final (`KeepsItsOwn`). Its
  new case is the close of the root: an empty vault there means that neither debts
  nor gifts are left, natural numbers whose sum is zero.
* `CommitmentsAreAttested`: `CommitmentNamesThePlayers`. Its invariant `NamedInv`
  says that committed matches have both players and that every entrant was
  vouched for when joining. A winner moves up into a match that lacks a player,
  which is therefore not committed (`BracketInv`).
* `InertUntilConfigured`: `UnconfiguredOracleIsInert`. While the queue is zero no
  feed is bound and no proposal is the oracle's.
* `MajoritiesDecide`: `FreshMajorityDecides`. Whoever names the opponent lies on
  one side of the median, and at most half of the fresh samples do (`MedianLies`,
  `MedianDecides`).

### Model-checked only

The four liveness properties, `ProposalEventuallySettles`, `RefundsEventually`,
`PlayedToTheEnd` and `RefundsAreLogged`: fairness and ENABLED are out of the
prover's reach. And the six claims of section 5, which are refuted.

## 7. Running

```
tlc -config TwoPlayers.cfg MCEvents
tlc -config ThreePlayers.cfg MCBracketChain
tlc -config Deployment.cfg MCDeployment
tlapm DeploymentProofs.tla
```

`PROJECT.json` lists the runs with their modules and configurations, the lines
of source each definition models, and for each property a bug that breaks it.

## 8. Not modelled

* Which error a refused instruction returns (`errors.rs`): that it is refused
  is the guard of its action.
* The bytes: layouts of attestations and accounts, discriminators, rent, names,
  mints, bumps, timestamps nobody compares, keccak and splitmix64. An
  attestation that is malformed is not told from one that is not there. Mint
  and owner checks of token accounts are address constraints: a transfer in the
  model goes to the wallet the code names.
* Saturation of the `u8` counters and overflow of `u64` sums (`checked_add` fails
  the transaction; 128 entrants are far from both).
* The MVP program itself: `Upgrade` starts from the accounts it leaves.
* A second tournament beside the modelled one. Tournaments share no account but
  the configuration, which `Deployment` lets its authority write at any time.
* Switchboard and its randomness: who sends samples, and the freshness of a
  randomness account. A feed holds any sampling when it is read, and a revealed
  seed is any seed.
* Tests, scripts, the SDK: read as documentation of what is intended.
