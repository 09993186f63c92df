SPECIFICATION DeployedSpec
CONSTANTS
  p1 = p1
  p2 = p2
  Players = {p1, p2}
  Organizer = org
  Treasury = tre
  Relayer = rel
  TournamentPda = pda
  NoOne = NoOne
  NoSeed = NoSeed
  Modes = {"OrganizerOnly", "Oracle"}
  Presets <- WTAOnly
  EntryFee = 1010
  OrganizerDeposit = 507
  MaxParticipants = 2
  RegistrationPeriod = 1
  DisputeWindow = 0
  ForceClaimWindow = 0
  Seeds <- OneStream
  Lanes = {0}
  FreeEntrants = {}
  FeedValues = {0, 2}
  MaxChunk = 2
  MaxCloseChunk = 0
  MaxIncarnations = 1
  Unset = Unset
  IdentityGames = {"Dota2", "Cs2"}
  SasChoices <- SomeSas
  OracleChoices <- SomeOracle
  Oracles = {o1, o2, o3}
  SampleValues = {0, 2}
  SampleAges = {0, 101}
  Games = {"Dota2"}
  Attestations <- SomeAttestations
  Lifetime <- SomeLifetimes
  FeedAccounts <- SomeFeeds
  FeedHashes <- Hashes
  NoIdentity = NoIdentity
  NoAccount = NoAccount
  MaxDonations = 1
CHECK_DEADLOCK FALSE
INVARIANTS DeployedTypeOK CommitmentNamesThePlayers BoundFeedRunsTheCommittedJob FreshMajorityDecides UnconfiguredOracleIsInert MigratedIsOrganizerRun VaultHoldsDebtsAndGifts
