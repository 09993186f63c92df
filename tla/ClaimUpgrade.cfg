SPECIFICATION UpgradeSpec
CONSTANTS
  p1 = p1
  p2 = p2
  Players = {p1, p2}
  Organizer = org
  Treasury = tre
  Relayer = rel
  TournamentPda = pda
  NoOne = NoOne
  NoSeed = NoSeed
  Modes = {"OrganizerOnly", "Oracle"}
  Presets <- WTAOnly
  EntryFee = 1010
  OrganizerDeposit = 507
  MaxParticipants = 2
  RegistrationPeriod = 1
  DisputeWindow = 0
  ForceClaimWindow = 0
  Seeds <- OneStream
  Lanes = {0}
  FreeEntrants = {}
  FeedValues = {}
  MaxChunk = 2
  MaxCloseChunk = 0
  MaxIncarnations = 1
  Unset = Unset
  IdentityGames = {"Dota2", "Cs2"}
  SasChoices = {}
  OracleChoices = {}
  Oracles = {}
  SampleValues = {}
  SampleAges = {}
  Games = {"Dota2"}
  Attestations = {}
  Lifetime <- SomeLifetimes
  FeedAccounts = {}
  FeedHashes = {}
  NoIdentity = NoIdentity
  NoAccount = NoAccount
  MaxDonations = 0
CHECK_DEADLOCK FALSE
PROPERTIES SurvivorsAreRefunded
