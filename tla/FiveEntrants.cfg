SPECIFICATION FieldCompleteSpec
CONSTANTS
  Players = {p1, p2, p3, p4, p5}
  Organizer = org
  Treasury = tre
  Relayer = rel
  TournamentPda = pda
  NoOne = NoOne
  NoSeed = NoSeed
  Modes = {"Oracle"}
  Presets <- WTAOnly
  EntryFee = 1010
  OrganizerDeposit = 507
  MaxParticipants = 5
  RegistrationPeriod = 1
  DisputeWindow = 1
  ForceClaimWindow = 2
  Seeds <- TwoStreams
  Lanes = {0}
  FreeEntrants = {}
  FeedValues = {0, 2}
  MaxChunk = 2
  MaxCloseChunk = 0
  MaxIncarnations = 1
CHECK_DEADLOCK FALSE
ACTION_CONSTRAINT Harmony
INVARIANTS EveryEntrantDrawnOnce CountersMatchAccounts SomeMatchIsPlayable SlotsMirrorFeeders
