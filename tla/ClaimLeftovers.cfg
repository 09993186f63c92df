SPECIFICATION Spec
CONSTANTS
  Players = {p1, p2}
  Organizer = org
  Treasury = tre
  Relayer = rel
  TournamentPda = pda
  NoOne = NoOne
  NoSeed = NoSeed
  Modes = {"PlayerReported"}
  Presets <- WTAOnly
  EntryFee = 1010
  OrganizerDeposit = 507
  MaxParticipants = 2
  RegistrationPeriod = 1
  DisputeWindow = 1
  ForceClaimWindow = 2
  Seeds <- OneStream
  Lanes = {0}
  FreeEntrants = {}
  FeedValues = {}
  MaxChunk = 2
  MaxCloseChunk = 0
  MaxIncarnations = 2
INVARIANTS VaultCoversRefunds
CHECK_DEADLOCK FALSE
