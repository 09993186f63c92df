SPECIFICATION LivenessSpec
CONSTANTS
  Players = {p1, p2, p3}
  Organizer = org
  Treasury = tre
  Relayer = rel
  TournamentPda = pda
  NoOne = NoOne
  NoSeed = NoSeed
  Modes = {"PlayerReported"}
  Presets <- WTAOnly
  EntryFee = 1010
  OrganizerDeposit = 507
  MaxParticipants = 3
  RegistrationPeriod = 1
  DisputeWindow = 1
  ForceClaimWindow = 1
  Seeds <- OneStream
  Lanes = {0}
  FreeEntrants = {}
  FeedValues = {}
  MaxChunk = 3
  MaxCloseChunk = 0
  MaxIncarnations = 1
PROPERTIES ProposalEventuallySettles RefundsEventually PlayedToTheEnd
CHECK_DEADLOCK FALSE
