SPECIFICATION AtWillSpec
CONSTANTS
  Players = {p1, p2, p3, p4, p5}
  Organizer = org
  Treasury = tre
  Relayer = rel
  TournamentPda = pda
  NoOne = NoOne
  NoSeed = NoSeed
  Modes = {"OrganizerOnly"}
  Presets <- WTAOnly
  EntryFee = 1010
  OrganizerDeposit = 507
  MaxParticipants = 5
  RegistrationPeriod = 1
  DisputeWindow = 1
  ForceClaimWindow = 2
  Seeds <- OneStream
  Lanes = {0}
  FreeEntrants = {p1, p2}
  FeedValues = {}
  MaxChunk = 4
  MaxCloseChunk = 0
  MaxIncarnations = 1
PROPERTIES ResultsStand
CHECK_DEADLOCK FALSE
