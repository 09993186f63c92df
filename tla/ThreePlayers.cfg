SPECIFICATION Spec
CONSTANTS
  Players = {p1, p2, p3}
  Organizer = org
  Treasury = tre
  Relayer = rel
  TournamentPda = pda
  NoOne = NoOne
  NoSeed = NoSeed
  Modes = {"OrganizerOnly", "PlayerReported"}
  Presets <- WTAOrStandard
  EntryFee = 1010
  OrganizerDeposit = 507
  MaxParticipants = 3
  RegistrationPeriod = 1
  DisputeWindow = 1
  ForceClaimWindow = 2
  Seeds <- TwoStreams
  Lanes = {0}
  FreeEntrants = {NoOne, pda}
  FeedValues = {}
  MaxChunk = 3
  MaxCloseChunk = 0
  MaxIncarnations = 1
SYMMETRY PlayerSymmetry
CHECK_DEADLOCK FALSE
INVARIANTS PrizesMatchThePreset CompletedMeansDecided SingleElimination SlotsMirrorFeeders
PROPERTIES DrawIsBinding ReportedIsIrrevocable
