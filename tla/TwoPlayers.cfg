SPECIFICATION EventSpec
CONSTANTS
  Players = {p1, p2}
  Organizer = org
  Treasury = tre
  Relayer = rel
  TournamentPda = pda
  NoOne = NoOne
  NoSeed = NoSeed
  Modes = {"OrganizerOnly", "PlayerReported", "Oracle"}
  Presets <- WTAOrTwoWay
  EntryFee = 1010
  OrganizerDeposit = 507
  MaxParticipants = 2
  RegistrationPeriod = 1
  DisputeWindow = 1
  ForceClaimWindow = 2
  Seeds <- OneStream
  Lanes = {0}
  FreeEntrants = {p1, NoOne, pda}
  FeedValues <- FeedHalves
  MaxChunk = 2
  MaxCloseChunk = 2
  MaxIncarnations = 1
CHECK_DEADLOCK FALSE
INVARIANTS TypeOK VaultAccounting RefundsMakeWhole PlacesNeedTheOrganizer ViewAgrees LogIsTheLedger
PROPERTIES TerminalIsFrozen SettlementAuthority ProposalIsBinding ImplementsEscrow LogExplainsItself RefundsAreLogged
