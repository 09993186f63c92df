SPECIFICATION AlgorithmsSpec
CONSTANTS
  Largest = 128
  LargestShuffled = 5
  MaxGross = 1200
  CheckedPresets <- PresetsToCheck
INVARIANTS OneTree RanksMeetOnce NobodyIsLost LoopIsTheFunction EveryOrderOnce WholePoolGoesOut PlacesAreARanking
CHECK_DEADLOCK FALSE
