SPECIFICATION FactorSpec
CONSTANTS
  Listings <- MCListings
  Frames <- MCFrames
  Windows <- MCWindows
  Scores = {1, 2}
  NaN = 0
  SavesModels = FALSE
  MaxModels = 2
  MaxSaved = 2
  MaxTrainings = 1
INVARIANT BestModelIsRegistered
CHECK_DEADLOCK FALSE
