CONSTANTS
  Mounts = {m1, m2}
  MaxQuestions = 2
  MaxFaults = 2
SPECIFICATION FairSpec
INVARIANTS NoHoleInTheThread StoredTwiceOnlyIfLost WaitingTurnsAreFlagged
  TitleIsTheOpeningQuestion
 
CHECK_DEADLOCK FALSE
