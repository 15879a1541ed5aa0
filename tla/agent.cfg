SPECIFICATION FairSpec
CONSTANTS
  j1 = j1  j2 = j2
  Jobs = {j1, j2}
  Images <- MCImages
  Texts <- MCTexts
  Fold <- MCFold
  Casefold <- MCCasefold
  Trim <- MCTrim
  Similar <- MCSimilar
  Days = {1, 2, 3, 4, 5}
  NoDay = 0
  Open = 9
  Hints <- MCHints
  Readings <- MCReadings
  MaxRounds = 2
  Backlog = 1
INVARIANTS NothingLost UnquestionedIsRated OneRequestPerJob
PROPERTY ServiceFrees
