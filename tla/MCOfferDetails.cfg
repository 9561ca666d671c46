SPECIFICATION FairSpec
CONSTANTS
  Classes <- OnlyOffers
  Sizes <- FewSizes
  MaxDocs = 1
  MaxScreens = 2
  MaxTaps = 1
  MaxEdits = 1
  MaxNotes = 1
INVARIANTS
  OrphansAreLate
  NewestOnTop
  SilencedByRebuild
PROPERTIES
  ServesScreens
  TapAnswered
  SpinnerEnds
CHECK_DEADLOCK FALSE
