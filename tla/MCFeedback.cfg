SPECIFICATION FairSpec
CONSTANTS
  Fields = {"name", "note"}
  MaxForms = 2
  MaxTexts = 4
  MaxSends = 3
PROPERTIES
  ClearsOnlyStored
  NotSentAgain
  PressSettles
