SPECIFICATION FairSpec
CONSTANTS
  Platforms = {"android", "iOS"}
  Routed = {1, 2, 4}
  MaxMessages = 4
INVARIANT
  SlotMatchesHandler
PROPERTIES
  OpensTapped
  StartedFromMessage
