SPECIFICATION Spec
CONSTANTS
  Platforms = {"android", "iOS"}
  Routed = {1}
  MaxMessages = 1
INVARIANT TerminatedTapHandled
