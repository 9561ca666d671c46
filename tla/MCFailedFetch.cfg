SPECIFICATION Spec
CONSTANTS
  DefaultUpdate = 25
  FirstBuild = 26
  MaxVersion = 28
INVARIANT
  CachedIsUsed
