SPECIFICATION Spec
CONSTANTS
  restaurants = restaurants
  hotels = hotels
  Restaurants <- restaurants
  Tiles <- TwoTiles
  MaxInner = 5
  MaxOuter = 2
INVARIANTS
  ArabicListSearchedInArabic
  EnglishListExplained
PROPERTY
  DownShutsTiles
CHECK_DEADLOCK FALSE
