SPECIFICATION PagesSpec
CONSTANTS
  Sizes = {1, 2}
  DefaultSize = 1
  FirstOrder <- MCOrder
  TitleRank <- MCTitles
  Lists <- MCLists
  User = 1
  InitialSearches <- MCSearches
  Sorts <- MCSorts
  FilterSets <- MCFilters
  GroupSet <- MCGroups
  MaxActs = 2
  MaxLosses = 1
  FActs = 4
  FSaved = 2
  HAnchors <- MCAnchors
  HViewports <- MCViewports
  HHeights = {5}
  HGap = 1
  WItems <- MCItems
  WNoImage = "none"
  WIndex = 4
  CItems <- MCContents
  CTypeOf <- MCTypeOf
  CReviewers <- MCReviewers
  CFavoriteLimit = 1
  CNoItem = "none"
  CStates = {"completed"}
  CActs = 3
  CLosses = 1
  PContents = {"c1", "c2"}
  PNoContent = "none"
  PActs = 3
  PLosses = 1
  POutside = 1
  ASeasons = {"s1", "s2"}
  ALists = {"l1", "l2"}
  AFirstLists = {"l1"}
  AActs = 3
  ALosses = 1
  DTexts = {"", "a", "a ", "ab"}
  DTrim <- MCTrim
  DTitles <- MCFound
  DFamily = "MOVIE"
  DResolvable <- MCResolvable
  DModerationVisible = TRUE
  DActs = 2
  DLosses = 1
  DMoves = 1
INVARIANTS
  PagesTypeOK
  ListIsTrue
  ArrangementsAreWhole
  WritesAreSeen
  DialogsShowRecords
  ProfileIsTrue
  NothingUnasked
  DiscoveryIsTrue
CHECK_DEADLOCK FALSE
CONSTRAINT Events
