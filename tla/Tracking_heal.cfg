SPECIFICATION FairSpec
CONSTANTS
  Items = {i1, i2}
  TypeOf <- OneMovie
  FavoriteLimit = 1
  NoItem = NoItem
  Users = {u1}
  Requests = {p1, p2}
  MaxCalls = 3
  MaxFailures = 1
PROPERTY CollectionsHeal
CHECK_DEADLOCK FALSE
