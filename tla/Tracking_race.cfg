SPECIFICATION Spec
CONSTANTS
  Items = {i1, i2}
  TypeOf <- Albums
  FavoriteLimit = 1
  NoItem = NoItem
  Users = {u1}
  Requests = {p1, p2}
  MaxCalls = 4
  MaxFailures = 1
SYMMETRY Symmetry
INVARIANTS TypeOK QuotaHeld RatingFollowsStatus BannerIsFavorite AggregatesMatch
PROPERTIES LossIsAcknowledged ImplementsPromises
CHECK_DEADLOCK FALSE
