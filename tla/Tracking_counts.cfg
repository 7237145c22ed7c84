SPECIFICATION Spec
CONSTANTS
  Items = {i1}
  TypeOf <- Albums
  FavoriteLimit = 1
  NoItem = NoItem
  Users = {u1, u2}
  Requests = {p1, p2}
  MaxCalls = 2
  MaxFailures = 0
INVARIANT AggregatesMatch
CHECK_DEADLOCK FALSE
