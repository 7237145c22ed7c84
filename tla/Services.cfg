SPECIFICATION ServicesSpec
CONSTANTS
  MaxPair = 2
  Tabs = {t1}
  Processes = {p1, p2}
  Requests = {r1, r2}
  MaxCsrf = 1
  MaxActs = 2
  Asked = {"private", "write", "public", "reset", "signin", "logout", "logout-all"}
  Lossy = TRUE
  Writers = {r1, r2, v}
  Visitors = {r1, r2, v}
  Workers = {k}
  Titles = {p1, p2}
  NoOne = NoOne
SYMMETRY ServicesSymmetry
INVARIANTS
  ServicesTypeOK
  CookiesAreKept
  SharedWorkIsSingle
PROPERTIES
  IdentityIsKept
  OrderIsMeant
CHECK_DEADLOCK FALSE
