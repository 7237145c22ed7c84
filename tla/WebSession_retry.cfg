SPECIFICATION FairSpec
CONSTANTS
  MaxPair = 2
  Tabs = {t1}
  Processes = {p1}
  Requests = {r1}
  MaxCsrf = 1
  MaxActs = 4
  Asked = {"private"}
  Lossy = FALSE
PROPERTY RetryLeadsSomewhere
CHECK_DEADLOCK FALSE
