SPECIFICATION Spec
CONSTANTS
  Items <- MCItems
  TypeOf <- MCTypeOf
  Reviewers <- MCReviewers
  FavoriteLimit = 1
  NoItem = "none"
  StatesOffered = {"backlog", "completed"}
  MaxActs = 4
  MaxLosses = 0
INVARIANT RowsAreTrue
CHECK_DEADLOCK FALSE
