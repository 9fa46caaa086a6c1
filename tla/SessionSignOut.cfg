CONSTANTS
  Users = {"ann", "bo"}
  Calls = {"list", "delete"}
  Deletion = "delete"
  DeletesFail = FALSE
  MaxTokens = 2
SPECIFICATION NobodySignsIn
INVARIANT SignedOutStays
