CONSTANTS
  Users = {"ann", "bo"}
  Calls = {"list", "delete"}
  Deletion = "delete"
  DeletesFail = TRUE
  MaxTokens = 3
SPECIFICATION Spec
INVARIANTS RetryNeverRepeats SignOutSticks OwnRequests
PROPERTY CallsSettle
