CONSTANTS
  Users = {"ann", "bo"}
  Slots = {"r1", "r2", "r3"}
  Conns = {1, 2}
  Ids = {1}
  Inputs <- Requests
SPECIFICATION ServerSpec
INVARIANTS IdentityIsScoped StrangersLearnNothing
PROPERTIES CleanExitAnswers ImplementsUserStore RequestsEnd
