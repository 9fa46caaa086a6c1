CONSTANTS
  Areas = {"ramp", "screens", "design", "native", "ratchets", "coverage", "budgets"}
  Gates = {"licenses", "duplication"}
  Chain <- TwoGates
  Stamped = {"licenses"}
  Contents = {"good", "old", "bad"}
  Checks = {"tree", "citation", "clones"}
  GateOf <- GateOfCheck
  LiveFrom <- Introduced
  Violates <- Violating
  Static = {"citation", "clones"}
  MaxVersion = 3
  MaxEdits = 2
  RouteFiles <- AllRoutes
  RouteIds = {"home", "note"}
  NewEntries <- PossibleEntries
  TestIds = {"a", "b", "c", "d", "f"}
  Containers = {"home", "note"}
  MaxFacts = 3
  MaxCap = 2
  Tokens = {"danger", "bg", "muted"}
  Themes = {"light", "dark"}
  Inks = {0, 1, 4, 5, 6}
  OutOfGamut = 99
  Pairs <- ListedPairs
  StatusTokens = {"danger"}
  Sources = {"screen", "base", "button", "seam"}
  Home = {"base", "button"}
  TouchableBase = "base"
  Seam = "seam"
  MaxChanges = 2
  Permissions = {"mic"}
  Plugins = {"router", "tracker", "camera"}
  UsageKeys = {"tracking", "cam"}
  Tracking = "tracking"
  Implied <- ImpliedKeys
  Signals = {"tracker", "fbsdk"}
  Profiles = {"base", "development", "production"}
  Absent = Absent
  MaxTouches = 2
  Files = {"auth", "owned"}
  Texts = {"cond", "block"}
  MaxMutants = 2
  MaxVintage = 2
  MaxSteps = 3
  CodeFiles = {"server", "mobile", "routes"}
  MobileFiles = {"mobile", "routes"}
  TopLevel = {"routes"}
  Runners = {"vitest", "jest"}
  StatementLines <- StatementsSeen
  MaxContents = 2
  MaxCovered = 2
  Dirs = {"matrix", "notes"}
  Effects = {"screen"}
  LeakPairs = {"timer"}
  Cells = 10
  MaxCost = 2
  MaxTweaks = 3
SPECIFICATION GatesSpec
INVARIANTS CITruth ScreensAreCovered LaneVouches PaintIsReadable GreenIsCurrent SurfaceAgrees SurvivorsAccounted FloorsHold RenderBudgetHolds
PROPERTIES GraduateSweeps UpdatesDoNotAmbush
CHECK_DEADLOCK FALSE
