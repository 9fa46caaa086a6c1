CONSTANTS
  Paths = {"pkg", "settings", "gitignore", "exemplar"}
  Modules = {}
  Layout <- LayoutOf
  PackageJson = "pkg"
  Ships <- Shipped
  Removed <- RemovedLast
  Promoted <- NonePromoted
  MaxVersion = 1
  ProjectTexts = {1}
  DryRuns = {TRUE, FALSE}
  MaxEdits = 0
  MaxCrashes = 0
SPECIFICATION Spec
INVARIANT NoProjectTextRecorded
PROPERTIES RetrofitKeepsTheirs
