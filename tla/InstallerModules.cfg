CONSTANTS
  Paths = {"pkg", "modfile"}
  Modules = {"m"}
  Layout <- LayoutOf
  PackageJson = "pkg"
  Ships <- Shipped
  Removed <- RemovedLast
  Promoted <- PromotedIn2
  MaxVersion = 2
  ProjectTexts = {1}
  DryRuns = {FALSE}
  MaxEdits = 2
  MaxCrashes = 1
SPECIFICATION Spec
INVARIANT TagsFollowModules
PROPERTY WorkSurvives
