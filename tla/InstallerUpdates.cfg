CONSTANTS
  Paths = {"pkg", "gate", "config"}
  Modules = {}
  Layout <- LayoutOf
  PackageJson = "pkg"
  Ships <- Shipped
  Removed <- RemovedLast
  Promoted <- NonePromoted
  MaxVersion = 3
  ProjectTexts = {1}
  DryRuns = {FALSE}
  MaxEdits = 1
  MaxCrashes = 0
SPECIFICATION Spec
INVARIANT PristineMatchesRecord
PROPERTIES UnmodifiedUpgrades UpdateSettles
