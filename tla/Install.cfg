CONSTANTS
  MaxBuilds = 3
  MaxFaults = 1
  None = None
  Torn = Torn
SPECIFICATION Spec
INVARIANTS
  TypeOK
  InstalledIsWhole
  PairMatches
  FailedBuildKeepsProduct
  SuccessInstallsBuild
  EngineSurvives
PROPERTY
  BuildingEnds
