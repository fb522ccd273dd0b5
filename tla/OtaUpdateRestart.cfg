CONSTANTS
  Releases = {0, 1, 2}
  Broken = {1}
  NoRelease = NoRelease
  Unit = "always"
SPECIFICATION FairSpec
CHECK_DEADLOCK FALSE
PROPERTY CompletedRuns
