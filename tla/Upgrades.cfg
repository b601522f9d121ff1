SPECIFICATION Spec
CONSTANTS
  s1 = s1
  s2 = s2
  Segments = {s1, s2}
  Detected <- MCDetected
  Brightness <- MCBrightness
  MaxAdjust = 1
  Scenarios <- MCScenarios
  Panel = FALSE
INVARIANTS
  PythonAgrees
  AdviceEnds
  UpgradesReduceRisk
PROPERTIES
  AdviceKept
  InstallReachesTarget
