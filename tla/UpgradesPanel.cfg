SPECIFICATION Spec
CONSTANTS
  s1 = s1
  s2 = s2
  Segments = {s1}
  Detected <- MCDetected
  Brightness <- MCBrightness
  MaxAdjust = 0
  Scenarios <- MCScenarios
  Panel = TRUE
PROPERTIES
  AdviceImproves
