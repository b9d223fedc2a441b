SPECIFICATION Spec
CONSTANTS
  c1 = c1
  c2 = c2
  Callers = {c1, c2}
  Enabled = TRUE
  OpenDuration = 2
  MaxProbes = 1
  MinSamples = 1
  RateNum = 1
  RateDen = 2
  MaxLag = 0
  Width = 2
  MaxEntries = 2
  WindowDuration = 1
INVARIANT OneProbe
