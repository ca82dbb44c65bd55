SPECIFICATION InstallsFairSpec
CONSTANTS
  s1 = s1
  Sessions = {s1}
  MaxRelease = 2
  MaxFailures = 1
  MaxCuts = 1
INVARIANT NeverTogether
PROPERTIES EndsAsItRan ImplementsEngine UpdatesTakeHold
