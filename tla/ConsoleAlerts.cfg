CONSTANTS
  MaxEvents = 3
  Critical <- MCCritical
  SessionOf <- MCSessionOf
  Threshold = 2
  MaxVisible <- MCMaxVisible
  MaxPolls = 2
SPECIFICATION Spec
INVARIANTS
  CountedOnce
  QuietSignedOut
  NothingSkipped
PROPERTIES
  CriticalStays
