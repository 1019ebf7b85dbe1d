CONSTANTS
  Sessions = {s1, s2}
  s1 = s1
  s2 = s2
  Kind <- MCKind
  MaxSockets = 2
  MaxRetries = 1
  None = None
SPECIFICATION FairSpec
INVARIANTS
  PasswordForItsSession
  OneSocket
  LiveIsOnScreen
PROPERTIES
  AutoConnects
