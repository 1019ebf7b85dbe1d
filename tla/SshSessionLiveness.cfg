CONSTANTS
  Sessions = {s1}
  c3 = c3
  Conns = {c1, c3}
  Admins = {a1}
  None = None
  Owner <- MCOwner
  UserOf <- MCUserOf
  AccountOf <- MCOneAccount
  GraceOn = TRUE
SPECIFICATION FairSpec
PROPERTIES
  DetachedLeaves
  TerminateReturns
  EndedShellEndsSession
