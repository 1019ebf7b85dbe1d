CONSTANTS
  Sessions = {s1}
  c3 = c3
  Conns = {c1, c2, c3}
  Admins = {a1}
  None = None
  Owner <- MCOwner
  UserOf <- MCUserOf
  AccountOf <- MCAccountOf
  GraceOn = TRUE
SPECIFICATION Spec
SYMMETRY OwnConns
INVARIANTS
  TypeOK
  OneOwner
  OrderlyEnd
  RightShell
  DetachedTable
