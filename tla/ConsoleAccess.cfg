CONSTANTS
  db = db
  wiki = wiki
  Resources <- MCResources
  Kind <- MCKind
  DualApproval <- MCDual
  PolicyApproval <- MCPolicy
  Local <- MCLocal
  Ask <- MCAsk
  Accounts <- MCAccounts
  MaxCalls = 2
  MaxSessions = 1
  MaxRequests = 1
  None = None
SPECIFICATION FairSpec
INVARIANTS
  DetailsForResource
  NoBlankTab
PROPERTIES
  ApprovedAccess
  LaunchSettles
