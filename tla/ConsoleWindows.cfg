SPECIFICATION Spec
CONSTANTS
  docs = docs  team = team  x = x  y = y
  d1 = d1  d2 = d2  f = f  g = g
  a = a  b = b
  me = me  peer = peer  bot = bot  new = new
  r1 = r1  r2 = r2  z1 = z1  z2 = z2  low = low  high = high
  none = none  required = required  direct = direct  relay = relay
  p1 = p1  p2 = p2  p3 = p3  u1 = u1  u2 = u2  t1 = t1  t2 = t2  ap = ap
  k1 = k1  k2 = k2  tab1 = tab1  tab2 = tab2
  Folders <- MCFolders  Own <- MCOwn  Writable <- MCFolders  Names <- MCNames
  There <- MCThere  Outgoing = Outgoing
  MaxUploads = 1  MaxChains = 2  MaxTimers = 2  MaxClicks = 2
  Dirs <- MCDirs  Home = d1  Docs <- MCDocs  Size <- MCSize
  TooLarge <- MCTooLarge  Present <- MCPresent
  MaxSends = 2  MaxLoads = 1  MaxSweeps = 1
  Texts <- MCTwo  Selections <- MCTwo  Periods <- MCTwo  Sessions <- MCTwo  Nodes <- MCTwo
  NoText = a  NoSelection = a  Today = a  NoSession = a  NoNode = a
  PAGE_SIZE = 1  MaxEvents = 3  MaxRequests = 4  MaxPending = 3
  Accounts <- MCAccounts  Me = me  Peer = peer  Service <- MCService  Roles <- MCRoles
  Nobody = Nobody  MaxCalls = 3
  Things <- MCThings  Zones <- MCZones  NO_ZONE = NO_ZONE  Risks <- MCRisks
  Rules <- MCRules  Relays <- MCRelays  NoPolicy = none  Direct = direct
  MIXED = MIXED  Unset = Unset  MaxEdits = 3  MaxSaves = 1  MaxOthers = 1
  Papers <- MCPapers  Pieces <- MCPieces  Cap = 2
  MaxPapers = 2  MaxDialogs = 2  MaxFailures = 1
  Holders <- MCHolders  Targets <- MCTargets  Groups <- MCGroups  Profiles <- MCProfiles
  Reach <- MCReach  First = u1  MaxToggles = 3
  Cards <- MCCards  Keys <- MCKeys  HeldKeys <- MCHeld  Admin = TRUE  Overlapping = FALSE
  MaxSecrets = 2  MaxChanges = 3  NoKey = NoKey
INVARIANTS WindowsTypeOK  AdminRemains CleanSave GivenIsWhole 
PROPERTIES UploadsKeepFiles ShowsWhatIsAsked OnlyAsClicked
CHECK_DEADLOCK FALSE
