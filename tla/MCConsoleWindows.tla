--------------------------- MODULE MCConsoleWindows ---------------------------
(* Every window of the console on a small instance of its own.             *)
EXTENDS ConsoleWindows

CONSTANTS
  docs, team, x, y,                     \* the drive: two folders, two names
  d1, d2, f, g,                         \* transfer: two folders, two files
  a, b,                                 \* lists: two values of everything
  me, peer, bot, new,                   \* users: bot is a service account
  p1, p2, p3,                           \* the viewer: three files
  u1, u2, t1, t2, ap,                   \* access: two accounts, two resources, a profile
  k1, k2, tab1, tab2,                   \* factors: two keys, two tabs
  r1, r2, z1, z2, low, high, none, required, direct, relay   \* zones

MCFolders == {docs, team}
MCOwn == {docs}
MCNames == {x, y}
MCThere == {<<docs, x>>}

(* f takes two chunks and is there already, g is empty.                    *)
MCDirs == {d1, d2}
MCDocs == {f, g}
MCSize == [i \in MCDocs |-> IF i = f THEN 2 ELSE 0]
MCTooLarge == {}
MCPresent == {<<d1, f>>}

MCTwo == {a, b}

MCAccounts == {me, peer, bot, new}
MCService == {bot}
MCRoles == {"admin", "operator"}

(* p1 fits, p2 is larger than the bastion takes, p3 is empty.              *)
MCPapers == {p1, p2, p3}
MCPieces == [p \in MCPapers |-> CASE p = p1 -> 2 [] p = p2 -> 3 [] p = p3 -> 0]

MCHolders == {u1, u2}
MCTargets == {t1, t2}
MCGroups == {<<t1, t2>>}
MCProfiles == {ap}
MCReach == [p \in MCProfiles |-> {t1}]

MCKeys == {k1, k2}
MCHeld == {k1}
MCCards == {tab1, tab2}

MCThings == {r1, r2}
MCZones == {z1, z2}
MCRisks == {low, high}
MCRules == {none, required}
MCRelays == {direct, relay}
=============================================================================
