-------------------------- MODULE MCConsoleAccess --------------------------
(***************************************************************************)
(* Instance of ConsoleAccess for TLC: an agent tunnel that asks for an     *)
(* approval and a reason, and a web resource a JIT policy protects.        *)
(***************************************************************************)
EXTENDS ConsoleAccess

CONSTANTS db, wiki

MCResources == {db, wiki}
MCKind == [r \in Resources |-> IF r = db THEN "agent" ELSE "web"]
MCDual == {db}
MCPolicy == {wiki}
MCLocal == {db}
MCAsk == {db}
MCAccounts ==
  { [jit |-> TRUE, manages |-> FALSE, reviews |-> FALSE],
    [jit |-> FALSE, manages |-> FALSE, reviews |-> FALSE],
    [jit |-> TRUE, manages |-> TRUE, reviews |-> FALSE] }
=============================================================================
