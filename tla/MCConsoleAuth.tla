---------------------------- MODULE MCConsoleAuth ----------------------------
(***************************************************************************)
(* Instance of ConsoleAuth for TLC: an account u1 that owes both first     *)
(* sign-in steps; any other would owe none.                                *)
(***************************************************************************)
EXTENDS ConsoleAuth

CONSTANTS u1

MCFirstSetup == [u \in Users |-> IF u = u1 THEN Steps ELSE {}]
=============================================================================
