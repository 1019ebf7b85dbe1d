-------------------------- MODULE MCConsoleTerminal --------------------------
(***************************************************************************)
(* Instance of ConsoleTerminal for TLC: one session whose secret is leased *)
(* to the browser, one whose password is typed.                            *)
(***************************************************************************)
EXTENDS ConsoleTerminal

CONSTANTS s1, s2

MCKind == [s \in Sessions |-> IF s = s1 THEN "leased" ELSE "manual"]
=============================================================================
