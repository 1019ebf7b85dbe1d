-------------------------- MODULE MCConsoleAlerts --------------------------
(***************************************************************************)
(* Instance of ConsoleAlerts for TLC: two critical events and a warning,   *)
(* of one session, under two profiles.                                     *)
(***************************************************************************)
EXTENDS ConsoleAlerts

MCCritical == {1, 3}
MCSessionOf == [e \in Events |-> 1]
MCMaxVisible ==
  [normal |-> [critical |-> 1, warning |-> 1, total |-> 2],
   permissive |-> [critical |-> 2, warning |-> 1, total |-> 2]]
=============================================================================
