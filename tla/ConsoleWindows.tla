---------------------------- MODULE ConsoleWindows ----------------------------
(***************************************************************************)
(* What a browser tab shows beside the terminal: the drive of a file share *)
(* in a tab of its own, or the page of the console that is open.  One of   *)
(* them is mounted at a time, and each keeps its state to itself, so each  *)
(* is followed from the moment it is opened.                               *)
(***************************************************************************)
EXTENDS ConsoleDrive, ConsoleTransfer, ConsoleViewer, ConsoleLists, ConsoleUsers, ConsoleScope,
        ConsoleZones, ConsoleFactors

VARIABLE window

Windows == {"drive", "transfer", "viewer", "lists", "users", "scope", "zones", "factors"}
windowVars == <<window, driveVars, transferVars, viewerVars, listVars, userVars, scopeVars,
                zoneVars, factorVars>>

(* Type correctness of the window that is open: each keeps to the values   *)
(* its code gives its state.                                               *)
WindowsTypeOK ==
  CASE window = "drive" -> DriveTypeOK
    [] window = "transfer" -> TransferTypeOK
    [] window = "viewer" -> ViewerTypeOK
    [] window = "lists" -> ListsTypeOK
    [] window = "users" -> UsersTypeOK
    [] window = "scope" -> ScopeTypeOK
    [] window = "zones" -> ZonesTypeOK
    [] window = "factors" -> FactorsTypeOK

(* main.jsx and the route of the console choose.                           *)
Open ==
  /\ window \in Windows
  /\ DriveInit /\ TransferInit /\ ViewerInit /\ ListsInit
  /\ UsersInit /\ ScopeInit /\ ZonesInit /\ FactorsInit

(* A step of the window that is open.                                      *)
Step ==
  \/ /\ window = "drive" /\ DriveNext
     /\ UNCHANGED <<transferVars, viewerVars, listVars, userVars, scopeVars, zoneVars, factorVars>>
  \/ /\ window = "transfer" /\ TransferNext
     /\ UNCHANGED <<driveVars, viewerVars, listVars, userVars, scopeVars, zoneVars, factorVars>>
  \/ /\ window = "viewer" /\ ViewerNext
     /\ UNCHANGED <<driveVars, transferVars, listVars, userVars, scopeVars, zoneVars, factorVars>>
  \/ /\ window = "lists" /\ ListsNext
     /\ UNCHANGED <<driveVars, transferVars, viewerVars, userVars, scopeVars, zoneVars, factorVars>>
  \/ /\ window = "users" /\ UsersNext
     /\ UNCHANGED <<driveVars, transferVars, viewerVars, listVars, scopeVars, zoneVars, factorVars>>
  \/ /\ window = "scope" /\ ScopeNext
     /\ UNCHANGED <<driveVars, transferVars, viewerVars, listVars, userVars, zoneVars, factorVars>>
  \/ /\ window = "zones" /\ ZonesNext
     /\ UNCHANGED <<driveVars, transferVars, viewerVars, listVars, userVars, scopeVars, factorVars>>
  \/ /\ window = "factors" /\ FactorsNext
     /\ UNCHANGED <<driveVars, transferVars, viewerVars, listVars, userVars, scopeVars, zoneVars>>

Next == Step /\ UNCHANGED window

Spec == Open /\ [][Next]_windowVars
=============================================================================
