----------------------------- MODULE ConsoleZones -----------------------------
(***************************************************************************)
(* The zones page: resources are dragged between zones and the rules of a  *)
(* zone edited, all of it pending until Save, which turns it into one call *)
(* per resource, then one per zone policy, then one per relay.  A call may *)
(* fail and the save goes on; other administrators work on the same        *)
(* resources; and nothing keeps the user from editing while it runs.       *)
(*                                                                         *)
(* Of the fields of a resource the risk stands for the ones a zone sets,   *)
(* of the rules of a zone policy one stands for all.                       *)
(***************************************************************************)
EXTENDS Naturals, FiniteSets

CONSTANTS
  Things,        \* the resources
  Zones,         \* names of zones
  NO_ZONE,
  Risks, Rules, Relays,
  NoPolicy,      \* among Rules: the zone has no policy of its own
  Direct,        \* among Relays: no relay
  MIXED, Unset,
  MaxEdits,      \* bound: changes on the page
  MaxSaves,      \* bound: saves
  MaxOthers      \* bound: changes of other administrators

ASSUME ZonesAssumption ==
  /\ Zones # {} /\ Risks # {} /\ NO_ZONE \notin Zones /\ NoPolicy \in Rules /\ Direct \in Relays
  /\ {MIXED, Unset} \cap (Zones \cup {NO_ZONE} \cup Risks \cup Rules \cup Relays) = {}
  /\ MaxEdits \in Nat /\ MaxSaves \in Nat /\ MaxOthers \in Nat

VARIABLES
  resource,   \* bastion: zone, risk and relay of every resource
  policy,     \* bastion: the rule of the policy of every zone
  resources,  \* the page: resources and routes as loaded
  policies,   \* the page: policies as loaded
  reloading,  \* policies and routes are being loaded
  newZones, moves, edits,
  saving,
  calls,      \* calls of the save that are still to be made
  failed,     \* some call of the save failed
  report,
  wanted,     \* history: moves, zone and edits on screen at the click on Save
  touched,    \* history: resources others changed since
  done        \* edits, saves, changes of others so far

zoneVars == <<resource, policy, resources, policies, reloading, newZones, moves, edits,
              saving, calls, failed, report, wanted, touched, done>>

AnyZone == Zones \cup {NO_ZONE}
Resource == [zone : AnyZone, risk : Risks, relay : Relays]
NoMoves == [r \in Things |-> Unset]
NoEdit == [risk |-> Unset, rule |-> Unset, relay |-> Unset]
NoEdits == [z \in Zones |-> NoEdit]
Edit == [risk : Risks \cup {Unset}, rule : Rules \cup {Unset}, relay : Relays \cup {Unset}]

ZonesTypeOK ==
  /\ resource \in [Things -> Resource] /\ resources \in [Things -> Resource]
  /\ policy \in [Zones -> Rules] /\ policies \in [Zones -> Rules]
  /\ newZones \subseteq Zones /\ moves \in [Things -> AnyZone \cup {Unset}]
  /\ edits \in [Zones -> Edit]
  /\ \A c \in calls : \/ c.stage = 1 /\ c.at \in Things /\ c.to \in AnyZone /\ c.val \in Risks
                      \/ c.stage = 2 /\ c.at \in Zones /\ c.val \in Rules
                      \/ c.stage = 3 /\ c.at \in Things /\ c.val \in Relays
  /\ {reloading, saving, failed} \subseteq BOOLEAN /\ (calls # {} => saving)
  /\ report \in {"none", "saved", "failures"}
  /\ touched \subseteq Things
  /\ done \in [edits : 0 .. MaxEdits, saves : 0 .. MaxSaves, others : 0 .. MaxOthers]

(* The first resource is in a zone of its own, the page has loaded all.    *)
ZonesInit ==
  LET first == CHOOSE r \in Things : TRUE
      risk == CHOOSE x \in Risks : TRUE
      home == CHOOSE z \in Zones : TRUE
  IN /\ resource = [r \in Things |-> [zone |-> IF r = first THEN home ELSE NO_ZONE,
                                      risk |-> risk, relay |-> Direct]]
     /\ policy = [z \in Zones |-> NoPolicy]
     /\ resources = resource /\ policies = policy /\ reloading = FALSE
     /\ newZones = {} /\ moves = NoMoves /\ edits = NoEdits
     /\ saving = FALSE /\ calls = {} /\ failed = FALSE /\ report = "none"
     /\ wanted = [moves |-> NoMoves, zone |-> [r \in Things |-> resource[r].zone], edits |-> NoEdits]
     /\ touched = {} /\ done = [edits |-> 0, saves |-> 0, others |-> 0]

-----------------------------------------------------------------------------
(* What the page shows.                                                    *)

zoneOf(r) == resources[r].zone
zoneOfResource(r) == IF moves[r] # Unset THEN moves[r] ELSE zoneOf(r)
membersOf(z) == {r \in Things : zoneOfResource(r) = z}
zones ==
  {z \in Zones : \/ z \in newZones \/ policies[z] # NoPolicy
                 \/ \E r \in Things : z \in {zoneOf(r), moves[r]}}

common(values) == IF Cardinality(values) = 1 THEN CHOOSE v \in values : TRUE ELSE MIXED

(* Values of a zone before pending edits: of the members as loaded.  The   *)
(* risk of no members is a value no edit equals, as MIXED is; their relay  *)
(* is the value of Direct.                                                 *)
baseOf(z) ==
  LET members == {r \in Things : zoneOf(r) = z}
  IN [risk |-> common({resources[r].risk : r \in members}),
      rule |-> policies[z],
      relay |-> IF members = {} THEN Direct ELSE common({resources[r].relay : r \in members})]

-----------------------------------------------------------------------------
(* Pending changes, also while a save is under way.                        *)

CountEdit == done.edits < MaxEdits /\ done' = [done EXCEPT !.edits = @ + 1]

createZone(z) ==
  /\ CountEdit /\ z \notin zones /\ newZones' = newZones \cup {z}
  /\ UNCHANGED <<resource, policy, resources, policies, reloading, moves, edits,
                 saving, calls, failed, report, wanted, touched>>

(* A change back to what was loaded is no change.                          *)
moveResource(r, z) ==
  /\ CountEdit /\ z \in zones \cup {NO_ZONE} /\ z # zoneOfResource(r)
  /\ moves' = [moves EXCEPT ![r] = IF zoneOf(r) = z THEN Unset ELSE z]
  /\ UNCHANGED <<resource, policy, resources, policies, reloading, newZones, edits,
                 saving, calls, failed, report, wanted, touched>>
setEdit(z, key, v) ==
  /\ CountEdit /\ z \in zones
  /\ edits' = [edits EXCEPT ![z][key] = IF baseOf(z)[key] = v THEN Unset ELSE v]
  /\ UNCHANGED <<resource, policy, resources, policies, reloading, newZones, moves,
                 saving, calls, failed, report, wanted, touched>>

Pending == moves # NoMoves \/ edits # NoEdits

reset ==
  /\ Pending /\ ~saving /\ moves' = NoMoves /\ edits' = NoEdits /\ report' = "none"
  /\ UNCHANGED <<resource, policy, resources, policies, reloading, newZones,
                 saving, calls, failed, wanted, touched, done>>

-----------------------------------------------------------------------------
(* Save.                                                                   *)

Edited(r, key) ==
  zoneOfResource(r) # NO_ZONE /\ edits[zoneOfResource(r)][key] # Unset

(* A resource is sent whole: its other fields are those of the list.       *)
MutResourceChange(r) ==
  [stage |-> 1, at |-> r,
   to |-> IF moves[r] # Unset /\ ~Edited(r, "risk") THEN moves[r] ELSE zoneOf(r),
   val |-> IF Edited(r, "risk") THEN edits[zoneOfResource(r)].risk ELSE resources[r].risk]
resourceChange(r) ==
  [stage |-> 1, at |-> r, to |-> zoneOfResource(r),
   val |-> IF Edited(r, "risk") THEN edits[zoneOfResource(r)].risk ELSE resources[r].risk]
resourceChanges ==
  {resourceChange(r) : r \in {s \in Things : moves[s] # Unset \/ Edited(s, "risk")}}
policyChanges ==
  {[stage |-> 2, at |-> z, val |-> edits[z].rule] : z \in {y \in Zones : edits[y].rule # Unset}}
relayChanges ==
  {[stage |-> 3, at |-> r, val |-> edits[zoneOfResource(r)].relay] :
     r \in {s \in Things : Edited(s, "relay")}}

save ==
  /\ Pending /\ ~saving /\ done.saves < MaxSaves
  /\ done' = [done EXCEPT !.saves = @ + 1]
  /\ saving' = TRUE /\ failed' = FALSE
  /\ calls' = resourceChanges \cup policyChanges \cup relayChanges
  /\ wanted' = [moves |-> moves, zone |-> [r \in Things |-> zoneOfResource(r)], edits |-> edits]
  /\ touched' = {}
  /\ UNCHANGED <<resource, policy, resources, policies, reloading, newZones, moves, edits, report>>

(* The calls are made one after the other, stage by stage.                 *)
Turn(c) == c \in calls /\ \A o \in calls : o.stage >= c.stage
Apply(c) ==
  CASE c.stage = 1 -> resource' = [resource EXCEPT ![c.at].zone = c.to, ![c.at].risk = c.val]
                      /\ UNCHANGED policy
    [] c.stage = 2 -> policy' = [policy EXCEPT ![c.at] = c.val] /\ UNCHANGED resource
    [] c.stage = 3 -> resource' = [resource EXCEPT ![c.at].relay = c.val] /\ UNCHANGED policy

SaveCall(c) ==
  /\ Turn(c) /\ calls' = calls \ {c} /\ Apply(c)
  /\ UNCHANGED <<resources, policies, reloading, newZones, moves, edits, saving, failed,
                 report, wanted, touched, done>>

(* Refused, or its answer lost; the save goes on with the next call.       *)
SaveCallFails(c) ==
  /\ Turn(c) /\ calls' = calls \ {c} /\ failed' = TRUE
  /\ Apply(c) \/ UNCHANGED <<resource, policy>>
  /\ UNCHANGED <<resources, policies, reloading, newZones, moves, edits, saving,
                 report, wanted, touched, done>>

(* The list is loaded again, if it can be, and all that is pending         *)
(* dropped: what failed, and what was changed since the click too.         *)
MutSaveEnds ==
  /\ saving
  /\ resources' \in {resources,
       [r \in Things |-> [resource[r] EXCEPT !.relay = resources[r].relay]]}
  /\ moves' = NoMoves /\ edits' = NoEdits /\ newZones' = {}
  /\ report' = (IF failed THEN "failures" ELSE "saved")
  /\ saving' = FALSE /\ reloading' = TRUE
  /\ UNCHANGED <<resource, policy, policies, calls, failed, wanted, touched, done>>
SaveEnds ==
  /\ saving /\ calls = {}
  /\ resources' \in {resources,
       [r \in Things |-> [resource[r] EXCEPT !.relay = resources[r].relay]]}
  /\ moves' = NoMoves /\ edits' = NoEdits /\ newZones' = {}
  /\ report' = (IF failed THEN "failures" ELSE "saved")
  /\ saving' = FALSE /\ reloading' = TRUE
  /\ UNCHANGED <<resource, policy, policies, calls, failed, wanted, touched, done>>

(* The effects load the policies and the routes; either may fail.          *)
RefreshZones ==
  /\ reloading /\ reloading' = FALSE
  /\ policies' \in {policies, policy}
  /\ resources' \in {resources, [r \in Things |-> [resources[r] EXCEPT !.relay = resource[r].relay]]}
  /\ UNCHANGED <<resource, policy, newZones, moves, edits, saving, calls, failed, report,
                 wanted, touched, done>>

(* Another administrator edits a resource.                                 *)
OtherEdits(r, new) ==
  /\ done.others < MaxOthers /\ done' = [done EXCEPT !.others = @ + 1]
  /\ resource' = [resource EXCEPT ![r] = new] /\ touched' = touched \cup {r}
  /\ UNCHANGED <<policy, resources, policies, reloading, newZones, moves, edits, saving,
                 calls, failed, report, wanted>>

-----------------------------------------------------------------------------
ZonesNext ==
  \/ \E z \in Zones : createZone(z)
  \/ \E r \in Things : \/ \E z \in AnyZone : moveResource(r, z)
                       \/ \E new \in Resource : OtherEdits(r, new)
  \/ \E z \in Zones : \/ \E v \in Risks : setEdit(z, "risk", v)
                      \/ \E v \in Rules \ {NoPolicy} : setEdit(z, "rule", v)
                      \/ \E v \in Relays : setEdit(z, "relay", v)
  \/ reset \/ save \/ SaveEnds \/ RefreshZones
  \/ \E c \in calls : SaveCall(c) \/ SaveCallFails(c)

ZonesSpec == ZonesInit /\ [][ZonesNext]_zoneVars

-----------------------------------------------------------------------------
(* A report without failures is true: every resource nobody else touched   *)
(* since the click is in the zone it was dragged to, and has the risk and  *)
(* the relay asked for the zone it was shown in; every edited policy is as *)
(* asked.  Moves and edits of the same resource, failed reloads and edits  *)
(* made during the save do not get in each other's way.                    *)
CleanSave ==
  report = "saved" /\ ~saving =>
    /\ \A z \in Zones : wanted.edits[z].rule \in {Unset, policy[z]}
    /\ \A r \in Things \ touched :
         /\ wanted.moves[r] \in {Unset, resource[r].zone}
         /\ wanted.zone[r] # NO_ZONE =>
              /\ wanted.edits[wanted.zone[r]].risk \in {Unset, resource[r].risk}
              /\ wanted.edits[wanted.zone[r]].relay \in {Unset, resource[r].relay}
=============================================================================
