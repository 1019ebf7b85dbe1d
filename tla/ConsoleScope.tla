----------------------------- MODULE ConsoleScope -----------------------------
(***************************************************************************)
(* The access tab of an account in the administration: which resources and *)
(* profiles are ticked, and the requests that grant and revoke them.  The  *)
(* tab stays mounted when another account is selected, requests are        *)
(* answered in any order, and a click on a zone is a chain of requests     *)
(* that keeps the boxes as they were when it was clicked.                  *)
(***************************************************************************)
EXTENDS Naturals, Sequences, FiniteSets

CONSTANTS
  Holders,      \* accounts whose access is edited
  Targets,      \* resources
  Groups,       \* zones: the resources of each, in the order of the list
  Profiles,     \* access profiles
  Reach,        \* resources each profile gives
  First,        \* the account whose tab is opened
  MaxToggles    \* bound: clicks

ASSUME ScopeAssumption ==
  /\ First \in Holders /\ Groups \subseteq Seq(Targets) /\ <<>> \notin Groups
  /\ Reach \in [Profiles -> SUBSET Targets] /\ MaxToggles \in Nat

VARIABLES
  permits,   \* bastion: user_resource_permissions
  assigned,  \* bastion: user_access_profiles
  holder,    \* user, the account that is selected
  scope, profiles, scopeLoading,
  changes,   \* requests under way
  toggles,   \* number of clicks so far
  intents    \* history: what the clicks asked for

rights == <<permits, assigned>>
boxes == <<holder, scope, profiles, scopeLoading>>
scopeVars == <<rights, boxes, changes, toggles, intents>>

Ops == {"load", "toggle", "profile", "refresh"}

ScopeTypeOK ==
  /\ permits \in [Holders -> SUBSET Targets] /\ assigned \in [Holders -> SUBSET Profiles]
  /\ holder \in Holders /\ scope \subseteq Targets /\ profiles \subseteq Profiles
  /\ scopeLoading \in BOOLEAN /\ toggles \in 0 .. MaxToggles
  /\ \A c \in changes :
       /\ c.op \in Ops /\ c.who \in Holders /\ c.step \in {"sent", "served", "failed"}
       /\ c.list \in Seq(Targets \cup Profiles) /\ c.todo \subseteq DOMAIN c.list
       /\ c.ticked \subseteq Targets \cup Profiles
       /\ c.got \subseteq Targets /\ c.gotProfiles \subseteq Profiles

(* A request, or a chain of them: the account and the boxes of the render  *)
(* it was started from, the places in its list of the boxes still to       *)
(* change and, for what is read, the answer and whether the effect is      *)
(* current.                                                                *)
BoxRequest(op, u, list, todo, ticked) ==
  [n |-> toggles, op |-> op, who |-> u, list |-> list, todo |-> todo, ticked |-> ticked,
   step |-> "sent", active |-> TRUE, got |-> {}, gotProfiles |-> {}]

(* get_resource_permissions: what is granted and what the profiles give.   *)
get_resource_permissions(u) == permits[u] \cup UNION {Reach[p] : p \in assigned[u]}

ScopeInit ==
  /\ permits = [u \in Holders |-> {}] /\ assigned = [u \in Holders |-> {}]
  /\ holder = First /\ scope = {} /\ profiles = {} /\ scopeLoading = TRUE
  /\ toggles = 0 /\ intents = {}
  /\ changes = {[n |-> 0, op |-> "load", who |-> First, list |-> <<>>, todo |-> {},
                 ticked |-> {}, step |-> "sent", active |-> TRUE, got |-> {}, gotProfiles |-> {}]}

-----------------------------------------------------------------------------
Becomes(c, d) == changes' = (changes \ {c}) \cup d
Click == toggles < MaxToggles /\ toggles' = toggles + 1

(* Another account is selected: the effect of user.id loads its scope and  *)
(* drops the answer to an earlier load, and the boxes stay until then.     *)
SelectHolder(u) ==
  /\ Click /\ u # holder /\ holder' = u /\ scopeLoading' = TRUE
  /\ changes' = {IF c.op = "load" THEN [c EXCEPT !.active = FALSE] ELSE c : c \in changes}
                  \cup {BoxRequest("load", u, <<>>, {}, {})}
  /\ UNCHANGED <<rights, scope, profiles, intents>>

Want(items, give) == intents' = intents \cup {[who |-> holder, it |-> i, give |-> give] : i \in items}

toggleResource(r) ==
  /\ Click /\ ~scopeLoading /\ Want({r}, r \notin scope)
  /\ changes' = changes \cup {BoxRequest("toggle", holder, <<r>>, {1}, scope)}
  /\ UNCHANGED <<rights, boxes>>

(* The box of a zone is ticked when all of its resources are.              *)
toggleZone(members) ==
  LET items == {members[i] : i \in DOMAIN members}
      allOn == items \subseteq scope
      turns == {i \in DOMAIN members : allOn = (members[i] \in scope)}
  IN  /\ Click /\ ~scopeLoading /\ Want(items, ~allOn)
      /\ changes' = changes \cup {BoxRequest("toggle", holder, members, turns, scope)}
      /\ UNCHANGED <<rights, boxes>>

toggleProfile(p) ==
  /\ Click /\ ~scopeLoading /\ Want({p}, p \notin profiles)
  /\ changes' = changes \cup {BoxRequest("profile", holder, <<p>>, {1}, profiles)}
  /\ UNCHANGED <<rights, boxes>>

-----------------------------------------------------------------------------
(* The box whose turn it is.                                               *)
BoxTurn(c) == CHOOSE i \in c.todo : \A j \in c.todo : i <= j
Box(c) == c.list[BoxTurn(c)]
MutHas(c) == Box(c) \in scope
Has(c) == Box(c) \in c.ticked
Flip(set, x, has) == IF has THEN set \ {x} ELSE set \cup {x}

(* The bastion handles a request, or refuses it.                           *)
ServeBox(c) ==
  /\ c.step = "sent"
  /\ Becomes(c, {[c EXCEPT !.step = "served",
                     !.got = IF c.op \in {"load", "refresh"}
                               THEN get_resource_permissions(c.who) ELSE @,
                     !.gotProfiles = IF c.op = "load" THEN assigned[c.who] ELSE @]})
  /\ permits' = IF c.op = "toggle"
                 THEN [permits EXCEPT ![c.who] = Flip(@, Box(c), Has(c))] ELSE permits
  /\ assigned' = IF c.op = "profile"
               THEN [assigned EXCEPT ![c.who] = Flip(@, Box(c), Has(c))] ELSE assigned
  /\ UNCHANGED <<boxes, toggles, intents>>

RefuseChange(c) ==
  /\ c.step = "sent" /\ Becomes(c, {[c EXCEPT !.step = "failed"]})
  /\ UNCHANGED <<rights, boxes, toggles, intents>>

(* The next resource of the zone, if there is one.                         *)
Onward(c) ==
  IF \E i \in c.todo : i # BoxTurn(c)
  THEN {[c EXCEPT !.todo = @ \ {BoxTurn(c)}, !.step = "sent"]} ELSE {}

(* The answer changes the boxes that are on screen by then.                *)
ToggleDone(c) ==
  /\ c.op = "toggle" /\ c.step = "served" /\ Becomes(c, Onward(c))
  /\ scope' = Flip(scope, Box(c), Has(c))
  /\ UNCHANGED <<rights, holder, profiles, scopeLoading, toggles, intents>>

(* The resources of the account are then read again.                       *)
ProfileDone(c) ==
  /\ c.op = "profile" /\ c.step = "served"
  /\ Becomes(c, {[c EXCEPT !.op = "refresh", !.todo = {}, !.step = "sent"]})
  /\ profiles' = Flip(profiles, Box(c), Has(c))
  /\ UNCHANGED <<rights, holder, scope, scopeLoading, toggles, intents>>

RefreshDone(c) ==
  /\ c.op = "refresh" /\ c.step = "served" /\ Becomes(c, {}) /\ scope' = c.got
  /\ UNCHANGED <<rights, holder, profiles, scopeLoading, toggles, intents>>

LoadDone(c) ==
  /\ c.op = "load" /\ c.step = "served" /\ Becomes(c, {})
  /\ IF c.active THEN scope' = c.got /\ profiles' = c.gotProfiles /\ scopeLoading' = FALSE
                 ELSE UNCHANGED <<scope, profiles, scopeLoading>>
  /\ UNCHANGED <<rights, holder, toggles, intents>>

(* An error is shown; a zone goes on with its next resource, and a load    *)
(* that failed leaves the boxes of the account before.                     *)
ChangeFailed(c) ==
  /\ c.step = "failed" /\ Becomes(c, Onward(c))
  /\ scopeLoading' = (scopeLoading /\ ~(c.op = "load" /\ c.active))
  /\ UNCHANGED <<rights, holder, scope, profiles, toggles, intents>>

ScopeNext ==
  \/ \E u \in Holders : SelectHolder(u)
  \/ \E r \in Targets : toggleResource(r)
  \/ \E members \in Groups : toggleZone(members)
  \/ \E p \in Profiles : toggleProfile(p)
  \/ \E c \in changes :
       \/ ServeBox(c) \/ RefuseChange(c)
       \/ ToggleDone(c) \/ ProfileDone(c) \/ RefreshDone(c) \/ LoadDone(c) \/ ChangeFailed(c)

ScopeSpec == ScopeInit /\ [][ScopeNext]_scopeVars

-----------------------------------------------------------------------------
(* An account gains or loses a resource or a profile only as a click on    *)
(* its own tab asked for: what arrives while a zone is being changed, and  *)
(* another account selected meanwhile, never turn a grant into a           *)
(* revocation nor move it to the other account.                            *)
Asked(u, i, give) == [who |-> u, it |-> i, give |-> give] \in intents
Follows(now, next, u) ==
  /\ \A i \in next[u] \ now[u] : Asked(u, i, TRUE)
  /\ \A i \in now[u] \ next[u] : Asked(u, i, FALSE)
OnlyAsClicked ==
  [][\A u \in Holders : Follows(permits, permits', u) /\ Follows(assigned, assigned', u)]_scopeVars
=============================================================================
