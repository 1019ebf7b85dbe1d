---------------------------- MODULE ConsoleAccess ----------------------------
(***************************************************************************)
(* Opening a session from the console: what a click on a resource asks     *)
(* first (the preview of the server's rules, the access dialog with its    *)
(* reason, its saved playbook and its approved request), the answer of     *)
(* POST /api/sessions, and what the new session opens in: a browser tab, a *)
(* viewer over the page, or the deep link of the native agent.             *)
(*                                                                         *)
(* Every call to the server is answered later, in any order, and the code  *)
(* after it uses what it captured when it was made.  The details of an     *)
(* access (reason, ticket, purpose) are one value: the resource they were  *)
(* entered for, or None while the fields are empty.                        *)
(***************************************************************************)
EXTENDS Naturals, FiniteSets

CONSTANTS
  Resources,
  Kind,           \* the viewer of a resource's protocol
  DualApproval,   \* resources with requireDualApproval
  PolicyApproval, \* resources a JIT policy asks an approval for
  Local,          \* resources whose own settings ask for details
  Ask,            \* resources the server asks details for
  Accounts,       \* the licence and the rights the tab may run with
  MaxCalls,       \* bound: calls not answered
  MaxSessions,    \* bound: sessions opened
  MaxRequests,    \* bound: access requests filed
  None

ASSUME AccessAssumption ==
  /\ Kind \in [Resources -> {"web", "files", "vnc", "agent", "ssh"}]
  /\ DualApproval \subseteq Resources /\ PolicyApproval \subseteq Resources
  /\ Local \subseteq Ask /\ Ask \subseteq Resources
  /\ Accounts \subseteq [jit : BOOLEAN, manages : BOOLEAN, reviews : BOOLEAN]
  /\ MaxCalls \in Nat \ {0} /\ MaxSessions \in Nat \ {0} /\ MaxRequests \in Nat \ {0}
  /\ None \notin Resources

VARIABLES
  account,     \* licence, capability manageResources, permission to review
  requests,    \* server: access requests
  lapsed,      \* requests approved more than an hour ago
  listed,      \* accessRequests of the tab: the status it knows
  opened,      \* server: sessions of this account
  shown,       \* sessions the tab's list shows as active
  calls,       \* calls not answered, with what they captured
  prompt,      \* the access dialog
  playbooks,   \* accessPlaybooks: details saved for a resource
  agent,       \* agentModal
  watched,     \* agentLaunchTimeoutRef and its listeners are armed
  viewer,      \* rbiViewerSession / vncViewerSession
  blank        \* calls whose tab is still about:blank

jitLicensed == account.jit
canManagePlatform == account.manages
canReview == account.reviews

srv == <<requests, lapsed, opened>>
screens == <<agent, watched, viewer>>
vars == <<account, srv, listed, shown, calls, prompt, playbooks, screens, blank>>

CallIds == 1 .. MaxCalls
SessionIds == 1 .. MaxSessions
RequestIds == 1 .. MaxRequests
Details == Resources \cup {None}
Closed == [res |-> None, mode |-> "connect", det |-> None, ref |-> 0]
NoRequest == [res |-> None, det |-> None, st |-> "none"]
NoSession == [res |-> None, det |-> None, ref |-> 0, st |-> "none"]
NoAgent == [ses |-> 0, link |-> 0, st |-> "closed"]
NoViewer == [web |-> 0, vnc |-> 0]

TypeOK ==
  /\ account \in Accounts
  /\ requests \in [RequestIds -> [res : Details, det : Details,
                     st : {"none", "pending", "approved", "denied", "expired"}]]
  /\ lapsed \subseteq RequestIds
  /\ listed \in [RequestIds -> {"none", "pending", "approved", "denied", "expired"}]
  /\ opened \in [SessionIds -> [res : Details, det : Details, ref : 0 .. MaxRequests,
                   st : {"none", "active", "ended"}]]
  /\ shown \subseteq SessionIds
  /\ calls \subseteq [id : CallIds, k : {"needs", "create", "request", "mint", "port"},
                      res : Details, det : Details, book : Details, ref : 0 .. MaxRequests,
                      ses : 0 .. MaxSessions, from : {"click", "approved", "dialog"}]
  /\ prompt \in [res : Details, mode : {"connect", "request"}, det : Details,
                 ref : 0 .. MaxRequests]
  /\ playbooks \in [Resources -> Details]
  /\ agent \in [ses : 0 .. MaxSessions, link : 0 .. MaxSessions,
                st : {"closed", "idle", "opening", "opened", "fallback"}]
  /\ watched \in BOOLEAN
  /\ viewer \in [web : 0 .. MaxSessions, vnc : 0 .. MaxSessions]
  /\ blank \subseteq CallIds

Init ==
  /\ account \in Accounts
  /\ requests = [q \in RequestIds |-> NoRequest] /\ lapsed = {}
  /\ listed = [q \in RequestIds |-> "none"]
  /\ opened = [s \in SessionIds |-> NoSession] /\ shown = {}
  /\ calls = {} /\ prompt = Closed /\ playbooks = [r \in Resources |-> None]
  /\ agent = NoAgent /\ watched = FALSE /\ viewer = NoViewer /\ blank = {}

-----------------------------------------------------------------------------
(* Calls.                                                                  *)

Call(rest, k, r, det, book, ref, s, from) ==
  [id |-> CHOOSE i \in CallIds : \A c \in rest : c.id # i,
   k |-> k, res |-> r, det |-> det, book |-> book, ref |-> ref, ses |-> s, from |-> from]
MayCall(rest) == Cardinality(rest) < MaxCalls
Modal == prompt.res # None \/ agent # NoAgent \/ viewer # NoViewer

(* The tab of a web or file resource is opened inside the click; the       *)
(* browser may block it.                                                   *)
connectToResource(rest, r, det, book, ref, from) ==
  LET c == Call(rest, "create", r, det, book, ref, 0, from)
  IN /\ calls' = rest \cup {c}
     /\ \E tab \in IF Kind[r] \in {"web", "files"} THEN BOOLEAN ELSE {FALSE} :
          blank' = IF tab THEN blank \cup {c.id} ELSE blank

-----------------------------------------------------------------------------
(* The access dialog.                                                      *)

closeAccessPrompt == prompt' = Closed

(* A request left over from the dialog before is kept.                     *)
MutOpenConnectPrompt(r, book) ==
  prompt' = [prompt EXCEPT !.res = r, !.mode = "connect",
                           !.det = IF book = None THEN prompt.det ELSE book]
openConnectPrompt(r, book) ==
  prompt' = [prompt EXCEPT !.res = r, !.mode = "connect", !.det = book]

(* What the server will ask, as far as the preview tells; seen: the tab    *)
(* believes that the containment mode is on.                               *)
accessNeeds(r, previewed, seen) ==
  [approval |-> r \in DualApproval \/ (previewed /\ r \in PolicyApproval),
   prompt |-> \/ r \in Local \/ seen
              \/ jitLicensed /\ (previewed => r \in Ask)]

Reuse(r) == {q \in RequestIds : requests[q].res = r /\ listed[q] = "approved"}
primaryAction(r) ==
  IF \E s \in shown : opened[s].res = r THEN "resume" ELSE "connect"

(* onConnectResource after its preview: rest are the other calls; appr and *)
(* book are the approved request and the playbook of the click's render.   *)
AfterNeeds(rest, r, needs, appr, book) ==
  LET asks == needs.approval /\ ~canManagePlatform
  IN \/ /\ asks /\ appr # 0 /\ ~needs.prompt
        /\ connectToResource(rest, r, requests[appr].det, None, appr, "approved")
        /\ UNCHANGED prompt
     \/ /\ asks /\ appr # 0 /\ needs.prompt
        /\ prompt' = [res |-> r, mode |-> "connect", det |-> requests[appr].det, ref |-> appr]
        /\ calls' = rest /\ UNCHANGED blank
     \/ /\ asks /\ appr = 0
        /\ prompt' = [prompt EXCEPT !.res = r, !.mode = "request", !.det = book]
        /\ calls' = rest /\ UNCHANGED blank
     \/ /\ ~asks /\ ~needs.prompt
        /\ connectToResource(rest, r, None, book, 0, "click")
        /\ UNCHANGED prompt
     \/ /\ ~asks /\ needs.prompt
        /\ openConnectPrompt(r, book)
        /\ calls' = rest /\ UNCHANGED blank

onConnectResource(r) ==
  /\ ~Modal /\ MayCall(calls)
  /\ \E appr \in IF Reuse(r) = {} THEN {0} ELSE Reuse(r) :
       \/ /\ jitLicensed
          /\ calls' = calls \cup {Call(calls, "needs", r, None, playbooks[r], appr, 0, "click")}
          /\ UNCHANGED <<prompt, blank>>
       \/ /\ ~jitLicensed
          /\ \E seen \in BOOLEAN :
               AfterNeeds(calls, r, accessNeeds(r, FALSE, seen), appr, playbooks[r])
  /\ UNCHANGED <<account, srv, listed, shown, playbooks, screens>>

(* From the map or the list of resources, where the resource offers it.    *)
ClickResource(r) == primaryAction(r) = "connect" /\ onConnectResource(r)

(* The requests page shows an approval as expired one hour after it.       *)
statusOf(q) ==
  IF listed[q] = "approved" /\ q \in lapsed THEN "expired" ELSE listed[q]
ConnectFromRequest(q) == statusOf(q) = "approved" /\ onConnectResource(requests[q].res)

NeedsAnswer(c) ==
  /\ c.k = "needs"
  /\ \E previewed, seen \in BOOLEAN :
       AfterNeeds(calls \ {c}, c.res, accessNeeds(c.res, previewed, seen), c.ref, c.book)
  /\ UNCHANGED <<account, srv, listed, shown, playbooks, screens>>

(* The user fills the fields, or empties them.                             *)
SetFields(d) ==
  /\ prompt.res # None /\ d # prompt.det
  /\ prompt' = [prompt EXCEPT !.det = d]
  /\ UNCHANGED <<account, srv, listed, shown, calls, playbooks, screens, blank>>
EnterDetails == \E d \in {prompt.res, None} : SetFields(d)
applyCurrentAccessPlaybook ==
  prompt.res # None /\ playbooks[prompt.res] # None /\ SetFields(playbooks[prompt.res])

Playbook(book) ==
  /\ playbooks' = [playbooks EXCEPT ![prompt.res] = book]
  /\ UNCHANGED <<account, srv, listed, shown, calls, prompt, screens, blank>>
saveCurrentAccessPlaybook == prompt.res # None /\ prompt.det # None /\ Playbook(prompt.det)
deleteCurrentAccessPlaybook == prompt.res # None /\ Playbook(None)

CloseDialog ==
  /\ prompt.res # None /\ closeAccessPrompt
  /\ UNCHANGED <<account, srv, listed, shown, calls, playbooks, screens, blank>>

(* Opening the dialog or changing a field asks for a risk preview 220 ms   *)
(* later, and any answer is kept, also one asked for another resource: the *)
(* dialog may hold no preview, its own, or that of a dialog before it.     *)
riskPreviews == IF jitLicensed THEN Details ELSE {None}

(* Whether the fields must be filled, as the dialog sees it.               *)
Required(seen, riskPreview) ==
  prompt.mode = "request" \/ prompt.res \in Local \/ seen \/ riskPreview \in Ask

(* Nothing stops a second submission while the first is not answered.      *)
onSubmitAccessPrompt ==
  /\ prompt.res # None /\ MayCall(calls)
  /\ \E seen \in BOOLEAN, riskPreview \in riskPreviews :
       Required(seen, riskPreview) => prompt.det # None
  /\ \/ /\ prompt.mode = "request"
        /\ calls' = calls \cup
             {Call(calls, "request", prompt.res, prompt.det, None, 0, 0, "dialog")}
        /\ UNCHANGED blank
     \/ /\ prompt.mode = "connect"
        /\ connectToResource(calls, prompt.res, prompt.det, None, prompt.ref, "dialog")
  /\ UNCHANGED <<account, srv, listed, shown, prompt, playbooks, screens>>

-----------------------------------------------------------------------------
(* POST /api/sessions.                                                     *)

NeedsApproval(r) ==
  ~canReview /\ (r \in DualApproval \/ (jitLicensed /\ r \in PolicyApproval))
MutApproved(ref, r) == ref # 0 /\ requests[ref].st = "approved" /\ ref \notin lapsed
Approved(ref, r) ==
  ref # 0 /\ requests[ref].st = "approved" /\ ref \notin lapsed /\ requests[ref].res = r
Missing(c, contained) == c.det = None /\ (c.res \in Ask \/ contained)
FreeSessions == {s \in SessionIds : opened[s].st = "none"}
NextSession == CHOOSE s \in FreeSessions : \A o \in FreeSessions : s <= o
Create(c) ==
  /\ FreeSessions # {}
  /\ NeedsApproval(c.res) => Approved(c.ref, c.res)
  /\ \E contained \in BOOLEAN : ~Missing(c, contained)
  /\ opened' = [opened EXCEPT ![NextSession] =
                   [res |-> c.res, det |-> c.det, ref |-> c.ref, st |-> "active"]]

(* An approval found too old when it is used is marked expired.            *)
ExpireUsed(c) ==
  requests' = [q \in RequestIds |->
                 IF q = c.ref /\ q \in lapsed /\ NeedsApproval(c.res)
                    /\ requests[q].st = "approved"
                 THEN [requests[q] EXCEPT !.st = "expired"] ELSE requests[q]]

(* What the new session opens in.                                          *)
Navigate(c) == blank' = blank \ {c.id}
Open(c, s) ==
  /\ viewer' = CASE Kind[c.res] = "web" ->
                      [vnc |-> 0, web |-> IF c.id \in blank THEN viewer.web ELSE s]
                 [] Kind[c.res] = "vnc" -> [viewer EXCEPT !.vnc = s]
                 [] OTHER -> viewer
  /\ calls' = (calls \ {c}) \cup
       IF Kind[c.res] = "agent"
       THEN {Call(calls \ {c}, "mint", c.res, None, None, 0, s, c.from)} ELSE {}

(* With an agent resource connectToResource is not over yet: the dialog    *)
(* stays until the token of the deep link is minted.                       *)
CreateOk(c) ==
  /\ c.k = "create" /\ Create(c)
  /\ shown' = shown \cup {NextSession}
  /\ Open(c, NextSession)
  /\ Navigate(c)
  /\ IF c.from = "dialog" /\ Kind[c.res] # "agent"
       THEN closeAccessPrompt ELSE UNCHANGED prompt
  /\ UNCHANGED <<account, requests, lapsed, listed, playbooks, agent, watched>>

MutFailed(c) == calls' = calls \ {c} /\ UNCHANGED blank
Failed(c) == calls' = calls \ {c} /\ blank' = blank \ {c.id}

(* Refused for details that were not foreseen: the dialog asks for them.   *)
CreateMissing(c) ==
  /\ c.k = "create"
  /\ \/ Missing(c, FALSE)
     \/ Missing(c, TRUE) /\ (NeedsApproval(c.res) => Approved(c.ref, c.res))
  /\ Failed(c)
  /\ IF c.from = "click" THEN openConnectPrompt(c.res, c.book) ELSE UNCHANGED prompt
  /\ UNCHANGED <<account, srv, listed, shown, playbooks, screens>>

(* Refused (approval, ticket, MFA, window), or no answer; the session may  *)
(* exist when only the answer is lost.                                     *)
CreateFails(c) ==
  /\ c.k = "create" /\ Failed(c)
  /\ \/ ExpireUsed(c) /\ UNCHANGED opened
     \/ Create(c) /\ UNCHANGED requests
  /\ UNCHANGED <<account, lapsed, listed, shown, prompt, playbooks, screens>>

-----------------------------------------------------------------------------
(* Access requests.                                                        *)

FreeRequests == {q \in RequestIds : requests[q].st = "none"}

createAccessRequest(c) ==
  /\ c.k = "request" /\ calls' = calls \ {c}
  /\ \/ /\ jitLicensed /\ FreeRequests # {}
        /\ LET q == CHOOSE q \in FreeRequests : \A o \in FreeRequests : q <= o
           IN /\ requests' = [requests EXCEPT ![q] =
                                [res |-> c.res, det |-> c.det, st |-> "pending"]]
              /\ listed' = [listed EXCEPT ![q] = "pending"]
        /\ closeAccessPrompt
     \/ UNCHANGED <<requests, listed, prompt>>
  /\ UNCHANGED <<account, lapsed, opened, shown, playbooks, screens, blank>>

reloadAccessRequests ==
  /\ jitLicensed /\ listed # [q \in RequestIds |-> requests[q].st]
  /\ listed' = [q \in RequestIds |-> requests[q].st]
  /\ UNCHANGED <<account, srv, shown, calls, prompt, playbooks, screens, blank>>

(* A reviewer, in another tab, decides a request that is pending.          *)
Review(q, st) ==
  /\ requests[q].st = "pending" /\ requests' = [requests EXCEPT ![q].st = st]
  /\ UNCHANGED <<account, lapsed, opened, listed, shown, calls, prompt, playbooks,
                 screens, blank>>

Lapse(q) ==
  /\ requests[q].st = "approved" /\ q \notin lapsed /\ lapsed' = lapsed \cup {q}
  /\ UNCHANGED <<account, requests, opened, listed, shown, calls, prompt, playbooks,
                 screens, blank>>

-----------------------------------------------------------------------------
(* The native agent and the viewers.                                       *)

clearAgentLaunchWatcher == watched' = FALSE
MutLaunch(m) ==
  agent' = [m EXCEPT !.st = "opening"] /\ watched' = (watched \/ agent = NoAgent)
launchAgentDeepLink(m) == agent' = [m EXCEPT !.st = "opening"] /\ watched' = TRUE

resumeSession(s) ==
  /\ s \in shown /\ Kind[opened[s].res] = "agent" /\ ~Modal /\ MayCall(calls)
  /\ calls' = calls \cup {Call(calls, "mint", opened[s].res, None, None, 0, s, "click")}
  /\ UNCHANGED <<account, srv, listed, shown, prompt, playbooks, screens, blank>>

(* The token of the deep link is refused once the session has ended.       *)
MintAnswer(c) ==
  /\ c.k = "mint" /\ calls' = calls \ {c}
  /\ \/ /\ opened[c.ses].st = "active"
        /\ launchAgentDeepLink([ses |-> c.ses, link |-> c.ses, st |-> "opening"])
        /\ IF c.from = "dialog" THEN closeAccessPrompt ELSE UNCHANGED prompt
     \/ UNCHANGED <<agent, watched, prompt>>
  /\ UNCHANGED <<account, srv, listed, shown, playbooks, viewer, blank>>

LaunchAgain ==
  /\ agent # NoAgent /\ agent.st # "opening"
  /\ launchAgentDeepLink(agent)
  /\ UNCHANGED <<account, srv, listed, shown, calls, prompt, playbooks, viewer, blank>>

(* The page is hidden by the agent's window, or the 1600 ms are over.      *)
LaunchEnds(st) ==
  /\ watched /\ clearAgentLaunchWatcher
  /\ agent' = IF agent = NoAgent THEN agent ELSE [agent EXCEPT !.st = st]
  /\ UNCHANGED <<account, srv, listed, shown, calls, prompt, playbooks, viewer, blank>>
LaunchTimer == LaunchEnds("fallback")
PageHidden == LaunchEnds("opened")

onNewPort ==
  /\ agent # NoAgent /\ MayCall(calls)
  /\ calls' = calls \cup {Call(calls, "port", opened[agent.ses].res, None, None, 0, agent.ses,
                               "click")}
  /\ UNCHANGED <<account, srv, listed, shown, prompt, playbooks, screens, blank>>

(* The new link is merged into the dialog that is open by then.            *)
PortAnswer(c) ==
  /\ c.k = "port" /\ calls' = calls \ {c}
  /\ agent' \in {agent} \cup
       IF agent = NoAgent \/ opened[c.ses].st # "active" THEN {}
       ELSE {[agent EXCEPT !.link = c.ses, !.st = "idle"]}
  /\ UNCHANGED <<account, srv, listed, shown, prompt, playbooks, watched, viewer, blank>>

CloseAgent ==
  /\ agent # NoAgent /\ agent' = NoAgent /\ clearAgentLaunchWatcher
  /\ UNCHANGED <<account, srv, listed, shown, calls, prompt, playbooks, viewer, blank>>

(* Closing the isolated browser ends its session; the call may fail, and   *)
(* the list says terminated either way.  Closing VNC only hides it.        *)
CloseViewer ==
  /\ viewer # NoViewer /\ viewer' = NoViewer
  /\ shown' = shown \ {viewer.web}
  /\ opened' \in {opened} \cup
       IF viewer.web = 0 THEN {} ELSE {[opened EXCEPT ![viewer.web].st = "ended"]}
  /\ UNCHANGED <<account, requests, lapsed, listed, calls, prompt, playbooks,
                 agent, watched, blank>>

(* The session is ended elsewhere: the tab is not told.                    *)
EndElsewhere(s) ==
  /\ opened[s].st = "active" /\ opened' = [opened EXCEPT ![s].st = "ended"]
  /\ UNCHANGED <<account, requests, lapsed, listed, shown, calls, prompt, playbooks,
                 screens, blank>>

-----------------------------------------------------------------------------
User ==
  \/ \E r \in Resources : ClickResource(r)
  \/ \E q \in RequestIds : ConnectFromRequest(q)
  \/ EnterDetails \/ applyCurrentAccessPlaybook
  \/ saveCurrentAccessPlaybook \/ deleteCurrentAccessPlaybook
  \/ CloseDialog \/ onSubmitAccessPrompt
  \/ reloadAccessRequests
  \/ \E s \in SessionIds : resumeSession(s)
  \/ LaunchAgain \/ onNewPort \/ CloseAgent \/ CloseViewer

Answers ==
  \/ \E c \in calls : \/ NeedsAnswer(c) \/ CreateOk(c) \/ CreateMissing(c) \/ CreateFails(c)
                      \/ createAccessRequest(c) \/ MintAnswer(c) \/ PortAnswer(c)

Others ==
  \/ \E q \in RequestIds : (\E st \in {"approved", "denied"} : Review(q, st)) \/ Lapse(q)
  \/ \E s \in SessionIds : EndElsewhere(s)

Next == User \/ Answers \/ Others \/ LaunchTimer \/ PageHidden

(* The browser runs the 1600 ms timer of a launch.                         *)
FairSpec == Init /\ [][Next]_vars /\ WF_vars(LaunchTimer)

-----------------------------------------------------------------------------
(* The reason, ticket and purpose recorded with a session, and those of an *)
(* access request, are the ones entered or saved for that very resource:   *)
(* never those of a dialog it replaced, whatever the order of the answers. *)
DetailsForResource ==
  /\ \A s \in SessionIds : opened[s].det \in {opened[s].res, None}
  /\ \A q \in RequestIds : requests[q].det = requests[q].res
  /\ \A r \in Resources : playbooks[r] \in {r, None}

(* A session on a resource that asks for an approval starts only under a   *)
(* request for that resource that is approved at that moment, although the *)
(* tab may send a stale request, or one left over from another dialog.     *)
ApprovedAccess ==
  [][\A s \in SessionIds :
       opened[s].st = "none" /\ opened'[s].st = "active" /\ NeedsApproval(opened'[s].res)
       => LET q == opened'[s].ref
          IN /\ q # 0 /\ q \notin lapsed
             /\ requests[q].st = "approved" /\ requests[q].res = opened'[s].res]_vars

(* A tab opened as about:blank in a click never outlives the call that is  *)
(* to navigate it, even when that call fails or a second one overlaps it.  *)
NoBlankTab == \A i \in blank : \E c \in calls : c.id = i /\ c.k = "create"

(* The launch of the native agent is always decided: the agent opened, or  *)
(* the dialog offers to install it, or the user closed it, even when the   *)
(* launch is repeated or its link renewed meanwhile.                       *)
LaunchSettles == agent.st = "opening" ~> agent.st # "opening"
=============================================================================
