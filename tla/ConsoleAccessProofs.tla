------------------------ MODULE ConsoleAccessProofs ------------------------
(***************************************************************************)
(* Proofs about ConsoleAccess, for any resources, accounts and number of   *)
(* calls, sessions and requests: the details of an access are those of its *)
(* resource, a session that asks for an approval starts under one, and a   *)
(* blank tab has a call that will navigate it.                             *)
(***************************************************************************)
EXTENDS ConsoleAccess, WellFoundedInduction, TLAPS

-----------------------------------------------------------------------------
(* Blank tabs.                                                             *)

(* The call that is to navigate a tab is in the set of calls cs.           *)
Awaited(i, cs) == \E c \in cs : c.id = i /\ c.k = "create"

(* A tab waits as long as its call stays.                                  *)
LEMMA AwaitedStays ==
  ASSUME NEW cs, NEW next, NEW i, Awaited(i, cs), NEW c,
         c.k # "create" \/ c.id # i, cs \ {c} \subseteq next
  PROVE  Awaited(i, next)
BY DEF Awaited

(* connectToResource opens a tab together with its call.                   *)
LEMMA ConnectAwaited ==
  ASSUME NEW rest, NEW r, NEW det, NEW book, NEW ref, NEW from,
         connectToResource(rest, r, det, book, ref, from),
         \A i \in blank : Awaited(i, rest)
  PROVE  NoBlankTab'
<1> DEFINE c == Call(rest, "create", r, det, book, ref, 0, from)
<1>1. calls' = rest \cup {c} /\ (blank' = blank \cup {c.id} \/ blank' = blank)
  BY Zenon DEF connectToResource
<1>2. c.k = "create"
  BY DEF Call
<1> HIDE DEF c
<1> QED BY <1>1, <1>2 DEF NoBlankTab, Awaited

(* After the preview: a tab of the call that goes on, or none.             *)
LEMMA AfterNeedsAwaited ==
  ASSUME NEW rest, NEW r, NEW needs, NEW appr, NEW book,
         AfterNeeds(rest, r, needs, appr, book), \A i \in blank : Awaited(i, rest)
  PROVE  NoBlankTab'
<1>1. \/ \E det, bk, ref, from : connectToResource(rest, r, det, bk, ref, from)
      \/ calls' = rest /\ blank' = blank
  BY Zenon DEF AfterNeeds
<1>2. CASE calls' = rest /\ blank' = blank
  BY <1>2 DEF NoBlankTab, Awaited
<1> QED BY <1>1, <1>2, ConnectAwaited

(* Every step leaves a call for every blank tab.                           *)
LEMMA NextBlank == NoBlankTab /\ [Next]_vars => NoBlankTab'
<1> SUFFICES ASSUME NoBlankTab, [Next]_vars PROVE NoBlankTab'
  OBVIOUS
<1>a. \A i \in blank : Awaited(i, calls)
  BY DEF NoBlankTab, Awaited
<1>s. ASSUME calls \subseteq calls', blank' \subseteq blank PROVE NoBlankTab'
  BY <1>a, <1>s DEF NoBlankTab, Awaited
<1>r. ASSUME NEW c \in calls, c.k # "create", calls \ {c} \subseteq calls', blank' = blank
      PROVE  NoBlankTab'
  BY <1>r, <1>a DEF NoBlankTab, Awaited
<1>f. ASSUME NEW c \in calls, calls \ {c} \subseteq calls', blank' = blank \ {c.id}
      PROVE  NoBlankTab'
  BY <1>f, <1>a DEF NoBlankTab, Awaited
<1>1. ASSUME NEW r, onConnectResource(r) PROVE NoBlankTab'
  <2>1. \/ calls \subseteq calls' /\ blank' = blank
        \/ \E needs, appr, book : AfterNeeds(calls, r, needs, appr, book)
    BY <1>1 DEF onConnectResource
  <2> QED BY <2>1, <1>a, <1>s, AfterNeedsAwaited
<1>2. ASSUME NEW c \in calls, NeedsAnswer(c) PROVE NoBlankTab'
  <2>1. c.k = "needs"
        /\ \E needs : AfterNeeds(calls \ {c}, c.res, needs, c.ref, c.book)
    BY <1>2 DEF NeedsAnswer
  <2>2. \A i \in blank : Awaited(i, calls \ {c})
    BY <2>1, <1>a DEF Awaited
  <2> QED BY <2>1, <2>2, AfterNeedsAwaited
<1>3. CASE onSubmitAccessPrompt
  <2>1. \/ calls \subseteq calls' /\ blank' = blank
        \/ connectToResource(calls, prompt.res, prompt.det, None, prompt.ref, "dialog")
    BY <1>3 DEF onSubmitAccessPrompt
  <2> QED BY <2>1, <1>a, <1>s, ConnectAwaited
<1>4. ASSUME NEW c \in calls, CreateOk(c) \/ CreateMissing(c) \/ CreateFails(c)
      PROVE  NoBlankTab'
  <2>1. blank' = blank \ {c.id} /\ calls \ {c} \subseteq calls'
    BY <1>4 DEF CreateOk, CreateMissing, CreateFails, Navigate, Open, Failed
  <2> QED BY <2>1, <1>f
<1>5. ASSUME NEW c \in calls, createAccessRequest(c) \/ MintAnswer(c) \/ PortAnswer(c)
      PROVE  NoBlankTab'
  <2>1. c.k # "create" /\ blank' = blank /\ calls \ {c} \subseteq calls'
    BY <1>5 DEF createAccessRequest, MintAnswer, PortAnswer
  <2> QED BY <2>1, <1>r
<1>6. CASE EnterDetails \/ applyCurrentAccessPlaybook \/ saveCurrentAccessPlaybook
           \/ deleteCurrentAccessPlaybook \/ CloseDialog \/ reloadAccessRequests
  <2>1. calls' = calls /\ blank' = blank
    BY <1>6, Zenon DEF EnterDetails, SetFields, applyCurrentAccessPlaybook, Playbook,
      saveCurrentAccessPlaybook, deleteCurrentAccessPlaybook, CloseDialog,
      reloadAccessRequests
  <2> QED BY <2>1, <1>s
<1>7. CASE onNewPort \/ \E s \in SessionIds : resumeSession(s)
  <2>1. calls \subseteq calls' /\ blank' = blank
    BY <1>7 DEF onNewPort, resumeSession
  <2> QED BY <2>1, <1>s
<1>8. CASE LaunchAgain \/ CloseAgent \/ CloseViewer \/ Others \/ LaunchTimer \/ PageHidden
           \/ UNCHANGED vars
  <2>1. calls' = calls /\ blank' = blank
    BY <1>8, Zenon DEF LaunchAgain, CloseAgent, CloseViewer, Others, Review, Lapse,
      EndElsewhere, LaunchTimer, PageHidden, LaunchEnds, vars
  <2> QED BY <2>1, <1>s
<1>9. CASE User
  BY <1>1, <1>3, <1>6, <1>7, <1>8, <1>9, Zenon
     DEF User, ClickResource, ConnectFromRequest
<1>10. CASE Answers
  BY <1>2, <1>4, <1>5, <1>10, Zenon DEF Answers
<1> QED BY <1>8, <1>9, <1>10, Zenon DEF Next

(* A tab opened as about:blank in a click never outlives the call that is  *)
(* to navigate it, for any number of calls that overlap and fail.          *)
THEOREM NoBlankTabAlways == FairSpec => []NoBlankTab
<1>1. Init => NoBlankTab
  BY DEF Init, NoBlankTab
<1> QED BY <1>1, NextBlank, PTL DEF FairSpec

-----------------------------------------------------------------------------
(* Details and approvals: the inductive invariant.                         *)

States == {"none", "pending", "approved", "denied", "expired"}

(* A request holds the details entered for its own resource.               *)
RequestsRight ==
  /\ requests \in [RequestIds -> [res : Details, det : Details, st : States]]
  /\ \A q \in RequestIds :
       /\ requests[q].det = requests[q].res
       /\ requests[q].st # "none" => requests[q].res \in Resources
       /\ requests[q].st = "none" => requests[q].res = None

(* The tab knows no request that was not filed.                            *)
ListedRight ==
  /\ listed \in [RequestIds -> States]
  /\ \A q \in RequestIds : requests[q].st = "none" => listed[q] = "none"

OpenedRight ==
  /\ opened \in [SessionIds -> [res : Details, det : Details, ref : Nat,
                                st : {"none", "active", "ended"}]]
  /\ \A s \in SessionIds : opened[s].det \in {opened[s].res, None}

PromptRight ==
  /\ prompt \in [res : Details, mode : {"connect", "request"}, det : Details, ref : Nat]
  /\ prompt.det \in {prompt.res, None}

BooksRight ==
  /\ playbooks \in [Resources -> Details]
  /\ \A r \in Resources : playbooks[r] \in {r, None}

(* q is no request, or one that was filed for r.                           *)
FiledFor(q, r) ==
  q = 0 \/ (q \in RequestIds /\ requests[q].st # "none" /\ requests[q].res = r)

(* What a call captured belongs to its resource.  The request of a "needs" *)
(* call is one of the resource; that of a "create" call may not be.        *)
Fits(c) ==
  /\ c.k = "needs" =>
       c.res \in Resources /\ c.book \in {c.res, None} /\ FiledFor(c.ref, c.res)
  /\ c.k = "create" =>
       c.res \in Resources /\ c.det \in {c.res, None} /\ c.book \in {c.res, None} /\ c.ref \in Nat
  /\ c.k = "request" => c.res \in Resources /\ c.det = c.res

Access ==
  /\ RequestsRight /\ ListedRight /\ OpenedRight /\ PromptRight /\ BooksRight
  /\ \A c \in calls : Fits(c)

(* Before the first click the invariant holds.                             *)
LEMMA InitAccess == Init => Access
<1> SUFFICES ASSUME Init PROVE Access
  OBVIOUS
<1>1. RequestsRight /\ ListedRight
  BY DEF Init, RequestsRight, ListedRight, NoRequest, Details, States
<1>2. OpenedRight
  BY DEF Init, OpenedRight, NoSession, Details
<1>3. PromptRight
  BY DEF Init, PromptRight, Closed, Details
<1>4. BooksRight /\ \A c \in calls : Fits(c)
  BY DEF Init, BooksRight, Details
<1> QED BY <1>1, <1>2, <1>3, <1>4 DEF Access

(* The natural numbers with <, a well-founded relation.                    *)
LessNat == {ss \in Nat \X Nat : ss[1] < ss[2]}

(* A nonempty set of ids has a least element.                              *)
LEMMA Least ==
  ASSUME NEW S \in SUBSET Nat, S # {}
  PROVE  \E x \in S : \A y \in S : x <= y
<1>1. IsWellFoundedOn(LessNat, Nat)
  BY NatLessThanWellFounded DEF OpToRel, LessNat
<1>2. PICK x \in S : \A y \in S : <<y, x>> \notin LessNat
  BY <1>1, WFMin
<1>3. ASSUME NEW y \in S PROVE x <= y
  <2>1. x \in Nat /\ y \in Nat
    OBVIOUS
  <2>2. y < x => <<y, x>> \in LessNat
    BY <2>1 DEF LessNat
  <2> QED BY <1>2, <2>1, <2>2
<1> QED BY <1>3

-----------------------------------------------------------------------------
(* Requests.                                                               *)

(* A request keeps its resource once it is filed.                          *)
Kept ==
  \A q \in RequestIds :
    requests[q].st # "none" =>
      requests'[q].st # "none" /\ requests'[q].res = requests[q].res

(* A new request takes a free place.                                       *)
LEMMA FiledRequest ==
  ASSUME Access, NEW c \in calls, createAccessRequest(c)
  PROVE  RequestsRight' /\ Kept /\ ListedRight'
<1>t. RequestsRight /\ ListedRight
  BY DEF Access
<1>f. c.res \in Resources /\ c.det = c.res
  BY DEF Access, Fits, createAccessRequest
<1>1. CASE UNCHANGED <<requests, listed>>
  BY <1>1, <1>t DEF RequestsRight, ListedRight, Kept
<1>2. CASE ~UNCHANGED <<requests, listed>>
  <2> DEFINE q == CHOOSE x \in FreeRequests : \A o \in FreeRequests : x <= o
             new == [res |-> c.res, det |-> c.det, st |-> "pending"]
  <2>1. /\ FreeRequests # {} /\ requests' = [requests EXCEPT ![q] = new]
        /\ listed' = [listed EXCEPT ![q] = "pending"]
    BY <1>2, Zenon DEF createAccessRequest
  <2>2. FreeRequests \subseteq Nat
    BY AccessAssumption DEF FreeRequests, RequestIds
  <2>3. q \in FreeRequests
    BY <2>1, <2>2, Least
  <2> HIDE DEF q
  <2>4. q \in RequestIds /\ requests[q].st = "none"
    BY <2>3 DEF FreeRequests
  <2>5. new \in [res : Details, det : Details, st : States]
        /\ new.res = c.res /\ new.det = c.res /\ new.st = "pending"
    BY <1>f DEF Details, States
  <2> HIDE DEF new
  <2>6. \A o \in RequestIds : requests'[o] = IF o = q THEN new ELSE requests[o]
    BY <1>t, <2>1, <2>4 DEF RequestsRight
  <2>7. \A o \in RequestIds : listed'[o] = IF o = q THEN "pending" ELSE listed[o]
    BY <1>t, <2>1, <2>4 DEF ListedRight
  <2>8. requests' \in [RequestIds -> [res : Details, det : Details, st : States]]
    BY <1>t, <2>1, <2>4, <2>5 DEF RequestsRight
  <2>9. listed' \in [RequestIds -> States]
    BY <1>t, <2>1, <2>4 DEF ListedRight, States
  <2>10. RequestsRight'
    BY <1>t, <1>f, <2>5, <2>6, <2>8 DEF RequestsRight
  <2>11. ListedRight'
    BY <1>t, <2>5, <2>6, <2>7, <2>9 DEF ListedRight
  <2>12. Kept
    BY <2>4, <2>6 DEF Kept
  <2> QED BY <2>10, <2>11, <2>12
<1> QED BY <1>1, <1>2

(* A reviewer, or the server that finds an approval too old, only changes  *)
(* the state of filed requests.                                            *)
LEMMA ReviewedRequest ==
  ASSUME Access, listed' = listed,
         requests' \in [RequestIds -> [res : Details, det : Details, st : States]],
         \A q \in RequestIds :
           /\ requests'[q].res = requests[q].res /\ requests'[q].det = requests[q].det
           /\ requests'[q].st = "none" <=> requests[q].st = "none"
  PROVE  RequestsRight' /\ Kept /\ ListedRight'
BY DEF Access, RequestsRight, Kept, ListedRight

(* What each step does to the requests.                                    *)
LEMMA NextRequests ==
  ASSUME Access, [Next]_vars
  PROVE  RequestsRight' /\ Kept /\ ListedRight'
<1>t. RequestsRight /\ ListedRight
  BY DEF Access
<1>s. ASSUME UNCHANGED <<requests, listed>> PROVE RequestsRight' /\ Kept /\ ListedRight'
  BY <1>s, <1>t DEF RequestsRight, Kept, ListedRight
<1>1. ASSUME NEW c \in calls, createAccessRequest(c)
      PROVE  RequestsRight' /\ Kept /\ ListedRight'
  BY <1>1, FiledRequest
<1>2. ASSUME NEW c \in calls, CreateFails(c)
      PROVE  RequestsRight' /\ Kept /\ ListedRight'
  <2>1. listed' = listed /\ (ExpireUsed(c) \/ requests' = requests)
    BY <1>2, Zenon DEF CreateFails
  <2>2. CASE ExpireUsed(c)
    <3>1. \A q \in RequestIds :
            \/ requests'[q] = requests[q]
            \/ requests[q].st = "approved" /\ requests'[q] = [requests[q] EXCEPT !.st = "expired"]
      BY <2>2 DEF ExpireUsed
    <3>2. ASSUME NEW q \in RequestIds
          PROVE  /\ requests'[q] \in [res : Details, det : Details, st : States]
                 /\ requests'[q].res = requests[q].res /\ requests'[q].det = requests[q].det
                 /\ requests'[q].st = "none" <=> requests[q].st = "none"
      <4> DEFINE v == requests[q]
      <4>1. v \in [res : Details, det : Details, st : States]
        BY <1>t DEF RequestsRight
      <4> HIDE DEF v
      <4>2. requests'[q] = v \/ (v.st = "approved" /\ requests'[q] = [v EXCEPT !.st = "expired"])
        BY <3>1 DEF v
      <4>3. /\ requests'[q] \in [res : Details, det : Details, st : States]
            /\ requests'[q].res = v.res /\ requests'[q].det = v.det
            /\ requests'[q].st = "none" <=> v.st = "none"
        BY <4>1, <4>2 DEF States
      <4> QED BY <4>3 DEF v
    <3>3. requests' = [q \in RequestIds |-> requests'[q]]
      BY <2>2 DEF ExpireUsed
    <3>4. requests' \in [RequestIds -> [res : Details, det : Details, st : States]]
      BY <3>2, <3>3
    <3> QED BY <2>1, <3>2, <3>4, ReviewedRequest
  <2> QED BY <2>1, <2>2, <1>s
<1>3. ASSUME NEW q \in RequestIds, NEW st \in {"approved", "denied"}, Review(q, st)
      PROVE  RequestsRight' /\ Kept /\ ListedRight'
  <2>1. /\ requests[q].st = "pending" /\ requests' = [requests EXCEPT ![q].st = st]
        /\ listed' = listed
    BY <1>3 DEF Review
  <2>2. requests' \in [RequestIds -> [res : Details, det : Details, st : States]]
    BY <1>t, <2>1 DEF RequestsRight, States
  <2>3. \A o \in RequestIds :
           /\ requests'[o].res = requests[o].res /\ requests'[o].det = requests[o].det
           /\ requests'[o].st = "none" <=> requests[o].st = "none"
    BY <1>t, <2>1 DEF RequestsRight
  <2> QED BY <2>1, <2>2, <2>3, ReviewedRequest
<1>4. CASE reloadAccessRequests
  <2>1. requests' = requests /\ listed' = [q \in RequestIds |-> requests[q].st]
    BY <1>4 DEF reloadAccessRequests, srv
  <2> QED BY <2>1, <1>t DEF RequestsRight, Kept, ListedRight
<1>5. CASE \/ \E r : onConnectResource(r)
           \/ EnterDetails \/ applyCurrentAccessPlaybook
           \/ saveCurrentAccessPlaybook \/ deleteCurrentAccessPlaybook
           \/ CloseDialog \/ onSubmitAccessPrompt
           \/ \E s \in SessionIds : resumeSession(s) \/ EndElsewhere(s)
           \/ LaunchAgain \/ onNewPort \/ CloseAgent \/ CloseViewer
  <2>1. UNCHANGED <<requests, listed>>
    BY <1>5, Zenon DEF onConnectResource, EnterDetails, applyCurrentAccessPlaybook, SetFields,
      saveCurrentAccessPlaybook, deleteCurrentAccessPlaybook, Playbook, CloseDialog,
      onSubmitAccessPrompt, resumeSession, EndElsewhere, LaunchAgain, onNewPort, CloseAgent,
      CloseViewer, srv
  <2> QED BY <2>1, <1>s
<1>6. CASE \/ \E c \in calls : NeedsAnswer(c) \/ CreateOk(c) \/ CreateMissing(c)
                               \/ MintAnswer(c) \/ PortAnswer(c)
           \/ \E q \in RequestIds : Lapse(q)
           \/ LaunchTimer \/ PageHidden \/ UNCHANGED vars
  <2>1. UNCHANGED <<requests, listed>>
    BY <1>6, Zenon DEF NeedsAnswer, CreateOk, CreateMissing, MintAnswer, PortAnswer, Lapse,
      LaunchTimer, PageHidden, LaunchEnds, srv, vars
  <2> QED BY <2>1, <1>s
<1>7. CASE User
  BY <1>4, <1>5, <1>7, Zenon DEF User, ClickResource, ConnectFromRequest
<1>8. CASE Answers
  BY <1>1, <1>2, <1>6, <1>8, Zenon DEF Answers
<1>9. CASE Others
  BY <1>3, <1>5, <1>6, <1>9, Zenon DEF Others
<1> QED BY <1>6, <1>7, <1>8, <1>9, Zenon DEF Next

-----------------------------------------------------------------------------
(* Sessions.                                                               *)

(* A new session takes the details of its call.                            *)
LEMMA CreatedSession ==
  ASSUME Access, NEW c \in calls, c.k = "create", Create(c)
  PROVE  OpenedRight'
<1> DEFINE new == [res |-> c.res, det |-> c.det, ref |-> c.ref, st |-> "active"]
<1>1. OpenedRight /\ c.res \in Resources /\ c.det \in {c.res, None} /\ c.ref \in Nat
  BY DEF Access, Fits
<1>2. opened' = [opened EXCEPT ![NextSession] = new]
  BY DEF Create
<1>3. new \in [res : Details, det : Details, ref : Nat, st : {"none", "active", "ended"}]
      /\ new.det \in {new.res, None}
  BY <1>1 DEF Details
<1> HIDE DEF new
<1> QED BY <1>1, <1>2, <1>3 DEF OpenedRight

(* A session that ends keeps its details.                                  *)
LEMMA EndedSession ==
  ASSUME OpenedRight, NEW x, opened' = [opened EXCEPT ![x].st = "ended"]
  PROVE  OpenedRight'
BY DEF OpenedRight

(* What a step may do to the sessions: open one, or end one.               *)
SessionStep ==
  \/ opened' = opened
  \/ \E c \in calls : c.k = "create" /\ Create(c)
  \/ \E x : opened' = [opened EXCEPT ![x].st = "ended"]

(* Each step opens at most one session, by the rules of Create.            *)
LEMMA NextSessions ==
  ASSUME [Next]_vars
  PROVE  SessionStep
<1>s. ASSUME opened' = opened PROVE SessionStep
  BY <1>s DEF SessionStep
<1>1. ASSUME NEW c \in calls, CreateOk(c) \/ CreateFails(c) PROVE SessionStep
  <2>1. c.k = "create" /\ (Create(c) \/ opened' = opened)
    BY <1>1, Zenon DEF CreateOk, CreateFails
  <2> QED BY <2>1, Zenon DEF SessionStep
<1>2. CASE CloseViewer
  BY <1>2 DEF CloseViewer, SessionStep
<1>3. ASSUME NEW s \in SessionIds, EndElsewhere(s) PROVE SessionStep
  BY <1>3, Zenon DEF EndElsewhere, SessionStep
<1>5. CASE \/ \E r : onConnectResource(r)
           \/ EnterDetails \/ applyCurrentAccessPlaybook \/ reloadAccessRequests
           \/ saveCurrentAccessPlaybook \/ deleteCurrentAccessPlaybook
           \/ CloseDialog \/ onSubmitAccessPrompt
           \/ \E s \in SessionIds : resumeSession(s)
           \/ LaunchAgain \/ onNewPort \/ CloseAgent
  <2>1. opened' = opened
    BY <1>5, Zenon DEF onConnectResource, EnterDetails, applyCurrentAccessPlaybook, SetFields,
      saveCurrentAccessPlaybook, deleteCurrentAccessPlaybook, Playbook, CloseDialog,
      reloadAccessRequests, onSubmitAccessPrompt, resumeSession, LaunchAgain, onNewPort,
      CloseAgent, srv
  <2> QED BY <2>1, <1>s
<1>6. CASE \/ \E c \in calls : NeedsAnswer(c) \/ CreateMissing(c) \/ createAccessRequest(c)
                               \/ MintAnswer(c) \/ PortAnswer(c)
           \/ \E q \in RequestIds : (\E st \in {"approved", "denied"} : Review(q, st)) \/ Lapse(q)
           \/ LaunchTimer \/ PageHidden \/ UNCHANGED vars
  <2>1. opened' = opened
    BY <1>6, Zenon DEF NeedsAnswer, CreateMissing, createAccessRequest, MintAnswer, PortAnswer,
      Review, Lapse, LaunchTimer, PageHidden, LaunchEnds, srv, vars
  <2> QED BY <2>1, <1>s
<1>7. CASE User
  BY <1>2, <1>5, <1>7, Zenon DEF User, ClickResource, ConnectFromRequest
<1>8. CASE Answers
  BY <1>1, <1>6, <1>8, Zenon DEF Answers
<1>9. CASE Others
  BY <1>3, <1>6, <1>9, Zenon DEF Others
<1> QED BY <1>6, <1>7, <1>8, <1>9, Zenon DEF Next

(* Sessions keep or get the details of their resource.                     *)
LEMMA NextOpened ==
  ASSUME Access, [Next]_vars
  PROVE  OpenedRight'
<1>1. OpenedRight /\ SessionStep
  BY NextSessions DEF Access
<1>2. CASE opened' = opened
  BY <1>1, <1>2 DEF OpenedRight
<1> QED BY <1>1, <1>2, CreatedSession, EndedSession, Zenon DEF SessionStep

-----------------------------------------------------------------------------
(* Dialog, playbooks and calls.                                            *)

(* A dialog for r with details of r.                                       *)
LEMMA PromptFor ==
  ASSUME PromptRight, NEW r \in Resources, NEW mode \in {"connect", "request"},
         NEW d \in {r, None},
         \/ prompt' = [prompt EXCEPT !.res = r, !.mode = mode, !.det = d]
         \/ \E ref \in Nat : prompt' = [res |-> r, mode |-> mode, det |-> d, ref |-> ref]
  PROVE  PromptRight'
<1>1. r \in Details /\ d \in Details
  BY DEF Details
<1>2. CASE prompt' = [prompt EXCEPT !.res = r, !.mode = mode, !.det = d]
  <2>1. prompt' \in [res : Details, mode : {"connect", "request"}, det : Details, ref : Nat]
    BY <1>1, <1>2 DEF PromptRight
  <2>2. prompt'.res = r /\ prompt'.det = d
    BY <1>2 DEF PromptRight
  <2> QED BY <2>1, <2>2 DEF PromptRight
<1>3. ASSUME NEW ref \in Nat, prompt' = [res |-> r, mode |-> mode, det |-> d, ref |-> ref]
      PROVE  PromptRight'
  BY <1>1, <1>3 DEF PromptRight
<1> QED BY <1>2, <1>3

(* connectToResource captures the details it was given.                    *)
LEMMA ConnectFits ==
  ASSUME NEW rest, NEW r \in Resources, NEW det \in {r, None}, NEW book \in {r, None},
         NEW ref \in Nat, NEW from, connectToResource(rest, r, det, book, ref, from)
  PROVE  \A c \in calls' : c \in rest \/ Fits(c)
<1> DEFINE c == Call(rest, "create", r, det, book, ref, 0, from)
<1>1. calls' = rest \cup {c}
  BY Zenon DEF connectToResource
<1>2. c.k = "create" /\ c.res = r /\ c.det = det /\ c.book = book /\ c.ref = ref
  BY DEF Call
<1> HIDE DEF c
<1> QED BY <1>1, <1>2 DEF Fits

(* After the preview: the request, the details and the playbook that go on *)
(* are of the resource that was clicked.                                   *)
LEMMA AfterNeedsFits ==
  ASSUME Access, NEW rest, NEW r \in Resources, NEW needs, NEW appr, NEW book \in {r, None},
         FiledFor(appr, r), AfterNeeds(rest, r, needs, appr, book)
  PROVE  (\A c \in calls' : c \in rest \/ Fits(c)) /\ PromptRight'
<1>t. PromptRight
  BY DEF Access
<1>n. None \in {r, None} /\ 0 \in Nat
  OBVIOUS
<1>p. ASSUME prompt' = prompt PROVE PromptRight'
  BY <1>p, <1>t DEF PromptRight
<1>d. ASSUME appr # 0 PROVE appr \in Nat /\ requests[appr].det \in {r, None}
  BY <1>d, AccessAssumption DEF Access, RequestsRight, FiledFor, RequestIds
<1>1. CASE appr # 0 /\ connectToResource(rest, r, requests[appr].det, None, appr, "approved")
           /\ UNCHANGED prompt
  <2>1. \A c \in calls' : c \in rest \/ Fits(c)
    BY <1>1, <1>d, <1>n, ConnectFits
  <2> QED BY <1>1, <1>p, <2>1
<1>2. CASE appr # 0 /\ calls' = rest
           /\ prompt' = [res |-> r, mode |-> "connect", det |-> requests[appr].det, ref |-> appr]
  <2>1. PromptRight'
    BY <1>2, <1>d, <1>t, PromptFor
  <2> QED BY <1>2, <2>1
<1>3. CASE calls' = rest
           /\ (prompt' = [prompt EXCEPT !.res = r, !.mode = "request", !.det = book]
               \/ prompt' = [prompt EXCEPT !.res = r, !.mode = "connect", !.det = book])
  <2>1. PromptRight'
    BY <1>3, <1>t, PromptFor
  <2> QED BY <1>3, <2>1
<1>4. CASE connectToResource(rest, r, None, book, 0, "click") /\ UNCHANGED prompt
  <2>1. \A c \in calls' : c \in rest \/ Fits(c)
    BY <1>4, <1>n, ConnectFits
  <2> QED BY <1>4, <1>p, <2>1
<1> QED BY <1>1, <1>2, <1>3, <1>4, Zenon DEF AfterNeeds, openConnectPrompt

(* A click on a resource captures an approved request and a playbook of    *)
(* that resource.                                                          *)
LEMMA ConnectResourceFits ==
  ASSUME Access, NEW r \in Resources, onConnectResource(r)
  PROVE  (\A c \in calls' : c \in calls \/ Fits(c)) /\ PromptRight'
<1>t. RequestsRight /\ ListedRight /\ PromptRight /\ playbooks[r] \in {r, None}
  BY DEF Access, BooksRight
<1>1. PICK appr \in IF Reuse(r) = {} THEN {0} ELSE Reuse(r) :
        \/ /\ calls' = calls \cup {Call(calls, "needs", r, None, playbooks[r], appr, 0, "click")}
           /\ UNCHANGED prompt
        \/ \E seen \in BOOLEAN :
             AfterNeeds(calls, r, accessNeeds(r, FALSE, seen), appr, playbooks[r])
  BY Zenon DEF onConnectResource
<1>2. FiledFor(appr, r)
  BY <1>t DEF Reuse, FiledFor, RequestsRight, ListedRight
<1>3. CASE /\ calls' = calls \cup {Call(calls, "needs", r, None, playbooks[r], appr, 0, "click")}
           /\ UNCHANGED prompt
  <2> DEFINE c == Call(calls, "needs", r, None, playbooks[r], appr, 0, "click")
  <2>1. c.k = "needs" /\ c.res = r /\ c.book = playbooks[r] /\ c.ref = appr
    BY DEF Call
  <2> HIDE DEF c
  <2>2. Fits(c)
    BY <1>t, <1>2, <2>1 DEF Fits
  <2>3. calls' = calls \cup {c} /\ prompt' = prompt
    BY <1>3 DEF c
  <2> QED BY <1>t, <2>2, <2>3 DEF PromptRight
<1>4. ASSUME NEW needs, AfterNeeds(calls, r, needs, appr, playbooks[r])
      PROVE  (\A c \in calls' : c \in calls \/ Fits(c)) /\ PromptRight'
  BY <1>t, <1>2, <1>4, AfterNeedsFits
<1> QED BY <1>1, <1>3, <1>4

(* What the dialog sends are the details it shows.                         *)
LEMMA SubmitFits ==
  ASSUME Access, onSubmitAccessPrompt
  PROVE  (\A c \in calls' : c \in calls \/ Fits(c)) /\ PromptRight'
<1>t. PromptRight
  BY DEF Access
<1>1. prompt' = prompt /\ prompt.res # None
  BY Zenon DEF onSubmitAccessPrompt
<1>2. PromptRight'
  BY <1>t, <1>1 DEF PromptRight
<1>3. /\ prompt.res \in Resources /\ prompt.det \in {prompt.res, None} /\ prompt.ref \in Nat
  BY <1>t, <1>1 DEF PromptRight, Details
<1>4. CASE prompt.mode = "request"
  <2> DEFINE c == Call(calls, "request", prompt.res, prompt.det, None, 0, 0, "dialog")
  <2>1. calls' = calls \cup {c} /\ prompt.det # None
    BY <1>4 DEF onSubmitAccessPrompt, Required
  <2>2. c.k = "request" /\ c.res = prompt.res /\ c.det = prompt.det
    BY DEF Call
  <2> HIDE DEF c
  <2>3. Fits(c)
    BY <1>3, <2>1, <2>2 DEF Fits
  <2> QED BY <1>2, <2>1, <2>3
<1>5. CASE connectToResource(calls, prompt.res, prompt.det, None, prompt.ref, "dialog")
  <2>1. None \in {prompt.res, None}
    OBVIOUS
  <2>2. \A c \in calls' : c \in calls \/ Fits(c)
    BY <1>3, <1>5, <2>1, ConnectFits
  <2> QED BY <1>2, <2>2
<1> QED BY <1>4, <1>5, Zenon DEF onSubmitAccessPrompt

(* Calls for the agent carry no details.                                   *)
LEMMA OtherCallFits ==
  ASSUME NEW rest, NEW k \in {"mint", "port"}, NEW r, NEW s, NEW from
  PROVE  Fits(Call(rest, k, r, None, None, 0, s, from))
BY DEF Fits, Call

(* What each step does to dialog, playbooks and calls.                     *)
LEMMA NextCalls ==
  ASSUME Access, [Next]_vars
  PROVE  (\A c \in calls' : c \in calls \/ Fits(c)) /\ PromptRight' /\ BooksRight'
<1>t. PromptRight /\ BooksRight
  BY DEF Access
<1> DEFINE CallsFit == \A c \in calls' : c \in calls \/ Fits(c)
<1> SUFFICES CallsFit /\ PromptRight' /\ BooksRight'
  OBVIOUS
<1>p. ASSUME prompt' = prompt PROVE PromptRight'
  BY <1>p, <1>t DEF PromptRight
<1>b. ASSUME playbooks' = playbooks PROVE BooksRight'
  BY <1>b, <1>t DEF BooksRight
<1>c. ASSUME closeAccessPrompt PROVE PromptRight'
  BY <1>c DEF closeAccessPrompt, Closed, PromptRight, Details
<1>1. ASSUME NEW r \in Resources, onConnectResource(r)
      PROVE  CallsFit /\ PromptRight' /\ BooksRight'
  <2>1. playbooks' = playbooks
    BY <1>1, Zenon DEF onConnectResource
  <2> QED BY <1>1, <1>b, <2>1, ConnectResourceFits
<1>2. ASSUME NEW q \in RequestIds, ConnectFromRequest(q)
      PROVE  CallsFit /\ PromptRight' /\ BooksRight'
  <2>1. listed[q] = "approved" /\ onConnectResource(requests[q].res)
    BY <1>2 DEF ConnectFromRequest, statusOf
  <2>2. requests[q].res \in Resources
    BY <2>1 DEF Access, ListedRight, RequestsRight
  <2> QED BY <1>1, <2>1, <2>2
<1>3. ASSUME NEW c \in calls, NeedsAnswer(c)
      PROVE  CallsFit /\ PromptRight' /\ BooksRight'
  <2>1. c.k = "needs" /\ playbooks' = playbooks
        /\ \E needs : AfterNeeds(calls \ {c}, c.res, needs, c.ref, c.book)
    BY <1>3, Zenon DEF NeedsAnswer
  <2>2. c.res \in Resources /\ c.book \in {c.res, None} /\ FiledFor(c.ref, c.res)
    BY <2>1 DEF Access, Fits
  <2>3. (\A d \in calls' : d \in calls \ {c} \/ Fits(d)) /\ PromptRight'
    BY <2>1, <2>2, AfterNeedsFits
  <2> QED BY <1>b, <2>1, <2>3
<1>4. CASE onSubmitAccessPrompt
  <2>1. playbooks' = playbooks
    BY <1>4, Zenon DEF onSubmitAccessPrompt
  <2> QED BY <1>4, <1>b, <2>1, SubmitFits
<1>5. CASE EnterDetails \/ applyCurrentAccessPlaybook
  <2>1. PICK d \in {prompt.res, None} :
          prompt' = [prompt EXCEPT !.det = d] /\ calls' = calls /\ playbooks' = playbooks
    <3>1. prompt.res # None => prompt.res \in Resources
      BY <1>t DEF PromptRight, Details
    <3>2. CASE EnterDetails
      BY <3>2 DEF EnterDetails, SetFields
    <3>3. CASE applyCurrentAccessPlaybook
      BY <3>1, <3>3, <1>t DEF applyCurrentAccessPlaybook, SetFields, BooksRight
    <3> QED BY <1>5, <3>2, <3>3
  <2>2. PromptRight'
    BY <1>t, <2>1 DEF PromptRight, Details
  <2> QED BY <1>b, <2>1, <2>2
<1>6. CASE saveCurrentAccessPlaybook \/ deleteCurrentAccessPlaybook
  <2>1. PICK d \in {prompt.res, None} :
          /\ playbooks' = [playbooks EXCEPT ![prompt.res] = d]
          /\ calls' = calls /\ prompt' = prompt /\ prompt.res \in Resources
    BY <1>6, <1>t DEF saveCurrentAccessPlaybook, deleteCurrentAccessPlaybook, Playbook,
      PromptRight, Details
  <2>2. BooksRight'
    BY <1>t, <2>1 DEF BooksRight, Details
  <2> QED BY <1>p, <2>1, <2>2
<1>7. CASE CloseDialog
  <2>1. closeAccessPrompt /\ calls' = calls /\ playbooks' = playbooks
    BY <1>7, Zenon DEF CloseDialog
  <2> QED BY <1>b, <1>c, <2>1
<1>8. ASSUME NEW c \in calls, CreateOk(c)
      PROVE  CallsFit /\ PromptRight' /\ BooksRight'
  <2>1. playbooks' = playbooks /\ (closeAccessPrompt \/ prompt' = prompt)
    BY <1>8, Zenon DEF CreateOk
  <2>2. \/ calls' = calls \ {c}
        \/ \E m : Fits(m) /\ calls' = (calls \ {c}) \cup {m}
    BY <1>8, OtherCallFits DEF CreateOk, Open
  <2>3. CallsFit
    BY <2>2
  <2> QED BY <1>b, <1>c, <1>p, <2>1, <2>3
<1>9. ASSUME NEW c \in calls, CreateMissing(c)
      PROVE  CallsFit /\ PromptRight' /\ BooksRight'
  <2>1. /\ c.k = "create" /\ playbooks' = playbooks /\ calls' = calls \ {c}
        /\ openConnectPrompt(c.res, c.book) \/ prompt' = prompt
    BY <1>9, Zenon DEF CreateMissing, Failed
  <2>2. c.res \in Resources /\ c.book \in {c.res, None}
    BY <2>1 DEF Access, Fits
  <2>3. PromptRight'
    BY <1>p, <1>t, <2>1, <2>2, PromptFor DEF openConnectPrompt
  <2> QED BY <1>b, <2>1, <2>3
<1>10. ASSUME NEW c \in calls,
              CreateFails(c) \/ createAccessRequest(c) \/ MintAnswer(c) \/ PortAnswer(c)
       PROVE  CallsFit /\ PromptRight' /\ BooksRight'
  <2>1. playbooks' = playbooks /\ (closeAccessPrompt \/ prompt' = prompt) /\ calls' = calls \ {c}
    BY <1>10, Zenon DEF CreateFails, createAccessRequest, MintAnswer, PortAnswer, Failed
  <2> QED BY <1>b, <1>c, <1>p, <2>1
<1>11. CASE onNewPort \/ \E s \in SessionIds : resumeSession(s)
  <2>1. playbooks' = playbooks /\ prompt' = prompt
    BY <1>11, Zenon DEF onNewPort, resumeSession
  <2>2. \E m : Fits(m) /\ calls' = calls \cup {m}
    BY <1>11, OtherCallFits DEF onNewPort, resumeSession
  <2> QED BY <1>b, <1>p, <2>1, <2>2
<1>12. CASE LaunchAgain \/ CloseAgent \/ CloseViewer \/ Others \/ LaunchTimer \/ PageHidden
            \/ reloadAccessRequests \/ UNCHANGED vars
  <2>1. calls' = calls /\ playbooks' = playbooks /\ prompt' = prompt
    BY <1>12, Zenon DEF LaunchAgain, CloseAgent, CloseViewer, Others, Review, Lapse,
      EndElsewhere, LaunchTimer, PageHidden, LaunchEnds, reloadAccessRequests, vars
  <2> QED BY <1>b, <1>p, <2>1
<1> HIDE DEF CallsFit
<1>13. ASSUME User PROVE CallsFit /\ PromptRight' /\ BooksRight'
  BY <1>1, <1>2, <1>4, <1>5, <1>6, <1>7, <1>11, <1>12, <1>13, Zenon DEF User, ClickResource
<1>14. ASSUME Answers PROVE CallsFit /\ PromptRight' /\ BooksRight'
  BY <1>3, <1>8, <1>9, <1>10, <1>14, Zenon DEF Answers
<1> QED BY <1>12, <1>13, <1>14, Zenon DEF Next

(* Every step preserves the invariant.                                     *)
LEMMA NextAccess == Access /\ [Next]_vars => Access'
<1> SUFFICES ASSUME Access, [Next]_vars PROVE Access'
  OBVIOUS
<1>1. RequestsRight' /\ Kept /\ ListedRight' /\ OpenedRight' /\ PromptRight' /\ BooksRight'
  BY NextRequests, NextOpened, NextCalls
<1>2. \A c \in calls' : c \in calls \/ Fits(c)
  BY NextCalls
<1>3. \A c \in calls' : Fits(c)
  BY <1>2 DEF Access
<1>4. \A q, r : FiledFor(q, r) => FiledFor(q, r)'
  BY <1>1 DEF FiledFor, Kept
<1>5. \A c \in calls' : Fits(c)'
  BY <1>3, <1>4 DEF Fits
<1> QED BY <1>1, <1>5 DEF Access

(* The invariant holds in every reachable state.                           *)
LEMMA AccessAlways == FairSpec => []Access
BY InitAccess, NextAccess, PTL DEF FairSpec

(* Details recorded with a session, a request or a playbook are those of   *)
(* that very resource, whatever the order of dialogs and answers.          *)
THEOREM DetailsAlways == FairSpec => []DetailsForResource
<1>1. Access => DetailsForResource
  BY DEF Access, DetailsForResource, RequestsRight, OpenedRight, BooksRight
<1> QED BY <1>1, AccessAlways, PTL

(* A session on a resource that asks for an approval starts only under a   *)
(* request for that resource that is approved at that moment.              *)
THEOREM ApprovedAccessAlways == FairSpec => ApprovedAccess
<1> DEFINE Under(s) ==
      opened[s].st = "none" /\ opened'[s].st = "active" /\ NeedsApproval(opened'[s].res)
      => LET q == opened'[s].ref
         IN /\ q # 0 /\ q \notin lapsed
            /\ requests[q].st = "approved" /\ requests[q].res = opened'[s].res
<1>1. ASSUME Access, [Next]_vars, NEW s \in SessionIds PROVE Under(s)
  <2>t. opened \in [SessionIds -> [res : Details, det : Details, ref : Nat,
                                   st : {"none", "active", "ended"}]]
    BY <1>1 DEF Access, OpenedRight
  <2>1. CASE opened' = opened
    BY <2>1
  <2>2. ASSUME NEW c, Create(c) PROVE Under(s)
    <3>1. /\ NeedsApproval(c.res) => Approved(c.ref, c.res)
          /\ opened' = [opened EXCEPT ![NextSession] =
                          [res |-> c.res, det |-> c.det, ref |-> c.ref, st |-> "active"]]
      BY <2>2 DEF Create
    <3>2. CASE s = NextSession
      <4>1. opened'[s] = [res |-> c.res, det |-> c.det, ref |-> c.ref, st |-> "active"]
        BY <2>t, <3>1, <3>2
      <4>2. opened'[s].res = c.res /\ opened'[s].ref = c.ref
        BY <4>1
      <4> QED BY <3>1, <4>2 DEF Approved
    <3>3. CASE s # NextSession
      BY <2>t, <3>1, <3>3
    <3> QED BY <3>2, <3>3
  <2>3. ASSUME NEW x, opened' = [opened EXCEPT ![x].st = "ended"] PROVE Under(s)
    BY <2>t, <2>3
  <2>4. SessionStep
    BY <1>1, NextSessions
  <2> HIDE DEF Under
  <2> QED BY <2>1, <2>2, <2>3, <2>4, Zenon DEF SessionStep
<1>2. Access /\ [Next]_vars => [\A s \in SessionIds : Under(s)]_vars
  BY <1>1
<1> QED BY <1>2, AccessAlways, PTL DEF ApprovedAccess, FairSpec
=============================================================================
