---------------------------- MODULE ConsoleDrive ----------------------------
(***************************************************************************)
(* The drive of a file share resource, in its own tab: the session with    *)
(* the file service (a ticket of the bastion exchanged for a cookie, which *)
(* a timer renews), the folder on screen and its listing, uploads with     *)
(* their conflicts, the dialogs that change items, and the shares given.   *)
(*                                                                         *)
(* A chain of calls is one record that moves from step to step:            *)
(*   go      the request itself; a dead cookie answers 401                 *)
(*   place   an upload past the service's check for an item of that name   *)
(*   ticket  renew() waits for the bastion's ticket                        *)
(*   open    renew() waits for the cookie of the file service              *)
(*   again   the request after the renewal                                 *)
(* The content of an item is the upload it came from, Theirs (a file of    *)
(* somebody else, or from before), Dir (a folder), or 0: none.             *)
(***************************************************************************)
EXTENDS Naturals, FiniteSets

CONSTANTS
  Folders,       \* folders of the user's drive and of the shares received
  Own,           \* those of the user's own drive
  Writable,      \* those the service lets the user change
  Names,
  Outgoing,      \* the view of the shares given: no folder
  There,         \* files there at the start
  MaxUploads,    \* bound: files dropped
  MaxChains,     \* bound: chains under way
  MaxTimers,     \* bound: renewal timers armed at once
  MaxClicks      \* bound: what the user and others do

Items == Folders \X Names
UploadIds == 1 .. MaxUploads
Theirs == MaxUploads + 1
Dir == MaxUploads + 2

ASSUME DriveAssumption ==
  /\ Own \subseteq Writable /\ Writable \subseteq Folders /\ Own # {} /\ Names # {}
  /\ Outgoing \notin Folders /\ There \subseteq Items
  /\ MaxClicks \in Nat /\ MaxUploads \in Nat /\ MaxChains \in Nat \ {0, 1} /\ MaxTimers \in Nat \ {0}

VARIABLES
  lease,      \* bastion: the session is active
  cookie,     \* file service: the tab's cookie is good
  files,      \* file service: content of every item
  granted,    \* file service: items the user shares
  phase,
  folder,     \* view and path: the folder on screen, or Outgoing
  listing,    \* the folder whose rows are on screen, and their names
  shares,     \* shares.outgoing of the tab
  uploads,    \* the upload list, and the item each one was dropped on
  chains,     \* chains of calls under way
  timers,     \* renewal timers armed
  held,       \* renewTimer.current is one of them
  modal,      \* the dialog that is open, its item, the chain it waits for
  asked,      \* history: uploads whose Replace was clicked
  met,        \* history: what the service's check of an upload met
  clicks      \* what the user and others did so far

server == <<lease, cookie, files, granted>>
renewal == <<timers, held>>
history == <<asked, met>>
driveVars == <<server, phase, folder, listing, shares, uploads, chains, renewal,
               modal, history, clicks>>

AnItem == CHOOSE i \in Items : TRUE
NoRows == [of |-> Outgoing, names |-> {}]
NoModal == [k |-> "none", item |-> AnItem, by |-> 0]

DriveTypeOK ==
  /\ lease \in BOOLEAN /\ cookie \in BOOLEAN
  /\ files \in [Items -> 0 .. Dir] /\ granted \subseteq Items
  /\ phase \in {"loading", "ready", "ended", "error"}
  /\ folder \in Folders \cup {Outgoing}
  /\ listing \in [of : Folders \cup {Outgoing}, names : SUBSET Names]
  /\ shares \subseteq Items
  /\ uploads \in [UploadIds -> [item : Items,
                    st : {"none", "running", "conflict", "error", "gone"}]]
  /\ chains \subseteq [id : 1 .. MaxChains,
       k : {"init", "timer", "close", "list", "shares", "upload",
            "mkdir", "rename", "delete", "share", "revoke"},
       step : {"go", "place", "ticket", "open", "again"},
       item : Items, u : 0 .. MaxUploads, over : BOOLEAN]
  /\ timers \in 0 .. MaxTimers /\ held \in BOOLEAN
  /\ modal \in [k : {"none", "mkdir", "rename", "delete", "share"}, item : Items,
                by : 0 .. MaxChains]
  /\ asked \subseteq UploadIds /\ met \in [UploadIds -> 0 .. Dir]
  /\ clicks \in 0 .. MaxClicks

-----------------------------------------------------------------------------
(* Chains.                                                                 *)

Chain(k, step, item, u, over) ==
  [id |-> 0, k |-> k, step |-> step, item |-> item, u |-> u, over |-> over]
ListOf(f) == Chain("list", "go", <<f, CHOOSE n \in Names : TRUE>>, 0, FALSE)
SharesOf == Chain("shares", "go", AnItem, 0, FALSE)
Add(set, c) ==
  set \cup {[c EXCEPT !.id = CHOOSE i \in 1 .. MaxChains : \A o \in set : o.id # i]}
Room == Cardinality(chains) < MaxChains
Start(c) == Room /\ chains' = Add(chains, c)

(* One chain ends, moves to another step, or goes on with another call.    *)
Ends(c) == chains' = chains \ {c}
MovesTo(c, next) == chains' = (chains \ {c}) \cup {next}
EndsWith(c, next) == chains' = Add(chains \ {c}, next)

(* Rows that go take the confirmation opened from one of them along.       *)
SetListing(rows) ==
  /\ listing' = rows
  /\ modal' = IF modal.k = "delete" /\ modal.item[2] \notin rows.names THEN NoModal ELSE modal

(* The request failed for good: each kind of chain has its own handler.    *)
Handle(c) ==
  /\ uploads' = IF c.k = "upload" THEN [uploads EXCEPT ![c.u].st = "error"] ELSE uploads
  /\ IF c.k = "list" THEN SetListing(NoRows)
     ELSE /\ UNCHANGED listing
          /\ modal' = IF modal.by = c.id THEN [modal EXCEPT !.by = 0] ELSE modal
Throws(c) == Ends(c) /\ Handle(c)

(* main.jsx renders the drive for ?files=<id>; its first effect renews.    *)
DriveInit ==
  /\ lease = TRUE /\ cookie = FALSE /\ granted = {}
  /\ files = [i \in Items |-> IF i \in There THEN Theirs ELSE 0]
  /\ phase = "loading" /\ folder = (CHOOSE f \in Own : TRUE) /\ listing = NoRows /\ shares = {}
  /\ uploads = [u \in UploadIds |-> [item |-> AnItem, st |-> "none"]] /\ modal = NoModal
  /\ chains = Add({}, Chain("init", "ticket", AnItem, 0, FALSE))
  /\ timers = 0 /\ held = FALSE /\ asked = {} /\ met = [u \in UploadIds |-> 0]
  /\ clicks = 0

-----------------------------------------------------------------------------
(* The drive session.                                                      *)

(* clearTimeout(renewTimer.current): with two renewals under way the timer *)
(* of the first is no longer the one it holds.                             *)
ClearTimer == timers' = (IF held THEN timers - 1 ELSE timers) /\ held' = FALSE

(* The ticket is refused once the session has ended, or the account is     *)
(* signed out: the drive is over.  Any other failure is shown as an error. *)
TicketAnswer(c) ==
  /\ c.step = "ticket"
  /\ \/ /\ lease /\ MovesTo(c, [c EXCEPT !.step = "open"])
        /\ UNCHANGED <<phase, listing, uploads, modal>>
     \/ phase' \in {"ended", "error"} /\ Throws(c)
  /\ UNCHANGED <<server, folder, shares, renewal, history>>

(* The cookie is set and the next renewal armed, also after closeDrive.    *)
(* Then the chain goes on with what asked for the renewal.                 *)
OpenAnswer(c) ==
  /\ c.step = "open"
  /\ \/ /\ timers < MaxTimers /\ timers' = timers + 1 /\ held' = TRUE /\ cookie' = TRUE
        /\ \/ /\ c.k = "init" /\ phase' = "ready"
              /\ chains' = Add(Add({}, ListOf(folder)), SharesOf)
           \/ c.k = "timer" /\ Ends(c) /\ UNCHANGED phase
           \/ c.k = "upload" /\ MovesTo(c, [c EXCEPT !.step = "go"]) /\ UNCHANGED phase
           \/ /\ c.k \notin {"init", "timer", "upload"}
              /\ MovesTo(c, [c EXCEPT !.step = "again"]) /\ UNCHANGED phase
        /\ UNCHANGED <<listing, uploads, modal>>
     \/ /\ phase' = IF phase = "loading" THEN "error" ELSE phase
        /\ Throws(c) /\ UNCHANGED <<cookie, renewal>>
  /\ UNCHANGED <<lease, files, granted, folder, shares, history>>

(* One of them fires, and renew() clears the one renewTimer holds.         *)
RenewTimer ==
  /\ timers > 0 /\ Start(Chain("timer", "ticket", AnItem, 0, FALSE))
  /\ timers' \in {timers - 1} \cup {n \in {timers - 2} : held /\ timers > 1} /\ held' = FALSE
  /\ UNCHANGED <<server, phase, folder, listing, shares, uploads, modal, history>>

(* call(): the first 401 renews, a second one is thrown.  An upload that   *)
(* meets a 401 renews and runs again as it was, as often as it takes.      *)
MutUnauthorized(c) ==
  /\ c.step = "go" /\ c.k # "close" /\ ~cookie
  /\ MovesTo(c, [c EXCEPT !.step = "ticket", !.over = c.k = "upload"]) /\ ClearTimer
  /\ UNCHANGED <<server, phase, folder, listing, shares, uploads, modal, history>>
Unauthorized(c) ==
  /\ c.step \in {"go", "again"} /\ c.k # "close" /\ ~cookie
  /\ \/ /\ c.step = "go" /\ MovesTo(c, [c EXCEPT !.step = "ticket"]) /\ ClearTimer
        /\ UNCHANGED <<listing, uploads, modal>>
     \/ c.step = "again" /\ Throws(c) /\ UNCHANGED renewal
  /\ UNCHANGED <<server, phase, folder, shares, history>>

(* The tab drops its cookie, then ends the session; the second may fail.   *)
closeDrive ==
  /\ phase = "ready" /\ modal = NoModal /\ \A c \in chains : c.k # "close"
  /\ ClearTimer /\ Start(Chain("close", "go", AnItem, 0, FALSE))
  /\ UNCHANGED <<server, phase, folder, listing, shares, uploads, modal, history>>
CloseAnswer(c) ==
  /\ c.k = "close"
  /\ \/ /\ c.step = "go" /\ cookie' \in {cookie, FALSE} /\ MovesTo(c, [c EXCEPT !.step = "again"])
        /\ UNCHANGED <<lease, phase>>
     \/ /\ c.step = "again" /\ lease' \in {lease, FALSE} /\ phase' = "ended" /\ Ends(c)
        /\ UNCHANGED cookie
  /\ UNCHANGED <<files, granted, folder, listing, shares, uploads, renewal, modal, history>>

(* The cookie runs out; the session is ended elsewhere.                    *)
CookieExpires ==
  /\ cookie /\ cookie' = FALSE
  /\ UNCHANGED <<lease, files, granted, phase, folder, listing, shares, uploads, chains,
                 renewal, modal, history>>
SessionEnds ==
  /\ lease /\ lease' = FALSE
  /\ UNCHANGED <<cookie, files, granted, phase, folder, listing, shares, uploads, chains,
                 renewal, modal, history>>

-----------------------------------------------------------------------------
(* The folder on screen.                                                   *)

Free == phase = "ready" /\ modal = NoModal

(* A view, a folder or a crumb: the effect lists it, and the rows of the   *)
(* folder before stay until some answer replaces them.                     *)
openView(f) ==
  /\ Free /\ f # folder /\ folder' = f
  /\ Start(IF f = Outgoing THEN SharesOf ELSE ListOf(f))
  /\ UNCHANGED <<server, phase, listing, shares, uploads, renewal, modal, history>>
Refresh ==
  /\ Free /\ Start(IF folder = Outgoing THEN SharesOf ELSE ListOf(folder))
  /\ UNCHANGED <<server, phase, folder, listing, shares, uploads, renewal, modal, history>>

NamesIn(f) == {n \in Names : files[<<f, n>>] # 0}
Answered(c, k) == c.k = k /\ c.step \in {"go", "again"} /\ cookie

(* The answer is shown whatever folder is on screen by then.               *)
refresh(c) ==
  /\ Answered(c, "list") /\ Ends(c)
  /\ \E rows \in {NoRows, [of |-> c.item[1], names |-> NamesIn(c.item[1])]} : SetListing(rows)
  /\ UNCHANGED <<server, phase, folder, shares, uploads, renewal, history>>
refreshShares(c) ==
  /\ Answered(c, "shares") /\ Ends(c)
  /\ shares' \in {shares, granted}
  /\ modal' = IF modal.by = c.id THEN [modal EXCEPT !.by = 0] ELSE modal
  /\ UNCHANGED <<server, phase, folder, listing, uploads, renewal, history>>

-----------------------------------------------------------------------------
(* Uploads.                                                                *)

canWrite == listing.of \in Writable /\ folder # Outgoing

(* Dropped on the folder on screen; canWrite is that of the rows shown.    *)
startUploads(u, n) ==
  /\ Free /\ canWrite /\ uploads[u].st = "none"
  /\ \A v \in UploadIds : v < u => uploads[v].st # "none"
  /\ Start(Chain("upload", "go", <<folder, n>>, u, FALSE))
  /\ uploads' = [uploads EXCEPT ![u] = [item |-> <<folder, n>>, st |-> "running"]]
  /\ UNCHANGED <<server, phase, folder, listing, shares, renewal, modal, history>>

(* The service's check; the body of the file is read after it.             *)
UploadCheck(c) ==
  /\ Answered(c, "upload")
  /\ met' = [met EXCEPT ![c.u] = files[c.item]]
  /\ \/ /\ c.item[1] \in Writable /\ (files[c.item] = 0 \/ (c.over /\ files[c.item] # Dir))
        /\ MovesTo(c, [c EXCEPT !.step = "place"]) /\ UNCHANGED <<uploads, listing, modal>>
     \/ /\ c.item[1] \in Writable /\ files[c.item] # 0 /\ ~c.over
        /\ Ends(c) /\ uploads' = [uploads EXCEPT ![c.u].st = "conflict"]
        /\ UNCHANGED <<listing, modal>>
     \/ Throws(c)
  /\ UNCHANGED <<server, phase, folder, shares, renewal, asked>>

(* The file is moved to its name, unless a folder took it; the answer may  *)
(* be lost.  The listing asked for next is that of the folder it was       *)
(* dropped on.                                                             *)
UploadAnswer(c) ==
  /\ c.step = "place"
  /\ \/ /\ files[c.item] # Dir /\ files' = [files EXCEPT ![c.item] = c.u]
        /\ \/ /\ uploads' = [uploads EXCEPT ![c.u].st = "gone"]
              /\ EndsWith(c, ListOf(c.item[1])) /\ UNCHANGED <<listing, modal>>
           \/ Throws(c)
     \/ Throws(c) /\ UNCHANGED files
  /\ UNCHANGED <<lease, cookie, granted, phase, folder, shares, renewal, history>>

Replace(u) ==
  /\ Free /\ folder # Outgoing /\ uploads[u].st = "conflict"
  /\ Start(Chain("upload", "go", uploads[u].item, u, TRUE))
  /\ uploads' = [uploads EXCEPT ![u].st = "running"] /\ asked' = asked \cup {u}
  /\ UNCHANGED <<server, phase, folder, listing, shares, renewal, modal, met>>
Dismiss(u) ==
  /\ Free /\ folder # Outgoing /\ uploads[u].st \in {"conflict", "error"}
  /\ uploads' = [uploads EXCEPT ![u].st = "gone"]
  /\ UNCHANGED <<server, phase, folder, listing, shares, chains, renewal, modal, history>>

-----------------------------------------------------------------------------
(* The dialogs.  The item of a row is its name in the folder on screen,    *)
(* also when the rows are those of another folder.                         *)

OpenDialog(k, n) ==
  /\ Free /\ folder # Outgoing
  /\ IF k = "share" THEN folder \in Own ELSE canWrite
  /\ k # "mkdir" => n \in listing.names
  /\ modal' = [k |-> k, item |-> <<folder, n>>, by |-> 0]
  /\ UNCHANGED <<server, phase, folder, listing, shares, uploads, chains, renewal, history>>

(* Only the confirmation of a deletion cannot be closed while it is busy.  *)
CloseModal ==
  /\ phase = "ready" /\ modal # NoModal /\ (modal.k = "delete" => modal.by = 0)
  /\ modal' = NoModal
  /\ UNCHANGED <<server, phase, folder, listing, shares, uploads, chains, renewal, history>>

Submit ==
  /\ phase = "ready" /\ modal # NoModal /\ modal.by = 0
  /\ Start(Chain(modal.k, "go", modal.item, 0, FALSE))
  /\ modal' = [modal EXCEPT !.by = (CHOOSE c \in chains' : c \notin chains).id]
  /\ UNCHANGED <<server, phase, folder, listing, shares, uploads, renewal, history>>

RevokeShare(i) ==
  /\ phase = "ready" /\ i \in shares
  /\ (modal = NoModal /\ folder = Outgoing) \/ (modal.k = "share" /\ modal.item = i)
  /\ Start(Chain("revoke", "go", i, 0, FALSE))
  /\ UNCHANGED <<server, phase, folder, listing, shares, uploads, renewal, modal, history>>

(* What the service does with an item; its share follows it.               *)
Serve(c) ==
  \/ /\ c.k = "mkdir" /\ c.item[1] \in Writable /\ files[c.item] = 0
     /\ files' = [files EXCEPT ![c.item] = Dir] /\ UNCHANGED granted
  \/ /\ c.k = "rename" /\ c.item[1] \in Writable /\ files[c.item] # 0
     /\ \E to \in {c.item[1]} \X (Names \ NamesIn(c.item[1])) :
          /\ files' = [files EXCEPT ![c.item] = 0, ![to] = files[c.item]]
          /\ granted' = IF c.item \in granted THEN (granted \ {c.item}) \cup {to} ELSE granted
  \/ /\ c.k = "delete" /\ c.item[1] \in Writable /\ files[c.item] # 0
     /\ files' = [files EXCEPT ![c.item] = 0] /\ granted' = granted \ {c.item}
  \/ c.k = "share" /\ files[c.item] # 0 /\ granted' = granted \cup {c.item} /\ UNCHANGED files
  \/ c.k = "revoke" /\ granted' = granted \ {c.item} /\ UNCHANGED files

(* Then the folder of the dialog, the shares, or both, are asked for       *)
(* again.  A name dialog that is done closes the dialog that is open by    *)
(* then; a confirmation belongs to its row.                                *)
ItemAnswer(c) ==
  /\ \E k \in {"mkdir", "rename", "delete", "share", "revoke"} : Answered(c, k)
  /\ \/ /\ Serve(c)
        /\ \/ /\ c.k = "mkdir" /\ EndsWith(c, ListOf(c.item[1]))
              /\ modal' = IF modal.k = "delete" THEN modal ELSE NoModal
           \/ /\ c.k \in {"rename", "delete"} /\ Room
              /\ chains' = Add(Add(chains \ {c}, ListOf(c.item[1])), SharesOf)
              /\ modal' = IF (modal.k = "delete") = (c.k = "delete") THEN NoModal ELSE modal
           \/ c.k \in {"share", "revoke"} /\ UNCHANGED modal
              /\ MovesTo(c, [SharesOf EXCEPT !.id = c.id])
        /\ UNCHANGED <<uploads, listing>>
     \/ Throws(c) /\ UNCHANGED <<files, granted>>
  /\ UNCHANGED <<lease, cookie, phase, folder, shares, renewal, history>>

(* Somebody else the folder is shared with adds a file.                    *)
OtherPuts(i) ==
  /\ i[1] \notin Own /\ files[i] = 0 /\ files' = [files EXCEPT ![i] = Theirs]
  /\ UNCHANGED <<lease, cookie, granted, phase, folder, listing, shares, uploads, chains,
                 renewal, modal, history>>

-----------------------------------------------------------------------------
DriveUser ==
  \/ \E f \in Folders \cup {Outgoing} : openView(f)
  \/ Refresh \/ closeDrive \/ Submit \/ CloseModal
  \/ \E u \in UploadIds : Replace(u) \/ Dismiss(u) \/ (\E n \in Names : startUploads(u, n))
  \/ \E k \in {"mkdir", "rename", "delete", "share"}, n \in Names : OpenDialog(k, n)
  \/ \E i \in Items : RevokeShare(i)

DriveAnswers ==
  \E c \in chains : \/ TicketAnswer(c) \/ OpenAnswer(c) \/ Unauthorized(c)
                    \/ CloseAnswer(c) \/ refresh(c) \/ refreshShares(c)
                    \/ UploadCheck(c) \/ UploadAnswer(c) \/ ItemAnswer(c)
DriveOthers == SessionEnds \/ \E i \in Items : OtherPuts(i)

DriveNext ==
  \/ clicks < MaxClicks /\ clicks' = clicks + 1 /\ (DriveUser \/ DriveOthers)
  \/ (DriveAnswers \/ RenewTimer \/ CookieExpires) /\ UNCHANGED clicks

DriveSpec == DriveInit /\ [][DriveNext]_driveVars

-----------------------------------------------------------------------------
(* A dropped file lands in the folder it was dropped on, and replaces an   *)
(* item only when Replace was chosen for it, or when the item was not      *)
(* there yet at the service's check: whatever 401s, renewals and moves to  *)
(* other folders come between.                                             *)
UploadsKeepFiles ==
  [][\A i \in Items, u \in UploadIds :
       files[i] # u /\ files'[i] = u
       => /\ i[1] = uploads[u].item[1]
          /\ files[i] # 0 => u \in asked \/ met[u] = 0]_driveVars
=============================================================================
