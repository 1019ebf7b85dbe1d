--------------------------- MODULE ConsoleTerminal ---------------------------
(***************************************************************************)
(* The SSH terminal of one browser tab: which session it shows, the xterm  *)
(* instance that is loaded on first use, the WebSocket behind it, the      *)
(* one-time credential leases that arrive meanwhile, the automatic         *)
(* connection, and the resumption after a page reload.                     *)
(*                                                                         *)
(* Asynchronous are: the import of xterm, a lease (issue, then consume),   *)
(* the 150 ms retry of Connect, every event of a socket, and the session   *)
(* list.  An effect that a state change makes due runs before any other    *)
(* event.  A password is represented by the session it is for, and the     *)
(* text of messages is left out.  The tab stays signed in (signing out     *)
(* leaves the terminal and its socket as they are) and has its resources.  *)
(***************************************************************************)
EXTENDS Naturals, FiniteSets

CONSTANTS
  Sessions,   \* SSH sessions of the account
  Kind,       \* where the secret of the session's resource is
  MaxSockets, \* bound: sockets of the tab not closed yet
  MaxRetries, \* bound: 150 ms timers armed
  None

(* manual: typed by the user; leased: vaulted, with the JIT licence;       *)
(* bastion: brokered, or vaulted without that licence.                     *)
Kinds == {"manual", "leased", "bastion"}

ASSUME TerminalAssumption ==
  /\ Kind \in [Sessions -> Kinds]
  /\ MaxSockets \in Nat \ {0} /\ MaxRetries \in Nat
  /\ None \notin Sessions

VARIABLES
  created,   \* server: sessions opened
  ended,     \* server: sessions ended
  stored,    \* sessionStorage 'endoriumfort_open_terminal'
  sessions,  \* the tab's list: sessions it shows as active
  loaded,    \* the list has entries
  active,    \* activeTerminalSession
  fresh,     \* ... is the very object the list shows
  term,      \* xterm: none, loading, open
  ready,     \* terminalReady
  status,    \* terminalStatus
  password,  \* sshPassword
  auto,      \* autoConnectSessionId
  resume,    \* resumeSessionId
  checked,   \* resumeCheckedRef
  leases,    \* leases asked for and not answered
  retries,   \* armed 150 ms timers: the session their closure connects
  sockets,   \* sockets of the tab that are not closed
  socketRef, \* id of the current one, or 0
  listeners  \* sockets that the keys typed in xterm are sent to

server == <<created, ended>>
view == <<active, fresh, ready, password, auto, resume>>
net == <<term, status, sockets, socketRef, listeners>>
vars == <<server, stored, sessions, loaded, view, net, checked, leases, retries>>

Statuses == {"idle", "connecting", "live", "closed", "error"}
bastionInjectsCredential(s) == Kind[s] # "manual"
MutHasCredential(s, pw, res) == pw # None \/ res = s
HasCredential(s, pw, res) == pw # None \/ res = s \/ bastionInjectsCredential(s)

(* A socket: the session and whether the password its `start` message will *)
(* carry is empty or for that session, and which caller opened it.  After  *)
(* close(1000) its close event is still to come.                           *)
Closing(k) == [id |-> k.id, ses |-> None, own |-> TRUE, by |-> "none", st |-> "closing"]
CloseCurrent == {IF k.id = socketRef THEN Closing(k) ELSE k : k \in sockets}
FreeId == CHOOSE i \in 1 .. MaxSockets + 1 : \A k \in sockets : k.id # i
Socket(s, pw, by) ==
  [id |-> FreeId, ses |-> s, own |-> pw \in {None, s}, by |-> by, st |-> "new"]
MaySocket == Cardinality(sockets) < MaxSockets
Live == {k \in sockets : k.id = socketRef}

-----------------------------------------------------------------------------
Init ==
  /\ created = {} /\ ended = {}
  /\ stored = None /\ sessions = {} /\ loaded = FALSE
  /\ active = None /\ fresh = FALSE /\ term = "none" /\ ready = FALSE
  /\ status = "idle" /\ password = None /\ auto = None /\ resume = None
  /\ checked = FALSE /\ leases = {} /\ retries = {}
  /\ sockets = {} /\ socketRef = 0 /\ listeners = {}

(* The terminal effect of activeTerminalSession: another object disposes   *)
(* of the old xterm with its socket and loads a new one; the same object   *)
(* changes nothing.                                                        *)
TerminalEffect(same) ==
  IF same THEN UNCHANGED <<term, sockets, socketRef, listeners>>
  ELSE /\ term' = "loading"
       /\ sockets' = CloseCurrent /\ socketRef' = 0 /\ listeners' = {}

MutOpenTerminal(s, object, resuming, asks) ==
  /\ active' = s /\ fresh' = (object = "listed")
  /\ status' = "idle" /\ ready' = FALSE /\ UNCHANGED password
  /\ TerminalEffect(object = "listed" /\ fresh /\ active = s)
  /\ resume' = IF resuming THEN s ELSE None
  /\ auto' = IF resuming \/ Kind[s] = "bastion" THEN s ELSE auto
  /\ leases' = IF resuming \/ Kind[s] # "leased" THEN leases
               ELSE leases \cup {[ses |-> s, by |-> b] : b \in asks}

MutOpenStatus(s, object, resuming, asks) ==
  /\ active' = s /\ fresh' = (object = "listed")
  /\ password' = None /\ ready' = FALSE /\ UNCHANGED status
  /\ TerminalEffect(object = "listed" /\ fresh /\ active = s)
  /\ resume' = IF resuming THEN s ELSE None
  /\ auto' = IF resuming \/ Kind[s] = "bastion" THEN s ELSE auto
  /\ leases' = IF resuming \/ Kind[s] # "leased" THEN leases
               ELSE leases \cup {[ses |-> s, by |-> b] : b \in asks}

(* openTerminal, up to its first await.  `object` is "listed" for an entry *)
(* of the list on screen.  autoConnectSessionId is not reset.              *)
openTerminal(s, object, resuming, asks) ==
  /\ active' = s /\ fresh' = (object = "listed")
  /\ password' = None /\ status' = "idle" /\ ready' = FALSE
  /\ TerminalEffect(object = "listed" /\ fresh /\ active = s)
  /\ resume' = IF resuming THEN s ELSE None
  /\ auto' = IF resuming \/ Kind[s] = "bastion" THEN s ELSE auto
  /\ leases' = IF resuming \/ Kind[s] # "leased" THEN leases
               ELSE leases \cup {[ses |-> s, by |-> b] : b \in asks}

(* connectToResource for SSH: the session is created and its terminal      *)
(* opened; with a lease both openTerminal and connectToResource ask one.   *)
Connect(s) ==
  /\ s \notin created
  /\ created' = created \cup {s}
  /\ sessions' = sessions \cup {s} /\ loaded' = TRUE
  /\ openTerminal(s, "created", FALSE, {"open", "connect"})
  /\ UNCHANGED <<ended, stored, checked, retries>>

(* A tab or a row of the sessions page: only for another session.          *)
openTab(s) ==
  /\ s \in sessions /\ s # active
  /\ openTerminal(s, "listed", FALSE, {"open"})
  /\ UNCHANGED <<server, stored, sessions, loaded, checked, retries>>

(* "Resume" on the map, in the header or in a request: for any session.    *)
resumeSession(s) ==
  /\ s \in sessions
  /\ openTerminal(s, "listed", FALSE, {"open"})
  /\ UNCHANGED <<server, stored, sessions, loaded, checked, retries>>

(* The import of xterm resolves for the object shown last.                 *)
ImportDone ==
  /\ term = "loading"
  /\ term' = "open" /\ ready' = TRUE
  /\ UNCHANGED <<server, stored, sessions, loaded, checked, leases, retries,
                 active, fresh, password, auto, resume, status, sockets, socketRef, listeners>>

(* A lease is granted, or refused and the bastion injects the secret.      *)
(* Which session is on screen now plays no part.                           *)
LeaseAnswer(l) ==
  /\ password' \in {l.ses, None} /\ auto' = l.ses
  /\ leases' = leases \ {l}
  /\ UNCHANGED <<server, stored, sessions, loaded, checked, retries,
                 active, fresh, ready, resume, net>>

(* The password field of the connection bar.                               *)
TypePassword ==
  /\ active \in sessions /\ status # "live"
  /\ password' = active
  /\ UNCHANGED <<server, stored, sessions, loaded, checked, leases, retries,
                 active, fresh, ready, auto, resume, net>>

-----------------------------------------------------------------------------
(* The last part of connectTerminal: the old listener and socket go, a new *)
(* socket is opened.                                                       *)
StartSocket(s, pw, by) ==
  LET k == Socket(s, pw, by)
  IN  /\ MaySocket
      /\ sockets' = CloseCurrent \cup {k}
      /\ socketRef' = k.id /\ listeners' = {} /\ status' = "connecting"

(* connectTerminal as the connection bar and the effect call it: without   *)
(* an xterm yet it tries once more after 150 ms.                           *)
connectTerminal(by) ==
  /\ active # None /\ HasCredential(active, password, resume)
  /\ \/ /\ term = "open"
        /\ StartSocket(active, password, by)
        /\ UNCHANGED <<retries, term>>
     \/ /\ term # "open" /\ Cardinality(retries) < MaxRetries
        /\ retries' = retries \cup {active}
        /\ UNCHANGED net

ClickConnect ==
  /\ active \in sessions /\ status \notin {"live", "connecting"}
  /\ connectTerminal("click")
  /\ UNCHANGED <<server, stored, sessions, loaded, view, checked, leases>>

(* The timer runs the connectTerminal of the render it was armed in.       *)
RetryTimer(s) ==
  /\ retries' = retries \ {s}
  /\ \/ term = "open" /\ StartSocket(s, s, "retry") /\ UNCHANGED term
     \/ term # "open" /\ UNCHANGED net
  /\ UNCHANGED <<server, stored, sessions, loaded, view, checked, leases>>

(* The auto-connect effect.                                                *)
AutoDue ==
  /\ auto # None /\ ready /\ active = auto
  /\ HasCredential(active, password, resume)

AutoConnect ==
  /\ AutoDue
  /\ auto' = None
  /\ connectTerminal("auto")
  /\ UNCHANGED <<server, stored, sessions, loaded, checked, leases,
                 active, fresh, ready, password, resume>>

(* The resume effect: once per page load, when the list has entries.       *)
ResumeDue == ~checked /\ active = None /\ loaded

ResumeEffect ==
  /\ ResumeDue /\ checked' = TRUE
  /\ \/ /\ stored \in sessions
        /\ openTerminal(stored, "raw", TRUE, {})
        /\ UNCHANGED stored
     \/ /\ stored \notin sessions
        /\ stored' = None
        /\ UNCHANGED <<view, net, leases>>
  /\ UNCHANGED <<server, sessions, loaded, retries>>

-----------------------------------------------------------------------------
(* Socket events.  Those of a socket that was replaced are ignored.        *)
SocketOpen(k) ==
  /\ k.st = "new"
  /\ sockets' = (sockets \ {k}) \cup {[k EXCEPT !.st = "open"]}
  /\ IF k.id = socketRef
       THEN status' = "live" /\ stored' = k.ses /\ listeners' = listeners \cup {k.id}
       ELSE UNCHANGED <<status, stored, listeners>>
  /\ UNCHANGED <<server, sessions, loaded, view, term, socketRef, checked, leases, retries>>

(* "Session resumed", "SSH closed" or an error of the server, which keeps  *)
(* the socket open.                                                        *)
SocketMessage(k) ==
  /\ k.st = "open" /\ k.id = socketRef
  /\ \/ resume' = None /\ UNCHANGED <<stored, status>>
     \/ stored' = None /\ UNCHANGED <<resume, status>>
     \/ stored' = None /\ resume' = None /\ status' = "error"
  /\ UNCHANGED <<server, sessions, loaded, active, fresh, ready, password, auto,
                 term, sockets, socketRef, listeners, checked, leases, retries>>

SocketError(k) ==
  /\ k.st # "closing"
  /\ sockets' = (sockets \ {k}) \cup {Closing(k)}
  /\ status' = IF k.id = socketRef THEN "error" ELSE status
  /\ UNCHANGED <<server, stored, sessions, loaded, view, term, socketRef, listeners,
                 checked, leases, retries>>

MutSocketClose(k) ==
  /\ sockets' = sockets \ {k}
  /\ listeners' = {} /\ socketRef' = 0
  /\ status' = IF k.st = "new" THEN "error" ELSE "closed"
  /\ UNCHANGED <<server, stored, sessions, loaded, view, term, checked, leases, retries>>

(* Closed by the server, the network or this tab: cleanly after an open,   *)
(* or not.                                                                 *)
SocketClose(k) ==
  /\ sockets' = sockets \ {k}
  /\ IF k.id = socketRef
       THEN /\ listeners' = {} /\ socketRef' = 0
            /\ status' \in IF k.st = "new" THEN {"error"} ELSE {"closed", "error"}
       ELSE UNCHANGED <<listeners, socketRef, status>>
  /\ UNCHANGED <<server, stored, sessions, loaded, view, term, checked, leases, retries>>

-----------------------------------------------------------------------------
(* The list is loaded, patched by an answer, or rebuilt because the audit  *)
(* items or grants it is merged with changed: its entries are new objects. *)
(* Sessions may have ended meanwhile: time limit, administrator.           *)
ListLoads ==
  /\ \E gone \in SUBSET (created \ ended) : ended' = ended \cup gone
  /\ sessions' = created \ ended' /\ loaded' = (created # {})
  /\ fresh' = FALSE
  /\ <<sessions', loaded', fresh'>> # <<sessions, loaded, fresh>>
  /\ UNCHANGED <<created, stored, active, ready, password, auto, resume, net,
                 checked, leases, retries>>

(* onTerminate: the session is forgotten first, then the server is asked;  *)
(* its answer patches the list.                                            *)
onTerminate(s) ==
  /\ s \in sessions
  /\ stored' = IF stored = s THEN None ELSE stored
  /\ \/ ended' = ended \cup {s} /\ sessions' = sessions \ {s} /\ fresh' = FALSE
     \/ UNCHANGED <<ended, sessions, fresh>>
  /\ UNCHANGED <<created, loaded, active, ready, password, auto, resume, net,
                 checked, leases, retries>>

(* Only the storage survives.                                              *)
Reload ==
  /\ sessions' = {} /\ loaded' = FALSE
  /\ active' = None /\ fresh' = FALSE /\ term' = "none" /\ ready' = FALSE
  /\ status' = "idle" /\ password' = None /\ auto' = None /\ resume' = None
  /\ checked' = FALSE /\ leases' = {} /\ retries' = {}
  /\ sockets' = {} /\ socketRef' = 0 /\ listeners' = {}
  /\ UNCHANGED <<server, stored>>

Event ==
  \/ \E s \in Sessions :
       Connect(s) \/ openTab(s) \/ resumeSession(s) \/ onTerminate(s)
  \/ \E l \in leases : LeaseAnswer(l)
  \/ \E s \in retries : RetryTimer(s)
  \/ \E k \in sockets : SocketOpen(k) \/ SocketMessage(k) \/ SocketError(k) \/ SocketClose(k)
  \/ ImportDone \/ TypePassword \/ ClickConnect \/ ListLoads \/ Reload

(* At the bound of sockets an effect waits for a close event.              *)
Closed == \E k \in sockets : k.st = "closing" /\ SocketClose(k)

Next ==
  \/ ResumeEffect
  \/ ~ResumeDue /\ AutoConnect
  \/ ~ResumeDue /\ AutoDue /\ ~MaySocket /\ Closed
  \/ ~ResumeDue /\ ~AutoDue /\ Event

Spec == Init /\ [][Next]_vars

(* The import of xterm ends, effects run, closed sockets say so.           *)
FairSpec ==
  /\ Spec
  /\ WF_vars(ImportDone /\ Next) /\ WF_vars(AutoConnect /\ Next) /\ WF_vars(ResumeEffect)
  /\ WF_vars(Closed /\ Next)

-----------------------------------------------------------------------------
(* Every variable holds a value the code can give it; xterm is open        *)
(* whenever there is a current socket.                                     *)
TypeOK ==
  /\ created \subseteq Sessions /\ ended \subseteq created
  /\ stored \in created \cup {None} /\ active \in created \cup {None}
  /\ sessions \subseteq created /\ loaded \in BOOLEAN
  /\ fresh \in BOOLEAN /\ ready \in BOOLEAN /\ checked \in BOOLEAN
  /\ term \in {"none", "loading", "open"} /\ status \in Statuses
  /\ password \in created \cup {None} /\ auto \in created \cup {None}
  /\ resume \in {None, active}
  /\ leases \subseteq [ses : created, by : {"open", "connect"}]
  /\ retries \subseteq created
  /\ sockets \subseteq [id : 1 .. MaxSockets + 1, ses : created \cup {None}, own : BOOLEAN,
                        by : {"auto", "click", "retry", "none"}, st : {"new", "open", "closing"}]
  /\ socketRef \in {0} \cup {k.id : k \in sockets}
  /\ socketRef # 0 => term = "open"

(* A password is never sent by itself to a session it was not leased or    *)
(* typed for, although leases are answered after other terminals opened.   *)
PasswordForItsSession ==
  \A k \in sockets : k.by = "auto" => k.own

(* The tab drives one shell at a time: a socket that was replaced is       *)
(* closed and keys are sent to the current one only ("prevent duplicated   *)
(* key forwarding"), whatever the order of late socket events.             *)
OneSocket ==
  /\ \A k \in sockets : k.st # "closing" => k.id = socketRef
  /\ listeners \subseteq {socketRef}

(* While "live" is shown, keys and snippets reach the open shell of the    *)
(* session on screen.  Except after the 150 ms retry: its timer connects   *)
(* the session it was armed for, whatever is on screen then.               *)
LiveIsOnScreen ==
  status = "live" =>
    \E k \in Live : /\ k.st = "open" /\ listeners = {k.id}
                    /\ k.by # "retry" => k.ses = active

(* An automatic connection of the session on screen is made, however the   *)
(* import, leases and reopenings interleave: unless the tab is signed out, *)
(* or the entry on screen was opened again (xterm stays, terminalReady is  *)
(* reset for good).                                                        *)
Frozen == term = "open" /\ ~ready
AutoConnects ==
  \A s \in Sessions :
    (auto = s /\ active = s /\ bastionInjectsCredential(s))
      ~> (auto # s \/ active # s \/ Frozen)
=============================================================================
