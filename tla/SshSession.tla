----------------------------- MODULE SshSession -----------------------------
(***************************************************************************)
(* The life of SSH terminals in the bastion (backend/src/ssh.cc).          *)
(*                                                                         *)
(* Five kinds of threads share the state below:                            *)
(*   - the I/O thread of each browser websocket, which runs onopen,        *)
(*     onmessage and onclose of that websocket one after the other;        *)
(*   - the reader thread of each started shell;                            *)
(*   - one grace timer thread per detachment of a shell;                   *)
(*   - HTTP threads that serve POST /api/sessions/<id>/terminate;          *)
(*   - the remote host, which may end a shell at any moment.               *)
(*                                                                         *)
(* A step is what one thread does between two points where another thread  *)
(* can see or change what it uses: one critical section, with the local    *)
(* work around it.  Onopen makes one SshConnection object per websocket,   *)
(* so an SshConnection ("shell") is named by the websocket that made it.   *)
(* What the shells print is in module SshOutput.                           *)
(***************************************************************************)
EXTENDS Integers, FiniteSets

CONSTANTS
  Sessions,    \* ids of the sessions opened through the API
  Conns,       \* browser websockets on /api/ws/ssh, and the shells they make
  Admins,      \* HTTP threads that may serve a terminate request
  None,        \* "nullptr", "not in the map", session id 0
  Owner,       \* session -> name of the user whose access grant opened it
  UserOf,      \* websocket -> user name of the accepted token
  AccountOf,   \* websocket -> account id of the accepted token
  GraceOn      \* resume_grace_seconds() > 0

ASSUME ConstAssumption ==
  /\ None \notin Sessions /\ None \notin Conns
  /\ GraceOn \in BOOLEAN

VARIABLES
  status,         \* ctx.sessions[s].status
  identity,       \* keys of ctx.ssh_session_identities
  conn,           \* websocket: "new", "open", "closing" (close sent), "gone"
  io,             \* I/O thread of a websocket: where it is, the session id
                  \* and the shared_ptr<SshConnection> its handler holds
  ws_connections, \* ctx.ws_connections: websocket -> shell
  shell,          \* the SshConnection objects
  g_detached,     \* session -> detached shell
  timers,         \* grace timer threads that have not returned
  admin           \* HTTP threads in the terminate handler

vars == <<status, identity, conn, io, ws_connections, shell, g_detached,
          timers, admin>>

Shells == Conns
OrNone(S) == S \cup {None}

IoThread == [pc : {"idle", "checked", "resuming", "replaying", "connecting",
                   "connected", "registered", "attached", "detaching",
                   "detached", "joining"},
             req : OrNone(Sessions), hand : OrNone(Shells)]

(* struct SshConnection; detachments is a history of how many times onclose *)
(* put the shell into g_detached.                                           *)
SshConnection ==
  [running : BOOLEAN, session_id : OrNone(Sessions), client : OrNone(Conns),
   channel : {"none", "open", "freed"},
   reader : {"none", "reading", "stopping", "terminating", "telling", "done"},
   detachments : Nat]

Timer == [shell : Shells, session : Sessions, nth : Nat,
          state : {"sleeping", "expired", "joining"}]

AdminThread ==
  [state : {"idle", "collect", "close", "joining", "joindetached"},
   session : OrNone(Sessions), todo : SUBSET (Conns \X Shells),
   shell : OrNone(Shells), ws : OrNone(Conns)]

IdleAdmin == [state |-> "idle", session |-> None, todo |-> {}, shell |-> None,
              ws |-> None]

(* Sessions were opened through the API, no terminal is open yet.           *)
Init ==
  /\ status = [s \in Sessions |-> "active"]
  /\ identity = {}
  /\ conn = [c \in Conns |-> "new"]
  /\ io = [c \in Conns |-> [pc |-> "idle", req |-> None, hand |-> None]]
  /\ ws_connections = [c \in Conns |-> None]
  /\ shell = [h \in Shells |->
                [running |-> FALSE, session_id |-> None, client |-> None,
                 channel |-> "none", reader |-> "none", detachments |-> 0]]
  /\ g_detached = [s \in Sessions |-> None]
  /\ timers = {}
  /\ admin = [a \in Admins |-> IdleAdmin]

-----------------------------------------------------------------------------
(* What several threads call                                               *)

(* AppContext::terminate_session, as far as SSH threads see it: the         *)
(* identity is forgotten and the session is no longer active.  Forgetting   *)
(* has a lock of its own, but an identity remembered between the two is no  *)
(* different from one remembered after both.                                *)
terminate_session(s) ==
  /\ identity' = identity \ {s}
  /\ status' = [status EXCEPT ![s] = "terminated"]

(* The second half of ssh_disconnect.  The first clears running; then the   *)
(* reader thread, if it was started, has to end before the channel, the SSH *)
(* session and the socket are freed.                                        *)
free_shell(h) ==
  /\ shell[h].reader \in {"none", "done"}
  /\ shell' = [shell EXCEPT ![h].channel = IF @ = "open" THEN "freed" ELSE @]

(* The handler on the I/O thread of c goes on, holding session s, shell h.  *)
IoGoes(c, pc, s, h) ==
  io' = [io EXCEPT ![c] = [pc |-> pc, req |-> s, hand |-> h]]
IoReturns(c) == IoGoes(c, "idle", None, None)

-----------------------------------------------------------------------------
(* The I/O thread of a websocket                                           *)

(* onaccept and onopen: the token is known, a fresh SshConnection is        *)
(* registered for the websocket.                                            *)
OnOpen(c) ==
  /\ conn[c] = "new"
  /\ conn' = [conn EXCEPT ![c] = "open"]
  /\ ws_connections' = [ws_connections EXCEPT ![c] = c]
  /\ UNCHANGED <<status, identity, io, shell, g_detached, timers, admin>>

(* AppContext::may_drive_session: only the person who opened the session.   *)
may_drive_session(c, s) == UserOf[c] = Owner[s]

(* onmessage "start": the websocket's shell is not started, the session is  *)
(* active and belongs to the user.  The browser sends "start" once per      *)
(* websocket, and again only if the shell could not be started.             *)
Start(c, s) ==
  /\ conn[c] = "open" /\ io[c].pc = "idle"
  /\ ws_connections[c] = c
  /\ ~shell[c].running /\ shell[c].reader = "none"
  /\ status[s] = "active"
  /\ may_drive_session(c, s)
  /\ IoGoes(c, "checked", s, None)
  /\ UNCHANGED <<status, identity, conn, ws_connections, shell, g_detached,
                 timers, admin>>

Resumable(s) == g_detached[s] # None /\ shell[g_detached[s]].running

(* mutant: whoever may drive the session takes the shell                    *)
MutTakeDetached(c) ==
  LET s == io[c].req
      d == g_detached[s]
  IN /\ io[c].pc = "checked"
     /\ Resumable(s)
     /\ IoGoes(c, "resuming", s, d)
     /\ g_detached' = [g_detached EXCEPT ![s] = None]
     /\ UNCHANGED <<status, identity, conn, ws_connections, shell, timers,
                    admin>>

(* onmessage "start", under g_detached_mutex: a live shell of the session   *)
(* is detached and was opened by this account: take it.                     *)
TakeDetached(c) ==
  LET s == io[c].req
      d == g_detached[s]
  IN /\ io[c].pc = "checked"
     /\ Resumable(s) /\ AccountOf[d] = AccountOf[c]
     /\ IoGoes(c, "resuming", s, d)
     /\ g_detached' = [g_detached EXCEPT ![s] = None]
     /\ UNCHANGED <<status, identity, conn, ws_connections, shell, timers,
                    admin>>

(* onmessage "start": the detached shell belongs to another account.        *)
RefuseResume(c) ==
  LET s == io[c].req
  IN /\ io[c].pc = "checked"
     /\ Resumable(s) /\ AccountOf[g_detached[s]] # AccountOf[c]
     /\ IoReturns(c)
     /\ UNCHANGED <<status, identity, conn, ws_connections, shell,
                    g_detached, timers, admin>>

(* onmessage "start": nothing to resume, open an SSH connection.            *)
NothingDetached(c) ==
  /\ io[c].pc = "checked"
  /\ ~Resumable(io[c].req)
  /\ IoGoes(c, "connecting", io[c].req, None)
  /\ UNCHANGED <<status, identity, conn, ws_connections, shell, g_detached,
                 timers, admin>>

(* Resume, under ws_mutex: the websocket now stands for the detached shell. *)
ResumeRegister(c) ==
  /\ io[c].pc = "resuming"
  /\ ws_connections' = [ws_connections EXCEPT ![c] = io[c].hand]
  /\ IoGoes(c, "replaying", io[c].req, io[c].hand)
  /\ UNCHANGED <<status, identity, conn, shell, g_detached, timers, admin>>

(* Resume, under client_mutex: replay the backlog, go live.                 *)
ResumeReplay(c) ==
  /\ io[c].pc = "replaying"
  /\ shell' = [shell EXCEPT ![io[c].hand].client = c]
  /\ IoReturns(c)
  /\ UNCHANGED <<status, identity, conn, ws_connections, g_detached, timers,
                 admin>>

(* No credential, or ssh_connect failed: the shell is left unstarted.       *)
ConnectFail(c) ==
  /\ io[c].pc = "connecting"
  /\ IoReturns(c)
  /\ UNCHANGED <<status, identity, conn, ws_connections, shell, g_detached,
                 timers, admin>>

(* ssh_connect when every step of it works; when one fails it disconnects   *)
(* and nothing is left of it.                                               *)
ssh_connect(h) ==
  shell' = [shell EXCEPT ![h].running = TRUE, ![h].channel = "open"]

(* ssh_connect succeeded; remember_ssh_identity.                            *)
Connect(c) ==
  /\ io[c].pc = "connecting"
  /\ ssh_connect(c)
  /\ identity' = identity \cup {io[c].req}
  /\ IoGoes(c, "connected", io[c].req, None)
  /\ UNCHANGED <<status, conn, ws_connections, g_detached, timers, admin>>

(* connection->session_id = session_id: others can now find the shell.      *)
Register(c) ==
  /\ io[c].pc = "connected"
  /\ shell' = [shell EXCEPT ![c].session_id = io[c].req]
  /\ IoGoes(c, "registered", io[c].req, None)
  /\ UNCHANGED <<status, identity, conn, ws_connections, g_detached, timers,
                 admin>>

(* Under client_mutex: connection->client = &conn.                          *)
Attach(c) ==
  /\ io[c].pc = "registered"
  /\ shell' = [shell EXCEPT ![c].client = c]
  /\ IoGoes(c, "attached", io[c].req, None)
  /\ UNCHANGED <<status, identity, conn, ws_connections, g_detached, timers,
                 admin>>

(* Start the reader thread.                                                 *)
StartReader(c) ==
  /\ io[c].pc = "attached"
  /\ shell' = [shell EXCEPT ![c].reader = "reading"]
  /\ IoReturns(c)
  /\ UNCHANGED <<status, identity, conn, ws_connections, g_detached, timers,
                 admin>>

(* The page was reloaded or closed, or the server closed the websocket.     *)
Closes(c) == conn[c] \in {"open", "closing"} /\ io[c].pc = "idle"

(* onclose of a websocket that close_ssh_for_session already unregistered.  *)
OnCloseUnknown(c) ==
  /\ Closes(c) /\ ws_connections[c] = None
  /\ conn' = [conn EXCEPT ![c] = "gone"]
  /\ UNCHANGED <<status, identity, io, ws_connections, shell, g_detached,
                 timers, admin>>

Keep(h) == shell[h].session_id # None /\ shell[h].running /\ GraceOn

(* mutant: the shell keeps its pointer to the websocket                     *)
MutOnCloseKeep(c) ==
  LET h == ws_connections[c]
  IN /\ Closes(c) /\ h # None
     /\ Keep(h)
     /\ ws_connections' = [ws_connections EXCEPT ![c] = None]
     /\ IoGoes(c, "detaching", None, h)
     /\ UNCHANGED <<status, identity, conn, shell, g_detached, timers, admin>>

(* onclose: unregister the websocket and let go of the browser.  The shell  *)
(* runs, it will be kept for a grace period.                                *)
OnCloseKeep(c) ==
  LET h == ws_connections[c]
  IN /\ Closes(c) /\ h # None
     /\ Keep(h)
     /\ ws_connections' = [ws_connections EXCEPT ![c] = None]
     /\ shell' = [shell EXCEPT ![h].client = None]
     /\ IoGoes(c, "detaching", None, h)
     /\ UNCHANGED <<status, identity, conn, g_detached, timers, admin>>

(* onclose: the same, but nothing to keep: end the session, if the shell    *)
(* has one, and begin to disconnect the shell.                              *)
OnCloseEnd(c) ==
  LET h == ws_connections[c]
      s == shell[h].session_id
  IN /\ Closes(c) /\ h # None
     /\ ~Keep(h)
     /\ ws_connections' = [ws_connections EXCEPT ![c] = None]
     /\ IF s # None THEN terminate_session(s)
                    ELSE UNCHANGED <<status, identity>>
     /\ shell' = [shell EXCEPT ![h].client = None, ![h].running = FALSE]
     /\ IoGoes(c, "joining", None, h)
     /\ UNCHANGED <<conn, g_detached, timers, admin>>

(* onclose, under g_detached_mutex: g_detached[session_id] = connection.    *)
Detach(c) ==
  LET h == io[c].hand
  IN /\ io[c].pc = "detaching"
     /\ g_detached' = [g_detached EXCEPT ![shell[h].session_id] = h]
     /\ shell' = [shell EXCEPT ![h].detachments = @ + 1]
     /\ IoGoes(c, "detached", None, h)
     /\ UNCHANGED <<status, identity, conn, ws_connections, timers, admin>>

(* mutant: the timer is started for the session of the last request         *)
MutArmTimerSession(c) ==
  LET h == io[c].hand
  IN /\ io[c].pc = "detached"
     /\ timers' = timers \cup
          {[shell |-> h, session |-> io[c].req,
            nth |-> shell[h].detachments, state |-> "sleeping"]}
     /\ conn' = [conn EXCEPT ![c] = "gone"]
     /\ IoReturns(c)
     /\ UNCHANGED <<status, identity, ws_connections, shell, g_detached,
                    admin>>

(* mutant: a shell gets one timer in its life                               *)
MutArmTimerOnce(c) ==
  LET h == io[c].hand
  IN /\ io[c].pc = "detached"
     /\ timers' = IF shell[h].detachments > 1 THEN timers
                  ELSE timers \cup
                         {[shell |-> h, session |-> shell[h].session_id,
                           nth |-> 1, state |-> "sleeping"]}
     /\ conn' = [conn EXCEPT ![c] = "gone"]
     /\ IoReturns(c)
     /\ UNCHANGED <<status, identity, ws_connections, shell, g_detached,
                    admin>>

(* onclose: audit "session.detached", start the grace timer, return.        *)
ArmTimer(c) ==
  LET h == io[c].hand
  IN /\ io[c].pc = "detached"
     /\ timers' = timers \cup
          {[shell |-> h, session |-> shell[h].session_id,
            nth |-> shell[h].detachments, state |-> "sleeping"]}
     /\ conn' = [conn EXCEPT ![c] = "gone"]
     /\ IoReturns(c)
     /\ UNCHANGED <<status, identity, ws_connections, shell, g_detached,
                    admin>>

(* onclose: the end of ssh_disconnect, then return.                         *)
CloseJoin(c) ==
  /\ io[c].pc = "joining"
  /\ free_shell(io[c].hand)
  /\ conn' = [conn EXCEPT ![c] = "gone"]
  /\ IoReturns(c)
  /\ UNCHANGED <<status, identity, ws_connections, g_detached, timers, admin>>

-----------------------------------------------------------------------------
(* The reader thread of a shell                                            *)

(* The loop ends: running was cleared, or the remote closed the channel.    *)
ReadEnd(h) ==
  /\ shell[h].reader = "reading"
  /\ shell' = [shell EXCEPT ![h].reader = "stopping"]
  /\ UNCHANGED <<status, identity, conn, io, ws_connections, g_detached,
                 timers, admin>>

(* running = false; leave g_detached if the shell is the one in it.         *)
ReaderStop(h) ==
  LET s == shell[h].session_id
  IN /\ shell[h].reader = "stopping"
     /\ shell' = [shell EXCEPT ![h].reader = "terminating",
                               ![h].running = FALSE]
     /\ g_detached' = [g_detached EXCEPT ![s] = IF @ = h THEN None ELSE @]
     /\ UNCHANGED <<status, identity, conn, io, ws_connections, timers, admin>>

(* mutant: a shell that ends on its own leaves its session active           *)
MutReaderTerminate(h) ==
  /\ shell[h].reader = "terminating"
  /\ shell' = [shell EXCEPT ![h].reader = "telling"]
  /\ UNCHANGED <<status, identity, conn, io, ws_connections, g_detached,
                 timers, admin>>

(* terminate_session, whoever stopped the shell.                            *)
ReaderTerminate(h) ==
  /\ shell[h].reader = "terminating"
  /\ shell' = [shell EXCEPT ![h].reader = "telling"]
  /\ terminate_session(shell[h].session_id)
  /\ UNCHANGED <<conn, io, ws_connections, g_detached, timers, admin>>

(* conn.close(): the close frame is sent, onclose will follow.              *)
CloseSent(c) == [conn EXCEPT ![c] = IF @ = "open" THEN "closing" ELSE @]

(* Under client_mutex: tell the browser, close its websocket; thread ends.  *)
TellClient(h) ==
  LET c == shell[h].client
  IN /\ shell[h].reader = "telling"
     /\ conn' = IF c = None THEN conn ELSE CloseSent(c)
     /\ shell' = [shell EXCEPT ![h].reader = "done", ![h].client = None]
     /\ UNCHANGED <<status, identity, io, ws_connections, g_detached, timers,
                    admin>>

-----------------------------------------------------------------------------
(* A grace timer thread                                                    *)

TimerGoes(t, to) ==
  timers' = (timers \ {t}) \cup {[t EXCEPT !.state = to]}

(* mutant: the expired shell stays in g_detached                            *)
MutTimerExpire(t) ==
  /\ t.state = "sleeping"
  /\ g_detached[t.session] = t.shell
  /\ TimerGoes(t, "expired")
  /\ UNCHANGED <<status, identity, conn, io, ws_connections, shell,
                 g_detached, admin>>

(* The sleep is over and the shell is still the detached one of the session.*)
TimerExpire(t) ==
  /\ t.state = "sleeping"
  /\ g_detached[t.session] = t.shell
  /\ g_detached' = [g_detached EXCEPT ![t.session] = None]
  /\ TimerGoes(t, "expired")
  /\ UNCHANGED <<status, identity, conn, io, ws_connections, shell, admin>>

(* The sleep is over, the shell was resumed or has ended meanwhile.         *)
TimerReturn(t) ==
  /\ t.state = "sleeping"
  /\ g_detached[t.session] # t.shell
  /\ timers' = timers \ {t}
  /\ UNCHANGED <<status, identity, conn, io, ws_connections, shell,
                 g_detached, admin>>

(* terminate_session, and the beginning of ssh_disconnect.                  *)
TimerTerminate(t) ==
  /\ t.state = "expired"
  /\ terminate_session(t.session)
  /\ shell' = [shell EXCEPT ![t.shell].running = FALSE]
  /\ TimerGoes(t, "joining")
  /\ UNCHANGED <<conn, io, ws_connections, g_detached, admin>>

TimerJoin(t) ==
  /\ t.state = "joining"
  /\ free_shell(t.shell)
  /\ timers' = timers \ {t}
  /\ UNCHANGED <<status, identity, conn, io, ws_connections, g_detached,
                 admin>>

-----------------------------------------------------------------------------
(* POST /api/sessions/<id>/terminate and close_ssh_for_session              *)

(* An authorised request: terminate_session.                                *)
Terminate(a, s) ==
  /\ admin[a].state = "idle"
  /\ terminate_session(s)
  /\ admin' = [admin EXCEPT ![a].state = "collect", ![a].session = s]
  /\ UNCHANGED <<conn, io, ws_connections, shell, g_detached, timers>>

(* Under ws_mutex: unregister every websocket whose shell is the session's. *)
Collect(a) ==
  LET mine == {c \in Conns :
                 /\ ws_connections[c] # None
                 /\ shell[ws_connections[c]].session_id = admin[a].session}
  IN /\ admin[a].state = "collect"
     /\ ws_connections' = [c \in Conns |-> IF c \in mine THEN None
                                           ELSE ws_connections[c]]
     /\ admin' = [admin EXCEPT
                    ![a].state = "close",
                    ![a].todo = {<<c, ws_connections[c]>> : c \in mine}]
     /\ UNCHANGED <<status, identity, conn, io, shell, g_detached, timers>>

(* mutant: ssh_disconnect does not clear running                            *)
MutCloseNext(a) ==
  /\ admin[a].state = "close"
  /\ \E e \in admin[a].todo :
       /\ shell' = [shell EXCEPT ![e[2]].client = None]
       /\ admin' = [admin EXCEPT ![a].state = "joining", ![a].todo = @ \ {e},
                                 ![a].ws = e[1], ![a].shell = e[2]]
  /\ UNCHANGED <<status, identity, conn, io, ws_connections, g_detached,
                 timers>>

(* For each of them: client = nullptr, then ssh_disconnect ...              *)
CloseNext(a) ==
  /\ admin[a].state = "close"
  /\ \E e \in admin[a].todo :
       /\ shell' = [shell EXCEPT ![e[2]].client = None,
                                 ![e[2]].running = FALSE]
       /\ admin' = [admin EXCEPT ![a].state = "joining", ![a].todo = @ \ {e},
                                 ![a].ws = e[1], ![a].shell = e[2]]
  /\ UNCHANGED <<status, identity, conn, io, ws_connections, g_detached,
                 timers>>

(* ... and conn.close("terminated").                                        *)
CloseJoined(a) ==
  /\ admin[a].state = "joining"
  /\ free_shell(admin[a].shell)
  /\ conn' = CloseSent(admin[a].ws)
  /\ admin' = [admin EXCEPT ![a].state = "close", ![a].ws = None,
                            ![a].shell = None]
  /\ UNCHANGED <<status, identity, io, ws_connections, g_detached, timers>>

(* Under g_detached_mutex: no detached shell: the handler returns.          *)
CloseNone(a) ==
  /\ admin[a].state = "close" /\ admin[a].todo = {}
  /\ g_detached[admin[a].session] = None
  /\ admin' = [admin EXCEPT ![a] = IdleAdmin]
  /\ UNCHANGED <<status, identity, conn, io, ws_connections, shell,
                 g_detached, timers>>

(* mutant: the reader is joined without being told to stop                  *)
MutCloseDetached(a) ==
  LET d == g_detached[admin[a].session]
  IN /\ admin[a].state = "close" /\ admin[a].todo = {}
     /\ d # None
     /\ g_detached' = [g_detached EXCEPT ![admin[a].session] = None]
     /\ admin' = [admin EXCEPT ![a].state = "joindetached", ![a].shell = d]
     /\ UNCHANGED <<status, identity, conn, io, ws_connections, shell, timers>>

(* Under g_detached_mutex: take the detached shell; begin to disconnect it. *)
CloseDetached(a) ==
  LET d == g_detached[admin[a].session]
  IN /\ admin[a].state = "close" /\ admin[a].todo = {}
     /\ d # None
     /\ g_detached' = [g_detached EXCEPT ![admin[a].session] = None]
     /\ admin' = [admin EXCEPT ![a].state = "joindetached", ![a].shell = d]
     /\ shell' = [shell EXCEPT ![d].running = FALSE]
     /\ UNCHANGED <<status, identity, conn, io, ws_connections, timers>>

JoinDetached(a) ==
  /\ admin[a].state = "joindetached"
  /\ free_shell(admin[a].shell)
  /\ admin' = [admin EXCEPT ![a] = IdleAdmin]
  /\ UNCHANGED <<status, identity, conn, io, ws_connections, g_detached,
                 timers>>

-----------------------------------------------------------------------------
IoNext(c) ==
  \/ OnOpen(c) \/ \E s \in Sessions : Start(c, s)
  \/ TakeDetached(c) \/ RefuseResume(c) \/ NothingDetached(c)
  \/ ResumeRegister(c) \/ ResumeReplay(c)
  \/ ConnectFail(c) \/ Connect(c) \/ Register(c) \/ Attach(c)
  \/ StartReader(c)
  \/ OnCloseUnknown(c) \/ OnCloseKeep(c) \/ OnCloseEnd(c)
  \/ Detach(c) \/ ArmTimer(c) \/ CloseJoin(c)

ReaderNext(h) ==
  \/ ReadEnd(h) \/ ReaderStop(h)
  \/ ReaderTerminate(h) \/ TellClient(h)

TimerNext(t) ==
  \/ TimerExpire(t) \/ TimerReturn(t) \/ TimerTerminate(t) \/ TimerJoin(t)

AdminNext(a) ==
  \/ \E s \in Sessions : Terminate(a, s)
  \/ Collect(a) \/ CloseNext(a) \/ CloseJoined(a)
  \/ CloseNone(a) \/ CloseDetached(a) \/ JoinDetached(a)

Next ==
  \/ \E c \in Conns : IoNext(c)
  \/ \E h \in Shells : ReaderNext(h)
  \/ \E t \in timers : TimerNext(t)
  \/ \E a \in Admins : AdminNext(a)

Spec == Init /\ [][Next]_vars

(* Threads go on once they run: the handlers of a websocket finish, a       *)
(* websocket that was closed gets its onclose, a reader told to stop (or    *)
(* past its loop) ends, a sleeping timer wakes up, a terminate request is    *)
(* served to its end.  Nothing is assumed of users, of the remote host or   *)
(* of the order of threads.                                                 *)
Fairness ==
  /\ \A c \in Conns :
       /\ WF_vars(io[c].pc # "idle" /\ IoNext(c))
       /\ WF_vars(/\ conn[c] = "closing"
                  /\ OnCloseUnknown(c) \/ OnCloseKeep(c) \/ OnCloseEnd(c))
  /\ \A h \in Shells :
       /\ WF_vars(/\ ~(shell[h].reader = "reading" /\ shell[h].running)
                  /\ ReaderNext(h))
       /\ \A n \in 1..Cardinality(Conns) :
            WF_vars(\E t \in timers :
                      t.shell = h /\ t.nth = n /\ TimerNext(t))
  /\ \A a \in Admins : WF_vars(admin[a].state # "idle" /\ AdminNext(a))

FairSpec == Spec /\ Fairness

-----------------------------------------------------------------------------
(* Correctness                                                             *)

TypeOK ==
  /\ status \in [Sessions -> {"active", "terminated"}]
  /\ identity \subseteq Sessions
  /\ conn \in [Conns -> {"new", "open", "closing", "gone"}]
  /\ io \in [Conns -> IoThread]
  /\ ws_connections \in [Conns -> OrNone(Shells)]
  /\ shell \in [Shells -> SshConnection]
  /\ g_detached \in [Sessions -> OrNone(Shells)]
  /\ timers \subseteq Timer
  /\ admin \in [Admins -> AdminThread]

(* The places that answer for a shell: the entry of a websocket, the entry  *)
(* of g_detached, or the thread that took it out of one of the two.         *)
InHand == {"resuming", "detaching", "joining"}
WsOwners(h) == {<<"ws", c>> : c \in {c \in Conns : ws_connections[c] = h}}
DetachedOwners(h) ==
  {<<"detached", s>> : s \in {s \in Sessions : g_detached[s] = h}}
IoOwners(h) ==
  {<<"io", c>> : c \in {c \in Conns : io[c].pc \in InHand /\ io[c].hand = h}}
TimerOwners(h) ==
  {<<"timer", t>> : t \in {t \in timers : t.state # "sleeping" /\ t.shell = h}}
TodoOwners(h) ==
  UNION {{<<"todo", a, c>> : c \in {c \in Conns : <<c, h>> \in admin[a].todo}}
         : a \in Admins}
AdminOwners(h) == {<<"admin", a>> : a \in {a \in Admins : admin[a].shell = h}}

Owners(h) ==
  UNION {WsOwners(h), DetachedOwners(h), IoOwners(h), TimerOwners(h),
         TodoOwners(h), AdminOwners(h)}

(* A shell has at most one owner at any time.  ssh_disconnect joins the      *)
(* reader and frees the channel without a lock ("Safe from any thread"):    *)
(* that is only sound because whoever calls it took the shell out of        *)
(* ws_connections or g_detached first, so no two threads ever disconnect,   *)
(* resume or expire the same shell.                                         *)
OneOwner == \A h \in Shells : \A p, q \in Owners(h) : p = q

(* While the reader of a shell is in its read loop and was not told to      *)
(* stop, its channel is open: nobody frees it under the reader.             *)
ReaderHasChannel ==
  \A h \in Shells :
    shell[h].reader = "reading" /\ shell[h].running
      => shell[h].channel = "open"

(* Whoever waits in ssh_disconnect for the reader of a shell waits for one  *)
(* that was told to stop, and that no late ssh_connect or resume tells to   *)
(* run again: the join of onclose, of a grace timer and of a terminate      *)
(* request all end.                                                         *)
JoinedIsStopped ==
  /\ \A c \in Conns : io[c].pc = "joining" => ~shell[io[c].hand].running
  /\ \A t \in timers : t.state = "joining" => ~shell[t.shell].running
  /\ \A a \in Admins : admin[a].state \in {"joining", "joindetached"}
                         => ~shell[admin[a].shell].running

(* ssh_disconnect is orderly: the channel is open as long as the reader may *)
(* read from it, and nobody waits for a reader that would go on reading.    *)
OrderlyEnd == ReaderHasChannel /\ JoinedIsStopped

(* Only a websocket of the account that opened a shell is ever attached to  *)
(* it, and that user is the owner of the session.                           *)
SameAccount ==
  \A h \in Shells : LET c == shell[h].client IN c # None =>
    /\ AccountOf[c] = AccountOf[h]
    /\ UserOf[c] = Owner[shell[h].session_id]

(* Every detached shell has a grace timer that will find it: one that       *)
(* sleeps, or the onclose handler that is about to start it.  Without it    *)
(* the shell would wait forever for a page that never comes back.           *)
EntryHasTimer ==
  \A s \in Sessions : LET h == g_detached[s] IN h # None =>
    \/ \E t \in timers : t.state = "sleeping" /\ t.shell = h /\ t.session = s
    \/ \E c \in Conns : io[c].pc = "detached" /\ io[c].hand = h

(* A detached shell holds no browser, and it belongs to the session it is   *)
(* filed under.                                                             *)
DetachedAlone ==
  \A s \in Sessions : g_detached[s] # None =>
    /\ shell[g_detached[s]].client = None
    /\ shell[g_detached[s]].session_id = s

(* A terminate request and a grace timer only ever hold shells of their own *)
(* session: ending one session never disconnects a shell of another.        *)
OwnSession ==
  /\ \A a \in Admins :
       /\ \A e \in admin[a].todo : shell[e[2]].session_id = admin[a].session
       /\ admin[a].shell # None =>
            shell[admin[a].shell].session_id = admin[a].session
  /\ \A t \in timers : shell[t.shell].session_id = t.session

(* Whoever holds a shell holds the right one: a websocket one of its own    *)
(* account and of a session it owns, a terminate request and a grace timer  *)
(* one of their session, never one of another session or of none yet.       *)
RightShell == SameAccount /\ OwnSession

(* g_detached holds shells that wait alone, under their own session, for a  *)
(* timer that will find them.                                               *)
DetachedTable == EntryHasTimer /\ DetachedAlone

(* A shell in g_detached leaves it: resumed, expired or ended.              *)
DetachedLeaves ==
  \A s \in Sessions : g_detached[s] # None ~> g_detached[s] = None

(* A terminate request is answered: joining the readers never blocks it.    *)
TerminateReturns ==
  \A a \in Admins : admin[a].state # "idle" ~> admin[a].state = "idle"

(* A reader that left its loop ends its session and lets its browser go.    *)
EndedShellEndsSession ==
  \A h \in Shells : shell[h].reader = "stopping" ~>
    /\ shell[h].reader = "done" /\ shell[h].client = None
    /\ status[shell[h].session_id] = "terminated"

-----------------------------------------------------------------------------
(* What the comments in the code promise and the code does not keep         *)

(* A detached shell waits its whole grace period (ssh.cc: "how long a       *)
(* detached shell waits"): the timer that expires it is the one its latest  *)
(* detachment started.                                                      *)
FullGrace ==
  \A t \in timers : t.state = "expired" => t.nth = shell[t.shell].detachments

(* A shell that runs can be reached: some websocket, g_detached or thread   *)
(* answers for it, so that it can be resumed, expired or terminated.        *)
NoOrphan ==
  \A h \in Shells :
    shell[h].reader = "reading" /\ shell[h].running => Owners(h) # {}

(* The SSH password of a session is in memory only while the session is     *)
(* active (app_context.h: "for as long as the session is active").          *)
IdentityOnlyWhileActive == \A s \in identity : status[s] = "active"
=============================================================================
