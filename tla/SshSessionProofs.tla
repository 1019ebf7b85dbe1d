-------------------------- MODULE SshSessionProofs --------------------------
(***************************************************************************)
(* Proofs about SshSession, for every set of sessions, websockets and      *)
(* administrators and every assignment of users and accounts: types, who   *)
(* may disconnect a shell, and who may hold one.                           *)
(***************************************************************************)
EXTENDS SshSession, TLAPS

-----------------------------------------------------------------------------
(***************************************************************************)
(* Types in SshSession, for every set of sessions, websockets and          *)
(* administrators.  TypeOK is not inductive alone: a handler writes where  *)
(* the shell, the session or the websocket it holds tells it to, so Typing *)
(* adds what each thread holds at each point of its handler (Holding).     *)
(***************************************************************************)

(* What the handlers hold where they are.                                   *)
Holding ==
  /\ \A c \in Conns :
       /\ io[c].pc \in {"checked", "connecting", "connected", "registered",
                        "attached"} => io[c].req \in Sessions
       /\ io[c].pc \in {"resuming", "replaying", "detaching", "detached",
                        "joining"} => io[c].hand \in Shells
       /\ io[c].pc \in {"detaching", "detached"} =>
            shell[io[c].hand].session_id \in Sessions
  /\ \A a \in Admins :
       /\ admin[a].state # "idle" => admin[a].session \in Sessions
       /\ admin[a].state \in {"joining", "joindetached"} =>
            admin[a].shell \in Shells
       /\ admin[a].state = "joining" => admin[a].ws \in Conns

Typing == TypeOK /\ Holding

USE DEF Shells, OrNone, ssh_connect

(* Typing holds when the program starts.                                    *)
LEMMA InitTyping == Init => Typing
  BY ConstAssumption
  DEF Init, Typing, TypeOK, Holding, IoThread, SshConnection, AdminThread,
      IdleAdmin

(* A step that writes one shell, and not the session of it, keeps the types *)
(* of the shells and what session each of them is of.                       *)
LEMMA ShellWritten ==
  ASSUME shell \in [Shells -> SshConnection], NEW h \in Shells,
         NEW r \in SshConnection, r.session_id = shell[h].session_id,
         shell' = [shell EXCEPT ![h] = r]
  PROVE  /\ shell' \in [Shells -> SshConnection]
         /\ \A k \in Shells : shell'[k].session_id = shell[k].session_id
  OBVIOUS

(* A step that writes the thread of one request keeps the types of all.     *)
LEMMA AdminWritten ==
  ASSUME admin \in [Admins -> AdminThread], NEW a \in Admins,
         NEW r \in AdminThread, admin' = [admin EXCEPT ![a] = r]
  PROVE  admin' \in [Admins -> AdminThread]
  OBVIOUS

(* Every step keeps the types and what the threads hold.                    *)
LEMMA NextTyping == Typing /\ [Next]_vars => Typing'
<1> SUFFICES ASSUME Typing, [Next]_vars PROVE Typing'
  OBVIOUS
<1> USE ConstAssumption
<1>s. shell \in [Shells -> SshConnection]
  BY DEF Typing, TypeOK
<1>a. admin \in [Admins -> AdminThread]
  BY DEF Typing, TypeOK
<1>1. ASSUME NEW c \in Conns, OnOpen(c) PROVE Typing'
  BY <1>1 DEF OnOpen,
      Typing, TypeOK, Holding, IoThread, SshConnection, Timer, AdminThread
<1>2. ASSUME NEW c \in Conns, TakeDetached(c) PROVE Typing'
  BY <1>2 DEF TakeDetached, IoGoes, Resumable,
      Typing, TypeOK, Holding, IoThread, SshConnection, Timer, AdminThread
<1>3. ASSUME NEW c \in Conns, RefuseResume(c) PROVE Typing'
  BY <1>3 DEF RefuseResume, IoReturns, IoGoes,
      Typing, TypeOK, Holding, IoThread, SshConnection, Timer, AdminThread
<1>4. ASSUME NEW c \in Conns, NothingDetached(c) PROVE Typing'
  BY <1>4 DEF NothingDetached, IoGoes,
      Typing, TypeOK, Holding, IoThread, SshConnection, Timer, AdminThread
<1>5. ASSUME NEW c \in Conns, ResumeRegister(c) PROVE Typing'
  BY <1>5 DEF ResumeRegister, IoGoes,
      Typing, TypeOK, Holding, IoThread, SshConnection, Timer, AdminThread
<1>6. ASSUME NEW c \in Conns, ResumeReplay(c) PROVE Typing'
  <2>h. io[c].hand \in Shells /\ shell[io[c].hand] \in SshConnection
    BY <1>6, <1>s DEF ResumeReplay, Typing, Holding
  <2>d. DOMAIN shell = Shells
    BY <1>s
  <2> DEFINE r == [shell[io[c].hand] EXCEPT !.client = c]
  <2>r. r \in SshConnection /\ r.session_id = shell[io[c].hand].session_id
    BY <2>h DEF SshConnection
  <2>e. shell' = [shell EXCEPT ![io[c].hand] = r]
    BY <1>6, <2>h, <2>d, Zenon DEF ResumeReplay
  <2> HIDE DEF r
  <2>1. shell' \in [Shells -> SshConnection]
    BY <1>s, <2>h, <2>r, <2>e, ShellWritten
  <2>2. \A k \in Shells : shell'[k].session_id = shell[k].session_id
    BY <1>s, <2>h, <2>r, <2>e, ShellWritten
  <2>3. TypeOK'
    BY <1>6, <2>1, <2>2 DEF Typing, TypeOK, Holding,
      ResumeReplay, IoReturns, IoGoes, IoThread, AdminThread, Timer
  <2>4. Holding'
    BY <1>6, <2>1, <2>2 DEF Typing, TypeOK, Holding,
      ResumeReplay, IoReturns, IoGoes, IoThread, AdminThread
  <2> QED BY <2>3, <2>4 DEF Typing
<1>7. ASSUME NEW c \in Conns, ConnectFail(c) PROVE Typing'
  BY <1>7 DEF ConnectFail, IoReturns, IoGoes,
      Typing, TypeOK, Holding, IoThread, SshConnection, Timer, AdminThread
<1>8. ASSUME NEW c \in Conns, Connect(c) PROVE Typing'
  <2>h. c \in Shells /\ shell[c] \in SshConnection
    BY <1>8, <1>s DEF Connect
  <2>d. DOMAIN shell = Shells
    BY <1>s
  <2> DEFINE r == [shell[c] EXCEPT !.running = TRUE, !.channel = "open"]
  <2>r. r \in SshConnection /\ r.session_id = shell[c].session_id
    BY <2>h DEF SshConnection
  <2>e. shell' = [shell EXCEPT ![c] = r]
    BY <1>8, <2>h, <2>d, Zenon DEF Connect
  <2> HIDE DEF r
  <2>1. shell' \in [Shells -> SshConnection]
    BY <1>s, <2>h, <2>r, <2>e, ShellWritten
  <2>2. \A k \in Shells : shell'[k].session_id = shell[k].session_id
    BY <1>s, <2>h, <2>r, <2>e, ShellWritten
  <2>3. TypeOK'
    BY <1>8, <2>1, <2>2 DEF Typing, TypeOK, Holding,
      Connect, IoGoes, IoThread, AdminThread, Timer
  <2>4. Holding'
    BY <1>8, <2>1, <2>2 DEF Typing, TypeOK, Holding,
      Connect, IoGoes, IoThread, AdminThread
  <2> QED BY <2>3, <2>4 DEF Typing
<1>9. ASSUME NEW c \in Conns, Register(c) PROVE Typing'
  <2>h. /\ shell[c] \in SshConnection /\ DOMAIN shell = Shells
        /\ io[c].req \in Sessions
    BY <1>9, <1>s DEF Register, Typing, Holding
  <2> DEFINE r == [shell[c] EXCEPT !.session_id = io[c].req]
  <2>r. r \in SshConnection /\ r.session_id = io[c].req
    BY <2>h DEF SshConnection
  <2>e. shell' = [shell EXCEPT ![c] = r]
    BY <1>9, <2>h, Zenon DEF Register
  <2> HIDE DEF r
  <2>1. shell' \in [Shells -> SshConnection]
    BY <1>s, <2>r, <2>e
  <2>2. \A k \in Shells : shell'[k].session_id =
                             IF k = c THEN io[c].req ELSE shell[k].session_id
    BY <1>s, <2>r, <2>e
  <2>3. TypeOK'
    BY <1>9, <2>h, <2>1, <2>2 DEF Typing, TypeOK, Holding,
      Register, IoGoes, IoThread, AdminThread, Timer
  <2>4. Holding'
    BY <1>9, <2>h, <2>1, <2>2 DEF Typing, TypeOK, Holding,
      Register, IoGoes, IoThread, AdminThread
  <2> QED BY <2>3, <2>4 DEF Typing
<1>10. ASSUME NEW c \in Conns, Attach(c) PROVE Typing'
  <2>h. c \in Shells /\ shell[c] \in SshConnection
    BY <1>10, <1>s DEF Attach
  <2>d. DOMAIN shell = Shells
    BY <1>s
  <2> DEFINE r == [shell[c] EXCEPT !.client = c]
  <2>r. r \in SshConnection /\ r.session_id = shell[c].session_id
    BY <2>h DEF SshConnection
  <2>e. shell' = [shell EXCEPT ![c] = r]
    BY <1>10, <2>h, <2>d, Zenon DEF Attach
  <2> HIDE DEF r
  <2>1. shell' \in [Shells -> SshConnection]
    BY <1>s, <2>h, <2>r, <2>e, ShellWritten
  <2>2. \A k \in Shells : shell'[k].session_id = shell[k].session_id
    BY <1>s, <2>h, <2>r, <2>e, ShellWritten
  <2>3. TypeOK'
    BY <1>10, <2>1, <2>2 DEF Typing, TypeOK, Holding,
      Attach, IoGoes, IoThread, AdminThread, Timer
  <2>4. Holding'
    BY <1>10, <2>1, <2>2 DEF Typing, TypeOK, Holding,
      Attach, IoGoes, IoThread, AdminThread
  <2> QED BY <2>3, <2>4 DEF Typing
<1>11. ASSUME NEW c \in Conns, StartReader(c) PROVE Typing'
  <2>h. c \in Shells /\ shell[c] \in SshConnection
    BY <1>11, <1>s DEF StartReader
  <2>d. DOMAIN shell = Shells
    BY <1>s
  <2> DEFINE r == [shell[c] EXCEPT !.reader = "reading"]
  <2>r. r \in SshConnection /\ r.session_id = shell[c].session_id
    BY <2>h DEF SshConnection
  <2>e. shell' = [shell EXCEPT ![c] = r]
    BY <1>11, <2>h, <2>d, Zenon DEF StartReader
  <2> HIDE DEF r
  <2>1. shell' \in [Shells -> SshConnection]
    BY <1>s, <2>h, <2>r, <2>e, ShellWritten
  <2>2. \A k \in Shells : shell'[k].session_id = shell[k].session_id
    BY <1>s, <2>h, <2>r, <2>e, ShellWritten
  <2>3. TypeOK'
    BY <1>11, <2>1, <2>2 DEF Typing, TypeOK, Holding,
      StartReader, IoReturns, IoGoes, IoThread, AdminThread, Timer
  <2>4. Holding'
    BY <1>11, <2>1, <2>2 DEF Typing, TypeOK, Holding,
      StartReader, IoReturns, IoGoes, IoThread, AdminThread
  <2> QED BY <2>3, <2>4 DEF Typing
<1>12. ASSUME NEW c \in Conns, OnCloseUnknown(c) PROVE Typing'
  BY <1>12 DEF OnCloseUnknown,
      Typing, TypeOK, Holding, IoThread, SshConnection, Timer, AdminThread
<1>13. ASSUME NEW c \in Conns, OnCloseKeep(c) PROVE Typing'
  <2>h. /\ ws_connections[c] \in Shells
        /\ shell[ws_connections[c]] \in SshConnection
    BY <1>13, <1>s DEF OnCloseKeep, Typing, TypeOK
  <2>d. DOMAIN shell = Shells
    BY <1>s
  <2> DEFINE r == [shell[ws_connections[c]] EXCEPT !.client = None]
  <2>r. /\ r \in SshConnection
        /\ r.session_id = shell[ws_connections[c]].session_id
    BY <2>h DEF SshConnection
  <2>e. shell' = [shell EXCEPT ![ws_connections[c]] = r]
    BY <1>13, <2>h, <2>d, Zenon DEF OnCloseKeep
  <2> HIDE DEF r
  <2>1. shell' \in [Shells -> SshConnection]
    BY <1>s, <2>h, <2>r, <2>e, ShellWritten
  <2>2. \A k \in Shells : shell'[k].session_id = shell[k].session_id
    BY <1>s, <2>h, <2>r, <2>e, ShellWritten
  <2>3. TypeOK'
    BY <1>13, <2>1, <2>2 DEF Typing, TypeOK, Holding,
      OnCloseKeep, Keep, IoGoes, IoThread, AdminThread, Timer
  <2>4. Holding'
    <3>1. shell[ws_connections[c]].session_id \in Sessions
      BY <1>13, <2>h DEF OnCloseKeep, Keep, SshConnection
    <3>2. \A k \in Conns :
            io'[k] = IF k = c THEN [pc |-> "detaching", req |-> None,
                                    hand |-> ws_connections[c]]
                     ELSE io[k]
      BY <1>13 DEF OnCloseKeep, IoGoes, Typing, TypeOK
    <3>3. admin' = admin
      BY <1>13 DEF OnCloseKeep
    <3> QED BY <2>h, <2>2, <3>1, <3>2, <3>3
            DEF Typing, TypeOK, Holding, IoThread
  <2> QED BY <2>3, <2>4 DEF Typing
<1>14. ASSUME NEW c \in Conns, OnCloseEnd(c) PROVE Typing'
  <2>h. /\ ws_connections[c] \in Shells
        /\ shell[ws_connections[c]] \in SshConnection
    BY <1>14, <1>s DEF OnCloseEnd, Typing, TypeOK
  <2>d. DOMAIN shell = Shells
    BY <1>s
  <2> DEFINE r == [shell[ws_connections[c]] EXCEPT
                     !.client = None, !.running = FALSE]
  <2>r. /\ r \in SshConnection
        /\ r.session_id = shell[ws_connections[c]].session_id
    BY <2>h DEF SshConnection
  <2>e. shell' = [shell EXCEPT ![ws_connections[c]] = r]
    BY <1>14, <2>h, <2>d, Zenon DEF OnCloseEnd
  <2> HIDE DEF r
  <2>1. shell' \in [Shells -> SshConnection]
    BY <1>s, <2>h, <2>r, <2>e, ShellWritten
  <2>2. \A k \in Shells : shell'[k].session_id = shell[k].session_id
    BY <1>s, <2>h, <2>r, <2>e, ShellWritten
  <2>3. TypeOK'
    BY <1>14, <2>1, <2>2 DEF Typing, TypeOK, Holding,
      OnCloseEnd, terminate_session, IoGoes, IoThread, AdminThread, Timer
  <2>4. Holding'
    BY <1>14, <2>1, <2>2 DEF Typing, TypeOK, Holding,
      OnCloseEnd, terminate_session, IoGoes, IoThread, AdminThread
  <2> QED BY <2>3, <2>4 DEF Typing
<1>15. ASSUME NEW c \in Conns, Detach(c) PROVE Typing'
  <2>h. io[c].hand \in Shells /\ shell[io[c].hand] \in SshConnection
    BY <1>15, <1>s DEF Detach, Typing, Holding
  <2>d. DOMAIN shell = Shells
    BY <1>s
  <2> DEFINE r == [shell[io[c].hand] EXCEPT !.detachments = @ + 1]
  <2>r. r \in SshConnection /\ r.session_id = shell[io[c].hand].session_id
    BY <2>h DEF SshConnection
  <2>e. shell' = [shell EXCEPT ![io[c].hand] = r]
    BY <1>15, <2>h, <2>d, Zenon DEF Detach
  <2> HIDE DEF r
  <2>1. shell' \in [Shells -> SshConnection]
    BY <1>s, <2>h, <2>r, <2>e, ShellWritten
  <2>2. \A k \in Shells : shell'[k].session_id = shell[k].session_id
    BY <1>s, <2>h, <2>r, <2>e, ShellWritten
  <2>3. TypeOK'
    BY <1>15, <2>1, <2>2 DEF Typing, TypeOK, Holding,
      Detach, IoGoes, IoThread, AdminThread, Timer
  <2>4. Holding'
    BY <1>15, <2>1, <2>2 DEF Typing, TypeOK, Holding,
      Detach, IoGoes, IoThread, AdminThread
  <2> QED BY <2>3, <2>4 DEF Typing
<1>16. ASSUME NEW c \in Conns, ArmTimer(c) PROVE Typing'
  BY <1>16 DEF ArmTimer, IoReturns, IoGoes,
      Typing, TypeOK, Holding, IoThread, SshConnection, Timer, AdminThread
<1>17. ASSUME NEW c \in Conns, CloseJoin(c) PROVE Typing'
  <2>h. io[c].hand \in Shells /\ shell[io[c].hand] \in SshConnection
    BY <1>17, <1>s DEF CloseJoin, Typing, Holding
  <2>d. DOMAIN shell = Shells
    BY <1>s
  <2> DEFINE r == [shell[io[c].hand] EXCEPT
                     !.channel = IF @ = "open" THEN "freed" ELSE @]
  <2>r. r \in SshConnection /\ r.session_id = shell[io[c].hand].session_id
    BY <2>h DEF SshConnection
  <2>e. shell' = [shell EXCEPT ![io[c].hand] = r]
    BY <1>17, <2>h, <2>d, Zenon DEF CloseJoin, free_shell
  <2> HIDE DEF r
  <2>1. shell' \in [Shells -> SshConnection]
    BY <1>s, <2>h, <2>r, <2>e, ShellWritten
  <2>2. \A k \in Shells : shell'[k].session_id = shell[k].session_id
    BY <1>s, <2>h, <2>r, <2>e, ShellWritten
  <2>3. TypeOK'
    BY <1>17, <2>1, <2>2 DEF Typing, TypeOK, Holding,
      CloseJoin, free_shell, IoReturns, IoGoes, IoThread, AdminThread, Timer
  <2>4. Holding'
    BY <1>17, <2>1, <2>2 DEF Typing, TypeOK, Holding,
      CloseJoin, free_shell, IoReturns, IoGoes, IoThread, AdminThread
  <2> QED BY <2>3, <2>4 DEF Typing
<1>18. ASSUME NEW c \in Conns, NEW s \in Sessions, Start(c, s) PROVE Typing'
  BY <1>18 DEF Start, IoGoes,
      Typing, TypeOK, Holding, IoThread, SshConnection, Timer, AdminThread
<1>19. ASSUME NEW h \in Shells, ReadEnd(h) PROVE Typing'
  <2>h. h \in Shells /\ shell[h] \in SshConnection
    BY <1>19, <1>s DEF ReadEnd
  <2>d. DOMAIN shell = Shells
    BY <1>s
  <2> DEFINE r == [shell[h] EXCEPT !.reader = "stopping"]
  <2>r. r \in SshConnection /\ r.session_id = shell[h].session_id
    BY <2>h DEF SshConnection
  <2>e. shell' = [shell EXCEPT ![h] = r]
    BY <1>19, <2>h, <2>d, Zenon DEF ReadEnd
  <2> HIDE DEF r
  <2>1. shell' \in [Shells -> SshConnection]
    BY <1>s, <2>h, <2>r, <2>e, ShellWritten
  <2>2. \A k \in Shells : shell'[k].session_id = shell[k].session_id
    BY <1>s, <2>h, <2>r, <2>e, ShellWritten
  <2>3. TypeOK'
    BY <1>19, <2>1, <2>2 DEF Typing, TypeOK, Holding,
      ReadEnd, IoThread, AdminThread, Timer
  <2>4. Holding'
    BY <1>19, <2>1, <2>2 DEF Typing, TypeOK, Holding,
      ReadEnd, IoThread, AdminThread
  <2> QED BY <2>3, <2>4 DEF Typing
<1>20. ASSUME NEW h \in Shells, ReaderStop(h) PROVE Typing'
  <2>h. h \in Shells /\ shell[h] \in SshConnection
    BY <1>20, <1>s DEF ReaderStop
  <2>d. DOMAIN shell = Shells
    BY <1>s
  <2> DEFINE r == [shell[h] EXCEPT !.reader = "terminating", !.running = FALSE]
  <2>r. r \in SshConnection /\ r.session_id = shell[h].session_id
    BY <2>h DEF SshConnection
  <2>e. shell' = [shell EXCEPT ![h] = r]
    BY <1>20, <2>h, <2>d, Zenon DEF ReaderStop
  <2> HIDE DEF r
  <2>1. shell' \in [Shells -> SshConnection]
    BY <1>s, <2>h, <2>r, <2>e, ShellWritten
  <2>2. \A k \in Shells : shell'[k].session_id = shell[k].session_id
    BY <1>s, <2>h, <2>r, <2>e, ShellWritten
  <2>3. TypeOK'
    BY <1>20, <2>1, <2>2 DEF Typing, TypeOK, Holding,
      ReaderStop, IoThread, AdminThread, Timer
  <2>4. Holding'
    BY <1>20, <2>1, <2>2 DEF Typing, TypeOK, Holding,
      ReaderStop, IoThread, AdminThread
  <2> QED BY <2>3, <2>4 DEF Typing
<1>21. ASSUME NEW h \in Shells, ReaderTerminate(h) PROVE Typing'
  <2>h. h \in Shells /\ shell[h] \in SshConnection
    BY <1>21, <1>s DEF ReaderTerminate
  <2>d. DOMAIN shell = Shells
    BY <1>s
  <2> DEFINE r == [shell[h] EXCEPT !.reader = "telling"]
  <2>r. r \in SshConnection /\ r.session_id = shell[h].session_id
    BY <2>h DEF SshConnection
  <2>e. shell' = [shell EXCEPT ![h] = r]
    BY <1>21, <2>h, <2>d, Zenon DEF ReaderTerminate
  <2> HIDE DEF r
  <2>1. shell' \in [Shells -> SshConnection]
    BY <1>s, <2>h, <2>r, <2>e, ShellWritten
  <2>2. \A k \in Shells : shell'[k].session_id = shell[k].session_id
    BY <1>s, <2>h, <2>r, <2>e, ShellWritten
  <2>3. TypeOK'
    BY <1>21, <2>1, <2>2 DEF Typing, TypeOK, Holding,
      ReaderTerminate, terminate_session, IoThread, AdminThread, Timer
  <2>4. Holding'
    BY <1>21, <2>1, <2>2 DEF Typing, TypeOK, Holding,
      ReaderTerminate, terminate_session, IoThread, AdminThread
  <2> QED BY <2>3, <2>4 DEF Typing
<1>22. ASSUME NEW h \in Shells, TellClient(h) PROVE Typing'
  <2>h. h \in Shells /\ shell[h] \in SshConnection
    BY <1>22, <1>s DEF TellClient
  <2>d. DOMAIN shell = Shells
    BY <1>s
  <2> DEFINE r == [shell[h] EXCEPT !.reader = "done", !.client = None]
  <2>r. r \in SshConnection /\ r.session_id = shell[h].session_id
    BY <2>h DEF SshConnection
  <2>e. shell' = [shell EXCEPT ![h] = r]
    BY <1>22, <2>h, <2>d, Zenon DEF TellClient
  <2> HIDE DEF r
  <2>1. shell' \in [Shells -> SshConnection]
    BY <1>s, <2>h, <2>r, <2>e, ShellWritten
  <2>2. \A k \in Shells : shell'[k].session_id = shell[k].session_id
    BY <1>s, <2>h, <2>r, <2>e, ShellWritten
  <2>3. TypeOK'
    BY <1>22, <2>1, <2>2 DEF Typing, TypeOK, Holding,
      TellClient, CloseSent, IoThread, AdminThread, Timer
  <2>4. Holding'
    BY <1>22, <2>1, <2>2 DEF Typing, TypeOK, Holding,
      TellClient, CloseSent, IoThread, AdminThread
  <2> QED BY <2>3, <2>4 DEF Typing
<1>23. ASSUME NEW t \in timers, TimerExpire(t) PROVE Typing'
  BY <1>23 DEF TimerExpire, TimerGoes,
      Typing, TypeOK, Holding, IoThread, SshConnection, Timer, AdminThread
<1>24. ASSUME NEW t \in timers, TimerReturn(t) PROVE Typing'
  BY <1>24 DEF TimerReturn,
      Typing, TypeOK, Holding, IoThread, SshConnection, Timer, AdminThread
<1>25. ASSUME NEW t \in timers, TimerTerminate(t) PROVE Typing'
  <2>h. t.shell \in Shells /\ shell[t.shell] \in SshConnection
    BY <1>25, <1>s DEF TimerTerminate, Typing, TypeOK, Timer
  <2>d. DOMAIN shell = Shells
    BY <1>s
  <2> DEFINE r == [shell[t.shell] EXCEPT !.running = FALSE]
  <2>r. r \in SshConnection /\ r.session_id = shell[t.shell].session_id
    BY <2>h DEF SshConnection
  <2>e. shell' = [shell EXCEPT ![t.shell] = r]
    BY <1>25, <2>h, <2>d, Zenon DEF TimerTerminate
  <2> HIDE DEF r
  <2>1. shell' \in [Shells -> SshConnection]
    BY <1>s, <2>h, <2>r, <2>e, ShellWritten
  <2>2. \A k \in Shells : shell'[k].session_id = shell[k].session_id
    BY <1>s, <2>h, <2>r, <2>e, ShellWritten
  <2>3. TypeOK'
    BY <1>25, <2>1, <2>2 DEF Typing, TypeOK, Holding,
      TimerTerminate, TimerGoes, terminate_session, IoThread, AdminThread,
      Timer
  <2>4. Holding'
    BY <1>25, <2>1, <2>2 DEF Typing, TypeOK, Holding,
      TimerTerminate, TimerGoes, terminate_session, IoThread, AdminThread
  <2> QED BY <2>3, <2>4 DEF Typing
<1>26. ASSUME NEW t \in timers, TimerJoin(t) PROVE Typing'
  <2>h. t.shell \in Shells /\ shell[t.shell] \in SshConnection
    BY <1>26, <1>s DEF TimerJoin, Typing, TypeOK, Timer
  <2>d. DOMAIN shell = Shells
    BY <1>s
  <2> DEFINE r == [shell[t.shell] EXCEPT
                     !.channel = IF @ = "open" THEN "freed" ELSE @]
  <2>r. r \in SshConnection /\ r.session_id = shell[t.shell].session_id
    BY <2>h DEF SshConnection
  <2>e. shell' = [shell EXCEPT ![t.shell] = r]
    BY <1>26, <2>h, <2>d, Zenon DEF TimerJoin, free_shell
  <2> HIDE DEF r
  <2>1. shell' \in [Shells -> SshConnection]
    BY <1>s, <2>h, <2>r, <2>e, ShellWritten
  <2>2. \A k \in Shells : shell'[k].session_id = shell[k].session_id
    BY <1>s, <2>h, <2>r, <2>e, ShellWritten
  <2>3. TypeOK'
    BY <1>26, <2>1, <2>2 DEF Typing, TypeOK, Holding,
      TimerJoin, free_shell, IoThread, AdminThread, Timer
  <2>4. Holding'
    BY <1>26, <2>1, <2>2 DEF Typing, TypeOK, Holding,
      TimerJoin, free_shell, IoThread, AdminThread
  <2> QED BY <2>3, <2>4 DEF Typing
<1>27. ASSUME NEW a \in Admins, NEW s \in Sessions, Terminate(a, s)
       PROVE  Typing'
  <2>k. admin[a] \in AdminThread /\ DOMAIN admin = Admins
    BY <1>a
  <2> DEFINE q == [admin[a] EXCEPT !.state = "collect", !.session = s]
  <2>q. q \in AdminThread
    BY <2>k DEF AdminThread
  <2>w. admin' = [admin EXCEPT ![a] = q]
    BY <1>27, <2>k, Zenon DEF Terminate
  <2> HIDE DEF q
  <2>1. admin' \in [Admins -> AdminThread]
    BY <1>a, <2>q, <2>w, AdminWritten
  <2>2. TypeOK'
    BY <1>27, <2>1 DEF Typing, TypeOK, Holding,
      Terminate, terminate_session, IoThread, AdminThread, Timer
  <2>3. Holding'
    BY <1>27, <2>1 DEF Typing, TypeOK, Holding,
      Terminate, terminate_session, IoThread, AdminThread
  <2> QED BY <2>2, <2>3 DEF Typing
<1>28. ASSUME NEW a \in Admins, Collect(a) PROVE Typing'
  <2> DEFINE mine == {c \in Conns :
                /\ ws_connections[c] # None
                /\ shell[ws_connections[c]].session_id = admin[a].session}
             todo == {<<c, ws_connections[c]>> : c \in mine}
  <2>0. ws_connections \in [Conns -> OrNone(Shells)]
    BY DEF Typing, TypeOK
  <2>1. admin' = [admin EXCEPT ![a].state = "close", ![a].todo = todo]
    BY <1>28 DEF Collect
  <2>t. todo \in SUBSET (Conns \X Shells)
    BY <2>0
  <2>5. admin' \in [Admins -> AdminThread]
    <3> HIDE DEF todo
    <3>1. admin[a] \in AdminThread /\ DOMAIN admin = Admins
      BY <1>a
    <3> DEFINE q == [admin[a] EXCEPT !.state = "close", !.todo = todo]
    <3>2. q \in AdminThread
      BY <3>1, <2>t DEF AdminThread
    <3>3. admin' = [admin EXCEPT ![a] = q]
      BY <2>1, <3>1, Zenon
    <3> HIDE DEF q
    <3> QED BY <1>a, <3>2, <3>3, AdminWritten
  <2>6. \A b \in Admins : /\ admin'[b].session = admin[b].session
                          /\ admin'[b].shell = admin[b].shell
                          /\ admin'[b].ws = admin[b].ws
                          /\ b # a => admin'[b].state = admin[b].state
    <3> HIDE DEF todo
    <3> QED BY <1>a, <2>1 DEF AdminThread
  <2>7. admin[a].state = "collect" /\ admin'[a].state = "close"
    <3> HIDE DEF todo
    <3> QED BY <1>28, <1>a, <2>1 DEF Collect, AdminThread
  <2>2. TypeOK'
    BY <1>28, <2>5 DEF Typing, TypeOK, Holding,
      Collect, IoThread, AdminThread, Timer
  <2>3. Holding'
    BY <1>28, <2>6, <2>7 DEF Typing, TypeOK, Holding, Collect
  <2> QED BY <2>2, <2>3 DEF Typing
<1>29. ASSUME NEW a \in Admins, CloseNext(a) PROVE Typing'
  <2>k. admin[a] \in AdminThread /\ DOMAIN admin = Admins
    BY <1>a
  <2>f. PICK f \in admin[a].todo :
          /\ shell' = [shell EXCEPT ![f[2]].client = None,
                                    ![f[2]].running = FALSE]
          /\ admin' = [admin EXCEPT ![a].state = "joining",
                                    ![a].todo = @ \ {f},
                                    ![a].ws = f[1], ![a].shell = f[2]]
    BY <1>29 DEF CloseNext
  <2> DEFINE c == f[1]
             h == f[2]
  <2>h. c \in Conns /\ h \in Shells
    BY <2>k DEF AdminThread
  <2>c. shell[h] \in SshConnection /\ DOMAIN shell = Shells
    BY <1>s, <2>h
  <2> DEFINE r == [shell[h] EXCEPT !.client = None, !.running = FALSE]
             q == [admin[a] EXCEPT !.state = "joining", !.todo = @ \ {f},
                                   !.ws = c, !.shell = h]
  <2>r. r \in SshConnection /\ r.session_id = shell[h].session_id
    BY <2>c DEF SshConnection
  <2>q. /\ q \in AdminThread /\ q.session = admin[a].session
        /\ q.shell = h /\ q.ws = c
    BY <2>k, <2>h DEF AdminThread
  <2>e. shell' = [shell EXCEPT ![h] = r]
    BY <2>f, <2>h, <2>c, Zenon
  <2>w. admin' = [admin EXCEPT ![a] = q]
    BY <2>f, <2>k, Zenon
  <2> HIDE DEF c, h, r, q
  <2>1. shell' \in [Shells -> SshConnection]
    BY <1>s, <2>h, <2>r, <2>e, ShellWritten
  <2>2. \A k \in Shells : shell'[k].session_id = shell[k].session_id
    BY <1>s, <2>h, <2>r, <2>e, ShellWritten
  <2>3. admin' \in [Admins -> AdminThread]
    BY <1>a, <2>q, <2>w, AdminWritten
  <2>u. /\ UNCHANGED <<status, identity, conn, io, ws_connections, g_detached,
                      timers>>
        /\ admin[a].state # "idle"
    BY <1>29 DEF CloseNext
  <2>4. TypeOK'
    BY <2>1, <2>3, <2>u DEF Typing, TypeOK
  <2>5. \A b \in Admins : admin'[b] = IF b = a THEN q ELSE admin[b]
    BY <1>a, <2>w
  <2>6. Holding'
    BY <2>h, <2>q, <2>2, <2>5, <2>u DEF Typing, TypeOK, Holding, IoThread
  <2> QED BY <2>4, <2>6 DEF Typing
<1>30. ASSUME NEW a \in Admins, CloseJoined(a) PROVE Typing'
  <2> DEFINE h == admin[a].shell
  <2>k. admin[a] \in AdminThread /\ DOMAIN admin = Admins
    BY <1>a
  <2>h. h \in Shells /\ shell[h] \in SshConnection /\ DOMAIN shell = Shells
    BY <1>30, <1>s DEF CloseJoined, Typing, Holding
  <2> DEFINE r == [shell[h] EXCEPT !.channel =
                     IF @ = "open" THEN "freed" ELSE @]
             q == [admin[a] EXCEPT !.state = "close", !.ws = None,
                                   !.shell = None]
  <2>r. r \in SshConnection /\ r.session_id = shell[h].session_id
    BY <2>h DEF SshConnection
  <2>q. /\ q \in AdminThread /\ q.session = admin[a].session
        /\ q.state = "close"
    BY <2>k DEF AdminThread
  <2>e. shell' = [shell EXCEPT ![h] = r]
    BY <1>30, <2>h, Zenon DEF CloseJoined, free_shell
  <2>w. admin' = [admin EXCEPT ![a] = q]
    BY <1>30, <2>k, Zenon DEF CloseJoined
  <2> HIDE DEF h, r, q
  <2>1. shell' \in [Shells -> SshConnection]
    BY <1>s, <2>h, <2>r, <2>e, ShellWritten
  <2>2. \A k \in Shells : shell'[k].session_id = shell[k].session_id
    BY <1>s, <2>h, <2>r, <2>e, ShellWritten
  <2>3. admin' \in [Admins -> AdminThread]
    BY <1>a, <2>q, <2>w, AdminWritten
  <2>u. /\ UNCHANGED <<status, identity, io, ws_connections, g_detached,
                      timers>>
        /\ conn' = CloseSent(admin[a].ws) /\ admin[a].state # "idle"
    BY <1>30 DEF CloseJoined
  <2>4. TypeOK'
    BY <2>1, <2>3, <2>u DEF Typing, TypeOK, CloseSent
  <2>5. \A b \in Admins : admin'[b] = IF b = a THEN q ELSE admin[b]
    BY <1>a, <2>w
  <2>6. Holding'
    BY <2>q, <2>2, <2>5, <2>u DEF Typing, TypeOK, Holding, IoThread
  <2> QED BY <2>4, <2>6 DEF Typing
<1>31. ASSUME NEW a \in Admins, CloseNone(a) PROVE Typing'
  BY <1>31 DEF CloseNone, IdleAdmin,
      Typing, TypeOK, Holding, IoThread, SshConnection, Timer, AdminThread
<1>32. ASSUME NEW a \in Admins, CloseDetached(a) PROVE Typing'
  <2> DEFINE d == g_detached[admin[a].session]
  <2>0. d \in Shells
    BY <1>32 DEF CloseDetached, Typing, TypeOK, Holding
  <2>h. d \in Shells /\ shell[d] \in SshConnection
    BY <2>0, <1>s
  <2>d. DOMAIN shell = Shells
    BY <1>s
  <2> DEFINE r == [shell[d] EXCEPT !.running = FALSE]
  <2>r. r \in SshConnection /\ r.session_id = shell[d].session_id
    BY <2>h DEF SshConnection
  <2>e. shell' = [shell EXCEPT ![d] = r]
    BY <1>32, <2>h, <2>d, Zenon DEF CloseDetached
  <2> HIDE DEF r
  <2>1. shell' \in [Shells -> SshConnection]
    BY <1>s, <2>h, <2>r, <2>e, ShellWritten
  <2>2. \A k \in Shells : shell'[k].session_id = shell[k].session_id
    BY <1>s, <2>h, <2>r, <2>e, ShellWritten
  <2>k. admin[a] \in AdminThread /\ DOMAIN admin = Admins
    BY <1>a
  <2> DEFINE q == [admin[a] EXCEPT !.state = "joindetached", !.shell = d]
  <2>q. q \in AdminThread
    BY <2>k, <2>0 DEF AdminThread
  <2>w. admin' = [admin EXCEPT ![a] = q]
    BY <1>32, <2>k, Zenon DEF CloseDetached
  <2> HIDE DEF q
  <2>3. admin' \in [Admins -> AdminThread]
    BY <1>a, <2>q, <2>w, AdminWritten
  <2> HIDE DEF d
  <2>4. TypeOK'
    BY <1>32, <2>1, <2>2, <2>3 DEF Typing, TypeOK, Holding,
      CloseDetached, IoThread, AdminThread, Timer
  <2>5. Holding'
    <3>1. \A b \in Admins :
            admin'[b].session = admin[b].session
      BY <1>a, <2>k, <2>w DEF q, AdminThread
    <3>2. \A b \in Admins : b # a => admin'[b] = admin[b]
      BY <1>a, <2>w
    <3>3. admin'[a].state = "joindetached" /\ admin'[a].shell = d
      BY <1>a, <2>k, <2>w DEF q, AdminThread
    <3>4. io' = io /\ admin[a].state # "idle"
      BY <1>32 DEF CloseDetached
    <3> QED BY <2>0, <2>2, <3>1, <3>2, <3>3, <3>4
            DEF Typing, TypeOK, Holding, IoThread
  <2> QED BY <2>4, <2>5 DEF Typing
<1>33. ASSUME NEW a \in Admins, JoinDetached(a) PROVE Typing'
  <2> DEFINE h == admin[a].shell
  <2>h. h \in Shells /\ shell[h] \in SshConnection
    BY <1>33, <1>s DEF JoinDetached, Typing, Holding
  <2>d. DOMAIN shell = Shells
    BY <1>s
  <2> DEFINE r == [shell[h] EXCEPT !.channel =
                     IF @ = "open" THEN "freed" ELSE @]
  <2>r. r \in SshConnection /\ r.session_id = shell[h].session_id
    BY <2>h DEF SshConnection
  <2>e. shell' = [shell EXCEPT ![h] = r]
    BY <1>33, <2>h, <2>d, Zenon DEF JoinDetached, free_shell
  <2> HIDE DEF r
  <2>1. shell' \in [Shells -> SshConnection]
    BY <1>s, <2>h, <2>r, <2>e, ShellWritten
  <2>2. \A k \in Shells : shell'[k].session_id = shell[k].session_id
    BY <1>s, <2>h, <2>r, <2>e, ShellWritten
  <2> HIDE DEF h
  <2>q. IdleAdmin \in AdminThread
    BY DEF AdminThread, IdleAdmin
  <2>3. admin' \in [Admins -> AdminThread]
    BY <1>33, <1>a, <2>q, AdminWritten DEF JoinDetached
  <2>4. TypeOK'
    BY <1>33, <2>1, <2>2, <2>3 DEF Typing, TypeOK, Holding,
      JoinDetached, IdleAdmin, free_shell, IoThread, AdminThread, Timer
  <2>5. Holding'
    BY <1>33, <2>1, <2>2, <2>3 DEF Typing, TypeOK, Holding,
      JoinDetached, IdleAdmin, free_shell, IoThread, AdminThread
  <2> QED BY <2>4, <2>5 DEF Typing
<1>34. ASSUME UNCHANGED vars PROVE Typing'
  BY <1>34 DEF vars,
      Typing, TypeOK, Holding, IoThread, SshConnection, Timer, AdminThread
<1> QED
  BY <1>1, <1>2, <1>3, <1>4, <1>5, <1>6, <1>7, <1>8, <1>9, <1>10, <1>11,
     <1>12, <1>13, <1>14, <1>15, <1>16, <1>17, <1>18, <1>19, <1>20, <1>21,
     <1>22, <1>23, <1>24, <1>25, <1>26, <1>27, <1>28, <1>29, <1>30, <1>31,
     <1>32, <1>33, <1>34
  DEF Next, IoNext, ReaderNext, TimerNext, AdminNext

(* Throughout every behaviour the state has its types: a thread never       *)
(* follows a null shell, session or websocket.                              *)
THEOREM TypesAlways == Spec => []TypeOK
<1>1. Typing => TypeOK
  BY DEF Typing
<1> QED BY <1>1, InitTyping, NextTyping, PTL DEF Spec

-----------------------------------------------------------------------------
(***************************************************************************)
(* Who may disconnect a shell, and when (module SshSession), for every set *)
(* of sessions, websockets and administrators.                             *)
(*                                                                         *)
(* OneOwner is not inductive alone: OnOpen gives a new shell its first     *)
(* owner, so Ownership adds that it had none (FreshUnowned).  Every other  *)
(* step only drops an owner or hands the shell from one to another         *)
(* (HandsOver), which cannot make two owners out of one.                   *)
(*                                                                         *)
(* ReaderHasChannel needs three more facts (Channels): a shell that runs   *)
(* has its channel, whoever is about to free a shell has told it to stop,  *)
(* and a handler that may still start its shell is that shell's owner, so  *)
(* no other thread can be about to free it when ssh_connect sets running.  *)
(***************************************************************************)

HIDE DEF Shells, OrNone

(* The owners of a shell after a step are among those before it, or one of  *)
(* them handed the shell to another.                                        *)
HandsOver(h) ==
  \/ Owners(h)' \subseteq Owners(h)
  \/ \E p \in Owners(h) : \E q :
       p \notin Owners(h)' /\ Owners(h)' \subseteq Owners(h) \cup {q}

(* The tag of an owner says which kind of place it is.                      *)
LEMMA Tags ==
  ASSUME NEW h, NEW p
  PROVE  /\ p \in WsOwners(h) => p[1] = "ws"
         /\ p \in DetachedOwners(h) => p[1] = "detached"
         /\ p \in IoOwners(h) => p[1] = "io"
         /\ p \in TimerOwners(h) => p[1] = "timer"
         /\ p \in TodoOwners(h) => p[1] = "todo"
         /\ p \in AdminOwners(h) => p[1] = "admin"
<1>1. p \in WsOwners(h) => p[1] = "ws"
  BY DEF WsOwners
<1>2. p \in DetachedOwners(h) => p[1] = "detached"
  BY DEF DetachedOwners
<1>3. p \in IoOwners(h) => p[1] = "io"
  BY DEF IoOwners
<1>4. p \in TimerOwners(h) => p[1] = "timer"
  BY DEF TimerOwners
<1>5. ASSUME p \in TodoOwners(h) PROVE p[1] = "todo"
  <2>1. \E a \in Admins : \E c \in Conns : p = <<"todo", a, c>>
    BY <1>5, Zenon DEF TodoOwners
  <2> QED BY <2>1
<1>6. p \in AdminOwners(h) => p[1] = "admin"
  BY DEF AdminOwners
<1> QED BY <1>1, <1>2, <1>3, <1>4, <1>5, <1>6

(* The same after a step.                                                   *)
LEMMA TagsAfter ==
  ASSUME NEW h, NEW p
  PROVE  /\ p \in WsOwners(h)' => p[1] = "ws"
         /\ p \in DetachedOwners(h)' => p[1] = "detached"
         /\ p \in IoOwners(h)' => p[1] = "io"
         /\ p \in TimerOwners(h)' => p[1] = "timer"
         /\ p \in TodoOwners(h)' => p[1] = "todo"
         /\ p \in AdminOwners(h)' => p[1] = "admin"
<1>1. p \in WsOwners(h)' => p[1] = "ws"
  BY DEF WsOwners
<1>2. p \in DetachedOwners(h)' => p[1] = "detached"
  BY DEF DetachedOwners
<1>3. p \in IoOwners(h)' => p[1] = "io"
  BY DEF IoOwners
<1>4. p \in TimerOwners(h)' => p[1] = "timer"
  BY DEF TimerOwners
<1>5. ASSUME p \in TodoOwners(h)' PROVE p[1] = "todo"
  <2>1. \E a \in Admins : \E c \in Conns : p = <<"todo", a, c>>
    BY <1>5, Zenon DEF TodoOwners
  <2> QED BY <2>1
<1>6. p \in AdminOwners(h)' => p[1] = "admin"
  BY DEF AdminOwners
<1> QED BY <1>1, <1>2, <1>3, <1>4, <1>5, <1>6

(* What writing one entry of ws_connections does to the owners.             *)
LEMMA WsSet ==
  ASSUME ws_connections \in [Conns -> OrNone(Shells)], NEW c \in Conns, NEW x,
         ws_connections' = [ws_connections EXCEPT ![c] = x], NEW h \in Shells
  PROVE  /\ WsOwners(h)' \subseteq WsOwners(h) \cup {<<"ws", c>>}
         /\ x # h => <<"ws", c>> \notin WsOwners(h)'
         /\ x # h => WsOwners(h)' \subseteq WsOwners(h)
  BY DEF WsOwners

(* What writing one entry of g_detached does to the owners.                 *)
LEMMA DetachedSet ==
  ASSUME g_detached \in [Sessions -> OrNone(Shells)], NEW s \in Sessions,
         NEW x, g_detached' = [g_detached EXCEPT ![s] = x], NEW h \in Shells
  PROVE  /\ DetachedOwners(h)'
              \subseteq DetachedOwners(h) \cup {<<"detached", s>>}
         /\ x # h => <<"detached", s>> \notin DetachedOwners(h)'
         /\ x # h => DetachedOwners(h)' \subseteq DetachedOwners(h)
  BY DEF DetachedOwners

(* What a step of the I/O thread of c does to the owners.                   *)
LEMMA IoSet ==
  ASSUME io \in [Conns -> IoThread], NEW c \in Conns, NEW pc, NEW s, NEW k,
         IoGoes(c, pc, s, k), NEW h \in Shells
  PROVE  /\ IoOwners(h)' \subseteq IoOwners(h) \cup {<<"io", c>>}
         /\ ~(pc \in InHand /\ k = h) => <<"io", c>> \notin IoOwners(h)'
         /\ ~(pc \in InHand /\ k = h) => IoOwners(h)' \subseteq IoOwners(h)
  BY DEF IoGoes, IoOwners, InHand

(* What a step of a grace timer does to the owners.                         *)
LEMMA TimerSet ==
  ASSUME NEW t \in timers, NEW u, timers' = (timers \ {t}) \cup {u},
         NEW h \in Shells
  PROVE  /\ TimerOwners(h)' \subseteq TimerOwners(h) \cup {<<"timer", u>>}
         /\ u # t => <<"timer", t>> \notin TimerOwners(h)'
         /\ u.shell # h \/ u.state = "sleeping"
              => TimerOwners(h)' \subseteq TimerOwners(h)
  BY DEF TimerOwners

(* What a step of the terminate handler on thread a does to the owners.     *)
LEMMA AdminSet ==
  ASSUME NEW a \in Admins, \A b \in Admins \ {a} : admin'[b] = admin[b],
         NEW h \in Shells
  PROVE  /\ AdminOwners(h)' \subseteq AdminOwners(h) \cup {<<"admin", a>>}
         /\ admin'[a].shell # h => AdminOwners(h)' \subseteq AdminOwners(h)
         /\ admin'[a].todo \subseteq admin[a].todo
              => TodoOwners(h)' \subseteq TodoOwners(h)
         /\ \A c \in Conns : <<c, h>> \notin admin'[a].todo
              => <<"todo", a, c>> \notin TodoOwners(h)'
<1>1. AdminOwners(h)' \subseteq AdminOwners(h) \cup {<<"admin", a>>}
  BY DEF AdminOwners
<1>2. admin'[a].shell # h => AdminOwners(h)' \subseteq AdminOwners(h)
  BY DEF AdminOwners
<1>3. ASSUME admin'[a].todo \subseteq admin[a].todo
      PROVE  TodoOwners(h)' \subseteq TodoOwners(h)
  <2>1. SUFFICES ASSUME NEW p \in TodoOwners(h)' PROVE p \in TodoOwners(h)
    OBVIOUS
  <2>2. PICK b \in Admins, d \in Conns :
          p = <<"todo", b, d>> /\ <<d, h>> \in admin'[b].todo
    BY Zenon DEF TodoOwners
  <2>3. <<d, h>> \in admin[b].todo
    BY <1>3, <2>2
  <2> QED BY <2>2, <2>3 DEF TodoOwners
<1>4. ASSUME NEW c \in Conns, <<c, h>> \notin admin'[a].todo
      PROVE  <<"todo", a, c>> \notin TodoOwners(h)'
  <2>1. SUFFICES ASSUME NEW b \in Admins, NEW d \in Conns,
                        <<d, h>> \in admin'[b].todo
                 PROVE  <<"todo", a, c>> # <<"todo", b, d>>
    BY Zenon DEF TodoOwners
  <2>2. a # b \/ c # d
    BY <1>4, <2>1
  <2> QED BY <2>2
<1> QED BY <1>1, <1>2, <1>3, <1>4

(* A step that adds no owner of any kind.                                   *)
LEMMA Shrinks ==
  ASSUME NEW h, WsOwners(h)' \subseteq WsOwners(h),
         DetachedOwners(h)' \subseteq DetachedOwners(h),
         IoOwners(h)' \subseteq IoOwners(h),
         TimerOwners(h)' \subseteq TimerOwners(h),
         TodoOwners(h)' \subseteq TodoOwners(h),
         AdminOwners(h)' \subseteq AdminOwners(h)
  PROVE  HandsOver(h)
  BY Zenon DEF Owners, HandsOver

(* A step that drops owner p and adds at most q.                            *)
LEMMA Passes ==
  ASSUME NEW h, NEW p \in Owners(h), NEW q,
         WsOwners(h)' \subseteq WsOwners(h) \cup {q},
         DetachedOwners(h)' \subseteq DetachedOwners(h) \cup {q},
         IoOwners(h)' \subseteq IoOwners(h) \cup {q},
         TimerOwners(h)' \subseteq TimerOwners(h) \cup {q},
         TodoOwners(h)' \subseteq TodoOwners(h) \cup {q},
         AdminOwners(h)' \subseteq AdminOwners(h) \cup {q},
         p \notin Owners(h)'
  PROVE  HandsOver(h)
<1>1. Owners(h)' \subseteq Owners(h) \cup {q}
  BY Zenon DEF Owners
<1> QED BY <1>1 DEF HandsOver

(* An owner that is gone from the places of its kind is gone.               *)
LEMMA Gone ==
  ASSUME NEW h, NEW p
  PROVE  /\ p[1] = "ws" /\ p \notin WsOwners(h)' => p \notin Owners(h)'
         /\ p[1] = "detached" /\ p \notin DetachedOwners(h)'
              => p \notin Owners(h)'
         /\ p[1] = "io" /\ p \notin IoOwners(h)' => p \notin Owners(h)'
         /\ p[1] = "timer" /\ p \notin TimerOwners(h)' => p \notin Owners(h)'
         /\ p[1] = "todo" /\ p \notin TodoOwners(h)' => p \notin Owners(h)'
<1>1. p \in Owners(h)' =>
        \/ p \in WsOwners(h)' \/ p \in DetachedOwners(h)'
        \/ p \in IoOwners(h)' \/ p \in TimerOwners(h)'
        \/ p \in TodoOwners(h)' \/ p \in AdminOwners(h)'
  BY Zenon DEF Owners
<1> QED BY <1>1, TagsAfter

(* A step that leaves a variable alone leaves its owners alone.             *)
LEMMA Same ==
  ASSUME NEW h
  PROVE  /\ UNCHANGED ws_connections => WsOwners(h)' = WsOwners(h)
         /\ UNCHANGED g_detached => DetachedOwners(h)' = DetachedOwners(h)
         /\ UNCHANGED io => IoOwners(h)' = IoOwners(h)
         /\ UNCHANGED timers => TimerOwners(h)' = TimerOwners(h)
         /\ UNCHANGED admin => /\ TodoOwners(h)' = TodoOwners(h)
                               /\ AdminOwners(h)' = AdminOwners(h)
<1>1. UNCHANGED ws_connections => WsOwners(h)' = WsOwners(h)
  BY DEF WsOwners
<1>2. UNCHANGED g_detached => DetachedOwners(h)' = DetachedOwners(h)
  BY DEF DetachedOwners
<1>3. UNCHANGED io => IoOwners(h)' = IoOwners(h)
  BY DEF IoOwners
<1>4. UNCHANGED timers => TimerOwners(h)' = TimerOwners(h)
  BY DEF TimerOwners
<1>5. UNCHANGED admin => TodoOwners(h)' = TodoOwners(h)
  BY DEF TodoOwners
<1>6. UNCHANGED admin => AdminOwners(h)' = AdminOwners(h)
  BY DEF AdminOwners
<1> QED BY <1>1, <1>2, <1>3, <1>4, <1>5, <1>6

(* Every step but onopen drops owners or hands the shell over; onopen gives *)
(* an owner to no shell but its own.                                        *)
LEMMA NextHandsOver ==
  ASSUME Typing, NEW h \in Shells, OneOwner
  PROVE  /\ \A c \in Conns : OnOpen(c) => c = h \/ HandsOver(h)
         /\ [Next]_vars => HandsOver(h) \/ \E c \in Conns : OnOpen(c)
<1>n. None # h
  BY ConstAssumption DEF Shells
<1>w. ws_connections \in [Conns -> OrNone(Shells)]
  BY DEF Typing, TypeOK
<1>g. g_detached \in [Sessions -> OrNone(Shells)]
  BY DEF Typing, TypeOK
<1>i. io \in [Conns -> IoThread]
  BY DEF Typing, TypeOK
<1>t. timers \subseteq Timer
  BY DEF Typing, TypeOK
<1>a. admin \in [Admins -> AdminThread]
  BY DEF Typing, TypeOK
<1>1. ASSUME NEW c \in Conns, OnOpen(c) PROVE c = h \/ HandsOver(h)
  BY <1>1, <1>w, WsSet, Same, Shrinks DEF OnOpen
<1>2. ASSUME NEW c \in Conns,
             \/ \E s \in Sessions : Start(c, s)
             \/ RefuseResume(c) \/ NothingDetached(c)
             \/ ResumeReplay(c) \/ ConnectFail(c) \/ Connect(c) \/ Register(c)
             \/ Attach(c) \/ StartReader(c)
      PROVE  HandsOver(h)
  <2>1. PICK pc, s, k : IoGoes(c, pc, s, k) /\ pc \notin InHand
    BY <1>2 DEF Start, RefuseResume, NothingDetached, ResumeReplay,
      ConnectFail, Connect, Register, Attach, StartReader, IoReturns, InHand
  <2>2. UNCHANGED <<ws_connections, g_detached, timers, admin>>
    BY <1>2 DEF Start, RefuseResume, NothingDetached, ResumeReplay,
      ConnectFail, Connect, Register, Attach, StartReader
  <2>3. IoOwners(h)' \subseteq IoOwners(h)
    BY <1>i, <2>1, IoSet
  <2> QED BY <2>2, <2>3, Same, Shrinks
<1>3. ASSUME NEW c \in Conns, TakeDetached(c) PROVE HandsOver(h)
  <2> DEFINE s == io[c].req
             p == <<"detached", s>>
  <2>1. /\ s \in Sessions
        /\ g_detached' = [g_detached EXCEPT ![s] = None]
        /\ IoGoes(c, "resuming", s, g_detached[s])
        /\ UNCHANGED <<ws_connections, timers, admin>>
    BY <1>3 DEF TakeDetached, Typing, Holding
  <2>2. /\ DetachedOwners(h)' \subseteq DetachedOwners(h)
        /\ p \notin DetachedOwners(h)'
    BY <1>g, <1>n, <2>1, DetachedSet
  <2>3. CASE g_detached[s] = h
    <3>1. p \in DetachedOwners(h)
      BY <1>g, <2>1, <2>3 DEF DetachedOwners
    <3>2. p \in Owners(h)
      BY <3>1, Zenon DEF Owners
    <3>3. p \notin Owners(h)'
      BY <2>2, Gone
    <3>4. IoOwners(h)' \subseteq IoOwners(h) \cup {<<"io", c>>}
      BY <1>i, <2>1, IoSet
    <3> QED BY <2>1, <2>2, <3>2, <3>3, <3>4, Same, Passes
  <2>4. CASE g_detached[s] # h
    <3>1. IoGoes(c, "resuming", s, g_detached[s])
      BY <2>1
    <3>2. IoOwners(h)' \subseteq IoOwners(h)
      <4> HIDE DEF s
      <4> QED BY <1>i, <2>4, <3>1, IoSet
    <3> QED BY <2>1, <2>2, <3>2, Same, Shrinks
  <2> QED BY <2>3, <2>4
<1>4. ASSUME NEW c \in Conns, ResumeRegister(c) PROVE HandsOver(h)
  <2> DEFINE p == <<"io", c>>
  <2>1. /\ ws_connections' = [ws_connections EXCEPT ![c] = io[c].hand]
        /\ IoGoes(c, "replaying", io[c].req, io[c].hand)
        /\ io[c].pc \in InHand
        /\ UNCHANGED <<g_detached, timers, admin>>
    BY <1>4 DEF ResumeRegister, InHand
  <2>2. IoOwners(h)' \subseteq IoOwners(h) /\ p \notin IoOwners(h)'
    BY <1>i, <2>1, IoSet DEF InHand
  <2>3. CASE io[c].hand = h
    <3>1. p \in IoOwners(h)
      BY <2>1, <2>3 DEF IoOwners
    <3>2. p \in Owners(h)
      BY <3>1, Zenon DEF Owners
    <3>3. p \notin Owners(h)'
      BY <2>2, Gone
    <3>4. WsOwners(h)' \subseteq WsOwners(h) \cup {<<"ws", c>>}
      BY <1>w, <2>1, WsSet
    <3> QED BY <2>1, <2>2, <3>2, <3>3, <3>4, Same, Passes
  <2>4. CASE io[c].hand # h
    <3>1. WsOwners(h)' \subseteq WsOwners(h)
      BY <1>w, <2>1, <2>4, WsSet
    <3> QED BY <2>1, <2>2, <3>1, Same, Shrinks
  <2> QED BY <2>3, <2>4
<1>5. ASSUME NEW c \in Conns, OnCloseKeep(c) \/ OnCloseEnd(c)
      PROVE  HandsOver(h)
  <2> DEFINE p == <<"ws", c>>
  <2>1. /\ ws_connections' = [ws_connections EXCEPT ![c] = None]
        /\ \E pc : IoGoes(c, pc, None, ws_connections[c])
        /\ UNCHANGED <<g_detached, timers, admin>>
    BY <1>5 DEF OnCloseKeep, OnCloseEnd
  <2>2. WsOwners(h)' \subseteq WsOwners(h) /\ p \notin WsOwners(h)'
    BY <1>w, <1>n, <2>1, WsSet
  <2>3. CASE ws_connections[c] = h
    <3>1. p \in WsOwners(h)
      BY <2>3 DEF WsOwners
    <3>2. p \in Owners(h)
      BY <3>1, Zenon DEF Owners
    <3>3. p \notin Owners(h)'
      BY <2>2, Gone
    <3>4. IoOwners(h)' \subseteq IoOwners(h) \cup {<<"io", c>>}
      BY <1>i, <2>1, IoSet
    <3> QED BY <2>1, <2>2, <3>2, <3>3, <3>4, Same, Passes
  <2>4. CASE ws_connections[c] # h
    <3>1. IoOwners(h)' \subseteq IoOwners(h)
      BY <1>i, <2>1, <2>4, IoSet
    <3> QED BY <2>1, <2>2, <3>1, Same, Shrinks
  <2> QED BY <2>3, <2>4
<1>6. ASSUME NEW c \in Conns, Detach(c) PROVE HandsOver(h)
  <2> DEFINE p == <<"io", c>>
             k == io[c].hand
             s == shell[k].session_id
  <2>1. /\ g_detached' = [g_detached EXCEPT ![s] = k]
        /\ IoGoes(c, "detached", None, k)
        /\ io[c].pc \in InHand /\ s \in Sessions
        /\ UNCHANGED <<ws_connections, timers, admin>>
    BY <1>6 DEF Detach, InHand, Typing, Holding
  <2>2. IoOwners(h)' \subseteq IoOwners(h) /\ p \notin IoOwners(h)'
    BY <1>i, <2>1, IoSet DEF InHand
  <2>3. CASE k = h
    <3>1. p \in IoOwners(h)
      BY <2>1, <2>3 DEF IoOwners
    <3>2. p \in Owners(h)
      BY <3>1, Zenon DEF Owners
    <3>3. p \notin Owners(h)'
      BY <2>2, Gone
    <3>4. DetachedOwners(h)'
            \subseteq DetachedOwners(h) \cup {<<"detached", s>>}
      BY <1>g, <2>1, DetachedSet
    <3> QED BY <2>1, <2>2, <3>2, <3>3, <3>4, Same, Passes
  <2>4. CASE k # h
    <3>1. DetachedOwners(h)' \subseteq DetachedOwners(h)
      BY <1>g, <2>1, <2>4, DetachedSet
    <3> QED BY <2>1, <2>2, <3>1, Same, Shrinks
  <2> QED BY <2>3, <2>4
<1>7. ASSUME NEW c \in Conns, ArmTimer(c) \/ CloseJoin(c) PROVE HandsOver(h)
  <2>1. IoGoes(c, "idle", None, None)
    BY <1>7 DEF ArmTimer, CloseJoin, IoReturns
  <2>2. IoOwners(h)' \subseteq IoOwners(h)
    BY <1>i, <1>n, <2>1, IoSet
  <2>3. TimerOwners(h)' \subseteq TimerOwners(h)
    BY <1>7 DEF ArmTimer, CloseJoin, TimerOwners
  <2> QED BY <1>7, <2>2, <2>3, Same, Shrinks DEF ArmTimer, CloseJoin
<1>8. ASSUME \/ \E c \in Conns : OnCloseUnknown(c)
             \/ \E k \in Shells :
                  ReadEnd(k) \/ ReaderTerminate(k) \/ TellClient(k)
             \/ UNCHANGED vars
      PROVE  HandsOver(h)
  <2>1. UNCHANGED <<ws_connections, g_detached, io, timers, admin>>
    BY <1>8 DEF OnCloseUnknown, ReadEnd, ReaderTerminate, TellClient, vars
  <2> QED BY <2>1, Same, Shrinks
<1>9. ASSUME NEW k \in Shells, ReaderStop(k) PROVE HandsOver(h)
  <2>1. DetachedOwners(h)' \subseteq DetachedOwners(h)
    BY <1>9, <1>g, <1>n DEF ReaderStop, DetachedOwners
  <2> QED BY <1>9, <2>1, Same, Shrinks DEF ReaderStop
<1>10. ASSUME NEW t \in timers, TimerExpire(t) PROVE HandsOver(h)
  <2> DEFINE p == <<"detached", t.session>>
             u == [t EXCEPT !.state = "expired"]
  <2>1. /\ g_detached' = [g_detached EXCEPT ![t.session] = None]
        /\ timers' = (timers \ {t}) \cup {u}
        /\ g_detached[t.session] = t.shell
        /\ t.session \in Sessions
        /\ UNCHANGED <<ws_connections, io, admin>>
    BY <1>10, <1>t DEF TimerExpire, TimerGoes, Timer
  <2>2. /\ DetachedOwners(h)' \subseteq DetachedOwners(h)
        /\ p \notin DetachedOwners(h)'
    BY <1>g, <1>n, <2>1, DetachedSet
  <2>3. CASE t.shell = h
    <3>1. p \in DetachedOwners(h)
      BY <2>1, <2>3 DEF DetachedOwners
    <3>2. p \in Owners(h)
      BY <3>1, Zenon DEF Owners
    <3>3. p \notin Owners(h)'
      BY <2>2, Gone
    <3>4. TimerOwners(h)' \subseteq TimerOwners(h) \cup {<<"timer", u>>}
      BY <2>1, TimerSet
    <3> HIDE DEF u
    <3> QED BY <2>1, <2>2, <3>2, <3>3, <3>4, Same, Passes
  <2>4. CASE t.shell # h
    <3>1. u.shell # h
      BY <1>t, <2>4 DEF Timer
    <3>2. TimerOwners(h)' \subseteq TimerOwners(h)
      BY <2>1, <3>1, TimerSet
    <3> QED BY <2>1, <2>2, <3>2, Same, Shrinks
  <2> QED BY <2>3, <2>4
<1>11. ASSUME NEW t \in timers, TimerReturn(t) \/ TimerJoin(t)
       PROVE  HandsOver(h)
  <2>1. TimerOwners(h)' \subseteq TimerOwners(h)
    BY <1>11 DEF TimerReturn, TimerJoin, TimerOwners
  <2> QED BY <1>11, <2>1, Same, Shrinks DEF TimerReturn, TimerJoin
<1>12. ASSUME NEW t \in timers, TimerTerminate(t) PROVE HandsOver(h)
  <2> DEFINE p == <<"timer", t>>
             u == [t EXCEPT !.state = "joining"]
  <2>1. /\ timers' = (timers \ {t}) \cup {u}
        /\ t.state = "expired"
        /\ UNCHANGED <<ws_connections, g_detached, io, admin>>
    BY <1>12 DEF TimerTerminate, TimerGoes
  <2>2. u # t /\ u.shell = t.shell
    BY <1>t, <2>1 DEF Timer
  <2>3. CASE t.shell = h
    <3>1. p \in TimerOwners(h)
      BY <2>1, <2>3 DEF TimerOwners
    <3>2. p \in Owners(h)
      BY <3>1, Zenon DEF Owners
    <3>3. p \notin Owners(h)'
      BY <2>1, <2>2, TimerSet, Gone
    <3>4. TimerOwners(h)' \subseteq TimerOwners(h) \cup {<<"timer", u>>}
      BY <2>1, TimerSet
    <3> HIDE DEF u
    <3> QED BY <2>1, <3>2, <3>3, <3>4, Same, Passes
  <2>4. CASE t.shell # h
    <3>2. TimerOwners(h)' \subseteq TimerOwners(h)
      BY <2>1, <2>2, <2>4, TimerSet
    <3> QED BY <2>1, <3>2, Same, Shrinks
  <2> QED BY <2>3, <2>4
<1>13. ASSUME NEW a \in Admins,
              \/ \E s \in Sessions : Terminate(a, s)
              \/ CloseJoined(a) \/ CloseNone(a) \/ JoinDetached(a)
       PROVE  HandsOver(h)
  <2>1. \A b \in Admins \ {a} : admin'[b] = admin[b]
    BY <1>13, <1>a DEF Terminate, CloseJoined, CloseNone, JoinDetached
  <2>2. admin'[a].todo \subseteq admin[a].todo
    BY <1>13, <1>a DEF Terminate, CloseJoined, CloseNone, JoinDetached,
      AdminThread, IdleAdmin
  <2>3. admin'[a].shell = admin[a].shell \/ admin'[a].shell = None
    BY <1>13, <1>a DEF Terminate, CloseJoined, CloseNone, JoinDetached,
      AdminThread, IdleAdmin
  <2>4. AdminOwners(h)' \subseteq AdminOwners(h)
    BY <1>n, <2>1, <2>3 DEF AdminOwners
  <2>5. TodoOwners(h)' \subseteq TodoOwners(h)
    BY <2>1, <2>2, AdminSet
  <2>6. UNCHANGED <<ws_connections, g_detached, io, timers>>
    BY <1>13 DEF Terminate, CloseJoined, CloseNone, JoinDetached
  <2> QED BY <2>4, <2>5, <2>6, Same, Shrinks
<1>14. ASSUME NEW a \in Admins, Collect(a) PROVE HandsOver(h)
  <2> DEFINE mine == {c \in Conns :
                /\ ws_connections[c] # None
                /\ shell[ws_connections[c]].session_id = admin[a].session}
             todo == {<<c, ws_connections[c]>> : c \in mine}
  <2>1. /\ ws_connections' = [c \in Conns |-> IF c \in mine THEN None
                                              ELSE ws_connections[c]]
        /\ admin' = [admin EXCEPT ![a].state = "close", ![a].todo = todo]
        /\ UNCHANGED <<g_detached, io, timers>>
    BY <1>14 DEF Collect
  <2>2. /\ \A b \in Admins \ {a} : admin'[b] = admin[b]
        /\ admin'[a].todo = todo
        /\ admin'[a].shell = admin[a].shell
    <3> HIDE DEF todo, mine
    <3> QED BY <1>a, <2>1 DEF AdminThread
  <2>3. WsOwners(h)' \subseteq WsOwners(h)
    <3> HIDE DEF mine
    <3> QED BY <1>n, <2>1 DEF WsOwners
  <2>4. AdminOwners(h)' = AdminOwners(h)
    BY <2>2 DEF AdminOwners
  <2>5. ASSUME NEW q \in TodoOwners(h)'
        PROVE  \/ q \in TodoOwners(h)
               \/ \E c \in mine : ws_connections[c] = h /\ q = <<"todo", a, c>>
    <3>1. PICK b \in Admins, d \in Conns :
            q = <<"todo", b, d>> /\ <<d, h>> \in admin'[b].todo
      BY <2>5, Zenon DEF TodoOwners
    <3>2. CASE b = a
      BY <2>2, <3>1, <3>2
    <3>3. CASE b # a
      <4>1. <<d, h>> \in admin[b].todo
        BY <2>2, <3>1, <3>3
      <4> QED BY <3>1, <4>1 DEF TodoOwners
    <3> QED BY <3>2, <3>3
  <2>6. CASE \E c \in mine : ws_connections[c] = h
    <3>1. PICK c \in mine : ws_connections[c] = h
      BY <2>6
    <3> DEFINE p == <<"ws", c>>
    <3>2. p \in WsOwners(h) /\ p \notin WsOwners(h)'
      <4> HIDE DEF mine
      <4>1. c \in Conns
        BY DEF mine
      <4>2. p \in WsOwners(h)
        BY <3>1, <4>1 DEF WsOwners
      <4>3. ws_connections'[c] = None
        BY <2>1, <4>1
      <4>4. p \notin WsOwners(h)'
        BY <1>n, <4>3 DEF WsOwners
      <4> QED BY <4>2, <4>4
    <3>3. p \in Owners(h)
      BY <3>2, Zenon DEF Owners
    <3>4. p \notin Owners(h)'
      BY <3>2, Gone
    <3>5. \A d \in mine : ws_connections[d] = h => d = c
      <4> SUFFICES ASSUME NEW d \in mine, ws_connections[d] = h PROVE d = c
        OBVIOUS
      <4>1. <<"ws", d>> \in WsOwners(h)
        BY DEF WsOwners
      <4>2. <<"ws", d>> \in Owners(h)
        BY <4>1, Zenon DEF Owners
      <4>3. <<"ws", d>> = p
        BY <3>3, <4>2, Zenon DEF OneOwner
      <4> QED BY <4>3
    <3>6. TodoOwners(h)' \subseteq TodoOwners(h) \cup {<<"todo", a, c>>}
      <4> HIDE DEF mine
      <4> QED BY <2>5, <3>5
    <3> QED BY <2>1, <2>3, <2>4, <3>3, <3>4, <3>6, Same, Passes
  <2>7. CASE ~ \E c \in mine : ws_connections[c] = h
    <3>1. TodoOwners(h)' \subseteq TodoOwners(h)
      <4> HIDE DEF mine
      <4> QED BY <2>5, <2>7
    <3> QED BY <2>1, <2>3, <2>4, <3>1, Same, Shrinks
  <2> QED BY <2>6, <2>7
<1>15. ASSUME NEW a \in Admins, CloseNext(a) PROVE HandsOver(h)
  <2>1. PICK e \in admin[a].todo :
          admin' = [admin EXCEPT ![a].state = "joining",
                                 ![a].todo = admin[a].todo \ {e},
                                 ![a].ws = e[1], ![a].shell = e[2]]
    BY <1>15, <1>a DEF CloseNext, AdminThread
  <2>2. UNCHANGED <<ws_connections, g_detached, io, timers>>
    BY <1>15 DEF CloseNext
  <2>3. /\ \A b \in Admins \ {a} : admin'[b] = admin[b]
        /\ admin'[a].todo = admin[a].todo \ {e}
        /\ admin'[a].shell = e[2]
    BY <1>a, <2>1 DEF AdminThread
  <2>4. e[1] \in Conns /\ e[2] \in Shells /\ e = <<e[1], e[2]>>
    BY <1>a DEF AdminThread
  <2>5. TodoOwners(h)' \subseteq TodoOwners(h)
    BY <2>3, AdminSet
  <2>6. CASE e[2] = h
    <3> DEFINE p == <<"todo", a, e[1]>>
    <3>1. p \in TodoOwners(h)
      BY <2>4, <2>6 DEF TodoOwners
    <3>2. p \in Owners(h)
      BY <3>1, Zenon DEF Owners
    <3>3. <<e[1], h>> \notin admin'[a].todo
      BY <2>3, <2>4, <2>6
    <3>4. p \notin TodoOwners(h)'
      BY <2>3, <2>4, <3>3, AdminSet
    <3>5. p \notin Owners(h)'
      BY <3>4, Gone
    <3>6. AdminOwners(h)' \subseteq AdminOwners(h) \cup {<<"admin", a>>}
      BY <2>3, AdminSet
    <3> QED BY <2>2, <2>5, <3>2, <3>5, <3>6, Same, Passes
  <2>7. CASE e[2] # h
    <3>1. AdminOwners(h)' \subseteq AdminOwners(h)
      BY <2>3, <2>7, AdminSet
    <3> QED BY <2>2, <2>5, <3>1, Same, Shrinks
  <2> QED BY <2>6, <2>7
<1>16. ASSUME NEW a \in Admins, CloseDetached(a) PROVE HandsOver(h)
  <2> DEFINE s == admin[a].session
             p == <<"detached", s>>
  <2>1. /\ s \in Sessions
        /\ g_detached' = [g_detached EXCEPT ![s] = None]
        /\ UNCHANGED <<ws_connections, io, timers>>
    BY <1>16 DEF CloseDetached, Typing, Holding
  <2>2. /\ DetachedOwners(h)' \subseteq DetachedOwners(h)
        /\ p \notin DetachedOwners(h)'
    BY <1>g, <1>n, <2>1, DetachedSet
  <2>3. /\ \A b \in Admins \ {a} : admin'[b] = admin[b]
        /\ admin'[a].todo = admin[a].todo
        /\ admin'[a].shell = g_detached[s]
    BY <1>16, <1>a DEF CloseDetached, AdminThread
  <2>4. TodoOwners(h)' \subseteq TodoOwners(h)
    BY <2>3, AdminSet
  <2>5. CASE g_detached[s] = h
    <3>1. p \in DetachedOwners(h)
      BY <1>g, <2>1, <2>5 DEF DetachedOwners
    <3>2. p \in Owners(h)
      BY <3>1, Zenon DEF Owners
    <3>3. p \notin Owners(h)'
      BY <2>2, Gone
    <3>4. AdminOwners(h)' \subseteq AdminOwners(h) \cup {<<"admin", a>>}
      BY <2>3, AdminSet
    <3> QED BY <2>1, <2>2, <2>4, <3>2, <3>3, <3>4, Same, Passes
  <2>6. CASE g_detached[s] # h
    <3>1. AdminOwners(h)' \subseteq AdminOwners(h)
      BY <2>3, <2>6, AdminSet
    <3> QED BY <2>1, <2>2, <2>4, <3>1, Same, Shrinks
  <2> QED BY <2>5, <2>6
<1>17. ASSUME [Next]_vars PROVE HandsOver(h) \/ \E c \in Conns : OnOpen(c)
  BY <1>17, <1>2, <1>3, <1>4, <1>5, <1>6, <1>7, <1>8, <1>9, <1>10, <1>11,
     <1>12, <1>13, <1>14, <1>15, <1>16
  DEF Next, IoNext, ReaderNext, TimerNext, AdminNext
<1> QED BY <1>1, <1>17

(* Ownership: no shell has two owners, and the shell that a websocket not   *)
(* yet open will make has none.                                             *)
FreshUnowned == \A c \in Conns : conn[c] = "new" => Owners(c) = {}
Ownership == Typing /\ OneOwner /\ FreshUnowned

(* No shell has an owner when the program starts.                           *)
LEMMA InitOwnership == Init => Ownership
<1> SUFFICES ASSUME Init PROVE Ownership
  OBVIOUS
<1>1. \A h \in Shells : Owners(h) = {}
  <2> SUFFICES ASSUME NEW h \in Shells PROVE Owners(h) = {}
    OBVIOUS
  <2>1. WsOwners(h) = {} /\ DetachedOwners(h) = {} /\ AdminOwners(h) = {}
    BY ConstAssumption DEF Init, WsOwners, DetachedOwners, AdminOwners,
      IdleAdmin, Shells
  <2>2. IoOwners(h) = {} /\ TimerOwners(h) = {}
    BY DEF Init, IoOwners, TimerOwners, InHand
  <2>3. \A a \in Admins : admin[a].todo = {}
    BY DEF Init, IdleAdmin
  <2>4. TodoOwners(h) = {}
    BY <2>3 DEF TodoOwners
  <2> QED BY <2>1, <2>2, <2>4, Zenon DEF Owners
<1> QED BY <1>1, InitTyping DEF Ownership, OneOwner, FreshUnowned, Shells

(* A websocket is opened once.                                              *)
LEMMA NeverNewAgain ==
  ASSUME Typing, [Next]_vars
  PROVE  \A d \in Conns : conn'[d] = "new" => conn[d] = "new"
<1>c. conn \in [Conns -> {"new", "open", "closing", "gone"}]
  BY DEF Typing, TypeOK
<1>1. ASSUME NEW c \in Conns, IoNext(c)
      PROVE  conn' = conn \/ \E x \in {"open", "gone"} :
                               conn' = [conn EXCEPT ![c] = x]
  BY <1>1 DEF IoNext, OnOpen, Start, TakeDetached, RefuseResume,
    NothingDetached, ResumeRegister, ResumeReplay, ConnectFail, Connect,
    Register, Attach, StartReader, OnCloseUnknown, OnCloseKeep, OnCloseEnd,
    Detach, ArmTimer, CloseJoin
<1>2. ASSUME NEW h \in Shells, ReaderNext(h)
      PROVE  conn' = conn \/ \E c : conn' = CloseSent(c)
  BY <1>2 DEF ReaderNext, ReadEnd, ReaderStop, ReaderTerminate, TellClient
<1>3. ASSUME NEW t \in timers, TimerNext(t) PROVE conn' = conn
  BY <1>3 DEF TimerNext, TimerExpire, TimerReturn, TimerTerminate, TimerJoin
<1>4. ASSUME NEW a \in Admins, AdminNext(a)
      PROVE  conn' = conn \/ \E c : conn' = CloseSent(c)
  BY <1>4 DEF AdminNext, Terminate, Collect, CloseNext, CloseJoined,
    CloseNone, CloseDetached, JoinDetached
<1>5. CASE \E c : conn' = CloseSent(c)
  BY <1>c, <1>5 DEF CloseSent
<1>6. CASE conn' = conn \/ \E c \in Conns : \E x \in {"open", "gone"} :
                             conn' = [conn EXCEPT ![c] = x]
  BY <1>c, <1>6
<1> QED BY <1>1, <1>2, <1>3, <1>4, <1>5, <1>6 DEF Next, vars

(* Every step keeps Ownership.                                              *)
LEMMA NextOwnership == Ownership /\ [Next]_vars => Ownership'
<1> SUFFICES ASSUME Ownership, [Next]_vars PROVE Ownership'
  OBVIOUS
<1>1. Typing' /\ Typing /\ OneOwner /\ FreshUnowned
  BY NextTyping DEF Ownership
<1>2. ASSUME NEW h \in Shells, HandsOver(h)
      PROVE  /\ \A p, q \in Owners(h)' : p = q
             /\ Owners(h) = {} => Owners(h)' = {}
  BY <1>1, <1>2, Zenon DEF HandsOver, OneOwner
<1>3. ASSUME NEW c \in Conns, OnOpen(c) PROVE OneOwner' /\ FreshUnowned'
  <2>1. Owners(c) = {}
    BY <1>1, <1>3 DEF OnOpen, FreshUnowned
  <2>2. WsOwners(c)' \subseteq WsOwners(c) \cup {<<"ws", c>>}
    BY <1>1, <1>3, WsSet DEF OnOpen, Typing, TypeOK, Shells
  <2>3. Owners(c)' \subseteq Owners(c) \cup {<<"ws", c>>}
    BY <1>3, <2>2, Same DEF Owners, OnOpen
  <2>4. \A p, q \in Owners(c)' : p = q
    BY <2>1, <2>3
  <2>5. \A h \in Shells : h # c => HandsOver(h)
    BY <1>1, <1>3, NextHandsOver
  <2>6. OneOwner'
    BY <1>2, <2>4, <2>5 DEF OneOwner
  <2>7. \A d \in Conns : conn'[d] = "new" => d # c /\ conn[d] = "new"
    BY <1>1, <1>3 DEF OnOpen, Typing, TypeOK
  <2>8. FreshUnowned'
    BY <1>1, <1>2, <2>5, <2>7 DEF FreshUnowned, Shells
  <2> QED BY <2>6, <2>8
<1>4. ASSUME ~ \E c \in Conns : OnOpen(c) PROVE OneOwner' /\ FreshUnowned'
  <2>1. \A h \in Shells : HandsOver(h)
    BY <1>1, <1>4, NextHandsOver
  <2>2. OneOwner'
    BY <1>2, <2>1 DEF OneOwner
  <2>3. \A d \in Conns : conn'[d] = "new" => conn[d] = "new"
    BY <1>1, NeverNewAgain
  <2>4. FreshUnowned'
    BY <1>1, <1>2, <2>1, <2>3 DEF FreshUnowned, Shells
  <2> QED BY <2>2, <2>4
<1> QED BY <1>1, <1>3, <1>4 DEF Ownership

(* A shell that runs has its channel.                                       *)
RunningHasChannel ==
  \A h \in Shells : shell[h].running => shell[h].channel = "open"

(* A handler that may still start its shell owns it: the websocket is       *)
(* registered for it, and the shell is not in any session yet.              *)
Starting ==
  \A c \in Conns :
    /\ io[c].pc \in {"checked", "connecting"}
         => ws_connections[c] = c /\ shell[c].session_id = None
    /\ shell[c].session_id # None /\ shell[c].reader = "none"
         => io[c].pc \in {"registered", "attached"}

Channels == Ownership /\ RunningHasChannel /\ JoinedIsStopped /\ Starting

(* Channels holds when the program starts.                                  *)
LEMMA InitChannels == Init => Channels
  BY InitOwnership
  DEF Init, Channels, RunningHasChannel, JoinedIsStopped, Starting, Shells,
      IdleAdmin

(* A terminate request only takes from a shell: it may clear running, let   *)
(* go of the browser and free the channel.                                  *)
LEMMA AdminTakes ==
  ASSUME Typing, NEW a \in Admins, AdminNext(a), NEW k \in Shells
  PROVE  /\ shell'[k].session_id = shell[k].session_id
         /\ shell'[k].reader = shell[k].reader
         /\ shell'[k].client \in {shell[k].client, None}
         /\ shell'[k].running => shell[k].running
<1> USE ConstAssumption DEF Shells
<1>s. shell \in [Shells -> SshConnection]
  BY DEF Typing, TypeOK
<1>1. CASE CloseNext(a)
  <2>1. PICK f \in admin[a].todo :
          shell' = [shell EXCEPT ![f[2]].client = None,
                                 ![f[2]].running = FALSE]
    BY <1>1 DEF CloseNext
  <2> DEFINE h == f[2]
  <2>2. shell' = [shell EXCEPT ![h].client = None, ![h].running = FALSE]
    BY <2>1
  <2> HIDE DEF h
  <2> QED BY <1>s, <2>2 DEF SshConnection
<1>2. CASE CloseJoined(a) \/ JoinDetached(a)
  <2>1. PICK h : shell' = [shell EXCEPT ![h].channel =
                             IF @ = "open" THEN "freed" ELSE @]
    BY <1>2 DEF CloseJoined, JoinDetached, free_shell
  <2> QED BY <1>s, <2>1 DEF SshConnection
<1>3. CASE CloseDetached(a)
  <2>1. PICK h : shell' = [shell EXCEPT ![h].running = FALSE]
    BY <1>3 DEF CloseDetached
  <2> QED BY <1>s, <2>1 DEF SshConnection
<1>4. CASE UNCHANGED shell
  BY <1>4
<1> QED BY <1>1, <1>2, <1>3, <1>4 DEF AdminNext, Terminate, Collect, CloseNone

(* No step takes a shell away from the handler that is starting it:         *)
(* close_ssh_for_session only collects shells that are in its session.      *)
LEMMA NextStarting == Channels /\ [Next]_vars => Starting'
<1> SUFFICES ASSUME Channels, [Next]_vars PROVE Starting'
  OBVIOUS
<1> USE ConstAssumption DEF Shells
<1>t. Typing /\ Starting
  BY DEF Channels, Ownership
<1>s. shell \in [Shells -> SshConnection]
  BY <1>t DEF Typing, TypeOK
<1>i. io \in [Conns -> IoThread]
  BY <1>t DEF Typing, TypeOK
<1>w. ws_connections \in [Conns -> OrNone(Shells)]
  BY <1>t DEF Typing, TypeOK
<1>1. ASSUME NEW c \in Conns, OnOpen(c) PROVE Starting'
  BY <1>1, <1>t, <1>w DEF OnOpen, Starting
<1>2. ASSUME NEW c \in Conns, NEW s \in Sessions, Start(c, s) PROVE Starting'
  BY <1>2, <1>t, <1>i DEF Start, IoGoes, Starting
<1>3. ASSUME NEW c \in Conns,
             \/ TakeDetached(c) \/ RefuseResume(c)
             \/ NothingDetached(c) \/ ConnectFail(c)
      PROVE  Starting'
  BY <1>3, <1>t, <1>i DEF TakeDetached, RefuseResume, NothingDetached,
    ConnectFail, IoGoes, IoReturns, Starting
<1>4. ASSUME NEW c \in Conns, ResumeRegister(c) PROVE Starting'
  BY <1>4, <1>t, <1>i, <1>w DEF ResumeRegister, IoGoes, Starting
<1>5. ASSUME NEW c \in Conns, ResumeReplay(c) \/ Connect(c) PROVE Starting'
  <2>1. \A h \in Shells : /\ shell'[h].session_id = shell[h].session_id
                          /\ shell'[h].reader = shell[h].reader
    BY <1>5, <1>s DEF ResumeReplay, Connect, SshConnection
  <2> QED BY <1>5, <1>t, <1>i, <2>1 DEF ResumeReplay, Connect, IoGoes,
    IoReturns, Starting
<1>6. ASSUME NEW c \in Conns, Register(c) PROVE Starting'
  <2>1. \A h \in Shells : h # c => shell'[h] = shell[h]
    BY <1>6, <1>s DEF Register
  <2> QED BY <1>6, <1>t, <1>i, <2>1 DEF Register, IoGoes, Starting
<1>7. ASSUME NEW c \in Conns, Attach(c) PROVE Starting'
  <2>1. \A h \in Shells : /\ shell'[h].session_id = shell[h].session_id
                          /\ shell'[h].reader = shell[h].reader
    BY <1>7, <1>s DEF Attach, SshConnection
  <2> QED BY <1>7, <1>t, <1>i, <2>1 DEF Attach, IoGoes, Starting
<1>8. ASSUME NEW c \in Conns, StartReader(c) PROVE Starting'
  <2>1. \A h \in Shells : h # c => shell'[h] = shell[h]
    BY <1>8, <1>s DEF StartReader
  <2>2. shell'[c].reader = "reading"
    BY <1>8, <1>s DEF StartReader, SshConnection
  <2> QED BY <1>8, <1>t, <1>i, <2>1, <2>2 DEF StartReader, IoGoes, IoReturns,
    Starting
<1>9. ASSUME NEW c \in Conns,
             OnCloseUnknown(c) \/ OnCloseKeep(c) \/ OnCloseEnd(c)
      PROVE  Starting'
  <2>1. \A h \in Shells : /\ shell'[h].session_id = shell[h].session_id
                          /\ shell'[h].reader = shell[h].reader
    BY <1>9, <1>s DEF OnCloseUnknown, OnCloseKeep, OnCloseEnd, SshConnection
  <2>2. \A d \in Conns : io[d].pc # "idle" =>
          ws_connections'[d] = ws_connections[d] /\ io'[d].pc = io[d].pc
    BY <1>9, <1>i, <1>w DEF OnCloseUnknown, OnCloseKeep, OnCloseEnd, Closes,
      IoGoes
  <2>3. \A d \in Conns : io[d].pc = "idle" =>
          io'[d].pc \notin {"checked", "connecting"}
    BY <1>9, <1>i DEF OnCloseUnknown, OnCloseKeep, OnCloseEnd, IoGoes
  <2> QED BY <1>t, <2>1, <2>2, <2>3 DEF Starting
<1>10. ASSUME NEW c \in Conns, Detach(c) \/ ArmTimer(c) \/ CloseJoin(c)
       PROVE  Starting'
  <2>1. \A h \in Shells : /\ shell'[h].session_id = shell[h].session_id
                          /\ shell'[h].reader = shell[h].reader
    BY <1>10, <1>s DEF Detach, ArmTimer, CloseJoin, free_shell, SshConnection
  <2> QED BY <1>10, <1>t, <1>i, <2>1 DEF Detach, ArmTimer, CloseJoin, IoGoes,
    IoReturns, Starting
<1>11. ASSUME NEW h \in Shells, ReaderNext(h) PROVE Starting'
  <2>1. \A k \in Shells : /\ shell'[k].session_id = shell[k].session_id
                          /\ shell[k].reader # "none" => shell'[k].reader # "none"
    BY <1>11, <1>s DEF ReaderNext, ReadEnd, ReaderStop, ReaderTerminate,
      TellClient, SshConnection
  <2>2. UNCHANGED <<io, ws_connections>>
    BY <1>11 DEF ReaderNext, ReadEnd, ReaderStop, ReaderTerminate, TellClient
  <2> QED BY <1>t, <2>1, <2>2 DEF Starting
<1>12. ASSUME NEW t \in timers, TimerNext(t) PROVE Starting'
  <2>1. \A k \in Shells : /\ shell'[k].session_id = shell[k].session_id
                          /\ shell'[k].reader = shell[k].reader
    BY <1>12, <1>s DEF TimerNext, TimerExpire, TimerReturn, TimerTerminate,
      TimerJoin, free_shell, SshConnection
  <2>2. UNCHANGED <<io, ws_connections>>
    BY <1>12 DEF TimerNext, TimerExpire, TimerReturn, TimerTerminate, TimerJoin
  <2> QED BY <1>t, <2>1, <2>2 DEF Starting
<1>13. ASSUME NEW a \in Admins, AdminNext(a) PROVE Starting'
  <2>1. \A k \in Shells : /\ shell'[k].session_id = shell[k].session_id
                          /\ shell'[k].reader = shell[k].reader
    BY <1>13, <1>t, AdminTakes
  <2>2. UNCHANGED io
    BY <1>13 DEF AdminNext, Terminate, Collect, CloseNext, CloseJoined,
      CloseNone, CloseDetached, JoinDetached
  <2>3. ASSUME NEW c \in Conns, ws_connections[c] = c,
               shell[c].session_id = None
        PROVE  ws_connections'[c] = c
    <3>1. CASE Collect(a)
      BY <1>t, <2>3, <3>1 DEF Collect, Typing, Holding
    <3>2. CASE ~Collect(a)
      BY <1>13, <2>3, <3>2 DEF AdminNext, Terminate, CloseNext, CloseJoined,
        CloseNone, CloseDetached, JoinDetached
    <3> QED BY <3>1, <3>2
  <2> QED BY <1>t, <2>1, <2>2, <2>3 DEF Starting
<1>14. ASSUME UNCHANGED vars PROVE Starting'
  BY <1>14, <1>t DEF vars, Starting
<1> QED
  BY <1>1, <1>2, <1>3, <1>4, <1>5, <1>6, <1>7, <1>8, <1>9, <1>10, <1>11, <1>12,
    <1>13, <1>14
  DEF Next, IoNext

(* The handler of a websocket is moved by its own thread only.              *)
LEMMA IoStep ==
  ASSUME Typing, [Next]_vars, NEW c \in Conns
  PROVE  io'[c] = io[c] \/ IoNext(c)
<1>i. io \in [Conns -> IoThread]
  BY DEF Typing, TypeOK
<1>1. ASSUME NEW d \in Conns, IoNext(d), d # c PROVE io'[c] = io[c]
  BY <1>1, <1>i DEF IoNext, OnOpen, Start, TakeDetached, RefuseResume,
    NothingDetached, ResumeRegister, ResumeReplay, ConnectFail, Connect,
    Register, Attach, StartReader, OnCloseUnknown, OnCloseKeep, OnCloseEnd,
    Detach, ArmTimer, CloseJoin, IoReturns, IoGoes
<1>2. ASSUME NEW k \in Shells, ReaderNext(k) PROVE UNCHANGED io
  BY <1>2 DEF ReaderNext, ReadEnd, ReaderStop, ReaderTerminate, TellClient
<1>3. ASSUME NEW t \in timers, TimerNext(t) PROVE UNCHANGED io
  BY <1>3 DEF TimerNext, TimerExpire, TimerReturn, TimerTerminate, TimerJoin
<1>4. ASSUME NEW a \in Admins, AdminNext(a) PROVE UNCHANGED io
  BY <1>4 DEF AdminNext, Terminate, Collect, CloseNext, CloseJoined,
    CloseNone, CloseDetached, JoinDetached
<1> QED BY <1>1, <1>2, <1>3, <1>4 DEF Next, vars

(* Where the handler of a websocket goes, and with which action.            *)
LEMMA IoGoesTo ==
  ASSUME Typing, NEW c \in Conns, IoNext(c)
  PROVE  \/ io'[c] = io[c] \/ io'[c].pc = "idle"
         \/ io'[c].pc = "checked" /\ \E s \in Sessions : Start(c, s)
         \/ io'[c].pc = "resuming" /\ TakeDetached(c)
         \/ io'[c].pc = "connecting" /\ NothingDetached(c)
         \/ io'[c].pc = "replaying" /\ ResumeRegister(c)
         \/ io'[c].pc = "connected" /\ Connect(c)
         \/ io'[c].pc = "registered" /\ Register(c)
         \/ io'[c].pc = "attached" /\ Attach(c)
         \/ io'[c].pc = "detaching" /\ OnCloseKeep(c)
         \/ io'[c].pc = "joining" /\ OnCloseEnd(c)
         \/ io'[c].pc = "detached" /\ Detach(c)
<1>i. /\ io \in [Conns -> IoThread]
      /\ \A pc, s, h : IoGoes(c, pc, s, h) => io'[c].pc = pc
  BY DEF Typing, TypeOK, IoGoes
<1>1. CASE OnOpen(c) \/ OnCloseUnknown(c)
  BY <1>1 DEF OnOpen, OnCloseUnknown
<1>2. CASE \/ RefuseResume(c) \/ ResumeReplay(c) \/ ConnectFail(c)
           \/ StartReader(c) \/ ArmTimer(c) \/ CloseJoin(c)
  <2>1. IoReturns(c)
    BY <1>2, Zenon DEF RefuseResume, ResumeReplay, ConnectFail, StartReader,
      ArmTimer, CloseJoin
  <2> QED BY <1>i, <2>1, Zenon DEF IoReturns
<1>3. CASE TakeDetached(c) \/ NothingDetached(c) \/ ResumeRegister(c)
  BY <1>i, <1>3, Zenon DEF TakeDetached, NothingDetached, ResumeRegister
<1>4. CASE Connect(c) \/ Register(c) \/ Attach(c)
  BY <1>i, <1>4, Zenon DEF Connect, Register, Attach
<1>5. CASE OnCloseKeep(c) \/ OnCloseEnd(c) \/ Detach(c)
  BY <1>i, <1>5, Zenon DEF OnCloseKeep, OnCloseEnd, Detach
<1>6. CASE \E s \in Sessions : Start(c, s)
  BY <1>i, <1>6, Zenon DEF Start
<1> QED BY <1>1, <1>2, <1>3, <1>4, <1>5, <1>6, Zenon DEF IoNext

(* Only Connect starts a shell, and it starts the shell of its own          *)
(* websocket, which no other thread can be about to free.                   *)
LEMMA OnlyConnectStarts ==
  ASSUME Typing, [Next]_vars, NEW h \in Shells, shell'[h].running
  PROVE  \/ shell[h].running
         \/ h \in Conns /\ Connect(h)
<1> USE DEF Shells
<1>s. shell \in [Shells -> SshConnection]
  BY DEF Typing, TypeOK
<1>1. ASSUME NEW c \in Conns, IoNext(c), ~Connect(c) PROVE shell[h].running
  <2>1. CASE ResumeReplay(c) \/ Register(c) \/ Attach(c)
    BY <2>1, <1>s DEF ResumeReplay, Register, Attach, SshConnection
  <2>2. CASE StartReader(c) \/ OnCloseKeep(c) \/ OnCloseEnd(c)
    BY <2>2, <1>s DEF StartReader, OnCloseKeep, OnCloseEnd, SshConnection
  <2>3. CASE Detach(c) \/ CloseJoin(c)
    BY <2>3, <1>s DEF Detach, CloseJoin, free_shell, SshConnection
  <2>4. CASE UNCHANGED shell
    BY <2>4
  <2> QED BY <1>1, <2>1, <2>2, <2>3, <2>4 DEF IoNext, OnOpen, Start,
    TakeDetached, RefuseResume, NothingDetached, ResumeRegister, ConnectFail,
    OnCloseUnknown, ArmTimer
<1>2. ASSUME NEW c \in Conns, Connect(c) PROVE shell[h].running \/ c = h
  BY <1>2, <1>s DEF Connect, SshConnection
<1>3. ASSUME NEW k \in Shells, ReaderNext(k) PROVE shell[h].running
  BY <1>3, <1>s DEF ReaderNext, ReadEnd, ReaderStop, ReaderTerminate,
    TellClient, SshConnection
<1>4. ASSUME NEW t \in timers, TimerNext(t) PROVE shell[h].running
  BY <1>4, <1>s DEF TimerNext, TimerExpire, TimerReturn, TimerTerminate,
    TimerJoin, free_shell, SshConnection
<1>5. ASSUME NEW a \in Admins, AdminNext(a) PROVE shell[h].running
  BY <1>5, AdminTakes
<1> QED BY <1>1, <1>2, <1>3, <1>4, <1>5 DEF Next, vars

(* When ssh_connect starts a shell, its websocket is its only owner.        *)
LEMMA StartsUnowned ==
  ASSUME Channels, NEW h \in Conns, Connect(h)
  PROVE  Owners(h) = {<<"ws", h>>}
<1>1. ws_connections[h] = h
  BY DEF Channels, Starting, Connect
<1>2. <<"ws", h>> \in WsOwners(h)
  BY <1>1 DEF WsOwners
<1>3. <<"ws", h>> \in Owners(h)
  BY <1>2, Zenon DEF Owners
<1> QED BY <1>3 DEF Channels, Ownership, OneOwner, Shells

(* A shell that some thread is about to free is not started again.          *)
LEMMA NextStopped == Channels /\ [Next]_vars => JoinedIsStopped'
<1> SUFFICES ASSUME Channels, [Next]_vars PROVE JoinedIsStopped'
  OBVIOUS
<1> USE DEF Shells
<1>t. Typing /\ JoinedIsStopped /\ Typing'
  BY NextTyping DEF Channels, Ownership
<1>s. shell \in [Shells -> SshConnection]
  BY <1>t DEF Typing, TypeOK
<1>i. io \in [Conns -> IoThread]
  BY <1>t DEF Typing, TypeOK
<1>a. admin \in [Admins -> AdminThread]
  BY <1>t DEF Typing, TypeOK
<1>1. ASSUME NEW c \in Conns, io'[c].pc = "joining"
      PROVE  ~shell'[io'[c].hand].running
  <2>1. CASE OnCloseEnd(c)
    <3>1. /\ io'[c].hand = ws_connections[c] /\ ws_connections[c] \in Shells
          /\ shell' = [shell EXCEPT ![ws_connections[c]].client = None,
                                    ![ws_connections[c]].running = FALSE]
      BY <1>t, <2>1, <1>i DEF OnCloseEnd, IoGoes, Typing, TypeOK, OrNone
    <3> QED BY <3>1, <1>s DEF SshConnection
  <2>2. CASE io'[c] = io[c]
    <3> DEFINE h == io[c].hand
    <3>1. h \in Shells /\ ~shell[h].running
      BY <1>1, <1>t, <2>2 DEF Typing, Holding, JoinedIsStopped
    <3>2. ASSUME Connect(h) PROVE FALSE
      <4>1. <<"io", c>> \in IoOwners(h)
        BY <1>1, <2>2 DEF IoOwners, InHand
      <4>2. <<"io", c>> \in Owners(h)
        BY <4>1, Zenon DEF Owners
      <4>3. <<"io", c>> = <<"ws", h>>
        BY <3>1, <3>2, <4>2, StartsUnowned
      <4> QED BY <4>3
    <3> QED BY <1>t, <2>2, <3>1, <3>2, OnlyConnectStarts
  <2>3. ASSUME ~OnCloseEnd(c), io'[c] # io[c] PROVE FALSE
    <3>1. IoNext(c)
      BY <1>t, <2>3, IoStep
    <3> QED BY <1>1, <1>t, <2>3, <3>1, IoGoesTo
  <2> QED BY <2>1, <2>2, <2>3
<1>2. ASSUME NEW t \in timers', t.state = "joining"
      PROVE  ~shell'[t.shell].running
  <2>0. t.shell \in Shells
    BY <1>t DEF Typing, TypeOK, Timer
  <2>1. CASE t \in timers
    <3> DEFINE h == t.shell
    <3>1. h \in Shells /\ ~shell[h].running
      BY <1>2, <1>t, <2>0, <2>1 DEF JoinedIsStopped
    <3>2. ASSUME Connect(h) PROVE FALSE
      <4>1. <<"timer", t>> \in TimerOwners(h)
        BY <1>2, <2>1 DEF TimerOwners
      <4>2. <<"timer", t>> \in Owners(h)
        BY <4>1, Zenon DEF Owners
      <4>3. <<"timer", t>> = <<"ws", h>>
        BY <3>1, <3>2, <4>2, StartsUnowned
      <4> QED BY <4>3
    <3> QED BY <1>t, <3>1, <3>2, OnlyConnectStarts
  <2>2. CASE t \notin timers
    <3>1. PICK u \in timers :
            TimerTerminate(u) /\ t = [u EXCEPT !.state = "joining"]
      <4>1. ASSUME NEW c \in Conns, IoNext(c) PROVE t.state = "sleeping"
        <5>1. CASE ArmTimer(c)
          BY <2>2, <5>1 DEF ArmTimer
        <5>2. CASE UNCHANGED timers
          BY <2>2, <5>2
        <5> QED BY <4>1, <5>1, <5>2, Zenon DEF IoNext, OnOpen, Start,
          TakeDetached, RefuseResume, NothingDetached, ResumeRegister,
          ResumeReplay, ConnectFail, Connect, Register, Attach, StartReader,
          OnCloseUnknown, OnCloseKeep, OnCloseEnd, Detach, CloseJoin
      <4>2. ASSUME NEW u \in timers, TimerNext(u)
            PROVE  TimerTerminate(u) /\ t = [u EXCEPT !.state = "joining"]
        <5>1. u \in Timer
          BY <1>t DEF Typing, TypeOK
        <5> QED BY <1>2, <2>2, <4>2, <5>1 DEF TimerNext, TimerExpire,
          TimerReturn, TimerTerminate,
          TimerJoin, TimerGoes, Timer
      <4>3. ASSUME \/ \E k \in Shells : ReaderNext(k)
                   \/ \E a \in Admins : AdminNext(a)
                   \/ UNCHANGED vars
            PROVE  FALSE
        BY <2>2, <4>3 DEF ReaderNext, ReadEnd, ReaderStop, ReaderTerminate,
          TellClient, AdminNext, Terminate, Collect, CloseNext, CloseJoined,
          CloseNone, CloseDetached, JoinDetached, vars
      <4> QED BY <1>2, <4>1, <4>2, <4>3 DEF Next
    <3>2. shell' = [shell EXCEPT ![t.shell].running = FALSE]
      <4>1. u \in Timer
        BY <1>t DEF Typing, TypeOK
      <4>2. t.shell = u.shell
        BY <3>1, <4>1 DEF Timer
      <4> QED BY <3>1, <4>2 DEF TimerTerminate
    <3> QED BY <1>s, <2>0, <3>2 DEF SshConnection
  <2> QED BY <2>1, <2>2
<1>3. ASSUME NEW a \in Admins, admin'[a].state \in {"joining", "joindetached"}
      PROVE  ~shell'[admin'[a].shell].running
  <2>1. CASE CloseNext(a)
    <3>1. PICK e \in admin[a].todo :
            /\ shell' = [shell EXCEPT ![e[2]].client = None,
                                      ![e[2]].running = FALSE]
            /\ admin' = [admin EXCEPT ![a].state = "joining",
                                      ![a].todo = admin[a].todo \ {e},
                                      ![a].ws = e[1], ![a].shell = e[2]]
      BY <2>1, <1>a DEF CloseNext, AdminThread
    <3>2. e[2] \in Shells
      BY <1>a DEF AdminThread
    <3>3. admin'[a].shell = e[2]
      BY <1>a, <3>1 DEF AdminThread
    <3> QED BY <1>s, <3>1, <3>2, <3>3 DEF SshConnection
  <2>2. CASE CloseDetached(a)
    <3> DEFINE d == g_detached[admin[a].session]
    <3>1. d \in Shells
      BY <1>t, <2>2 DEF CloseDetached, Typing, TypeOK, Holding, OrNone
    <3>2. admin'[a].shell = d
      BY <1>a, <2>2 DEF CloseDetached, AdminThread
    <3>3. shell' = [shell EXCEPT ![d].running = FALSE]
      BY <2>2 DEF CloseDetached
    <3> HIDE DEF d
    <3> QED BY <1>s, <3>1, <3>2, <3>3 DEF SshConnection
  <2>3. CASE admin'[a] = admin[a]
    <3> DEFINE h == admin[a].shell
    <3>1. h \in Shells /\ ~shell[h].running
      BY <1>3, <1>t, <2>3 DEF Typing, Holding, JoinedIsStopped
    <3>2. ASSUME Connect(h) PROVE FALSE
      <4>1. <<"admin", a>> \in AdminOwners(h)
        BY DEF AdminOwners
      <4>2. <<"admin", a>> \in Owners(h)
        BY <4>1, Zenon DEF Owners
      <4>3. <<"admin", a>> = <<"ws", h>>
        BY <3>1, <3>2, <4>2, StartsUnowned
      <4> QED BY <4>3
    <3> QED BY <1>t, <2>3, <3>1, <3>2, OnlyConnectStarts
  <2>4. ASSUME ~CloseNext(a), ~CloseDetached(a), admin'[a] # admin[a]
        PROVE  FALSE
    <3>1. PICK b \in Admins : AdminNext(b)
      BY <2>4 DEF Next, IoNext, OnOpen, Start, TakeDetached, RefuseResume,
        NothingDetached, ResumeRegister, ResumeReplay, ConnectFail, Connect,
        Register, Attach, StartReader, OnCloseUnknown, OnCloseKeep,
        OnCloseEnd, Detach, ArmTimer, CloseJoin, ReaderNext, ReadEnd,
        ReaderStop, ReaderTerminate, TellClient, TimerNext, TimerExpire,
        TimerReturn, TimerTerminate, TimerJoin, vars
    <3>2. b = a
      BY <2>4, <3>1, <1>a DEF AdminNext, Terminate, Collect, CloseNext,
        CloseJoined, CloseNone, CloseDetached, JoinDetached
    <3>3. admin'[a].state \in {"collect", "close", "idle"}
      BY <2>4, <3>1, <3>2, <1>a DEF AdminNext, Terminate, Collect,
        CloseJoined, CloseNone, JoinDetached, AdminThread, IdleAdmin
    <3> QED BY <1>3, <3>3
  <2> QED BY <2>1, <2>2, <2>3, <2>4
<1> QED BY <1>1, <1>2, <1>3 DEF JoinedIsStopped

(* Only a shell that was stopped is freed.                                  *)
LEMMA NextRunning == Channels /\ [Next]_vars => RunningHasChannel'
<1> SUFFICES ASSUME Channels, [Next]_vars, NEW h \in Shells, shell'[h].running
             PROVE  shell'[h].channel = "open"
  BY DEF RunningHasChannel
<1> USE DEF Shells
<1>t. Typing /\ JoinedIsStopped /\ RunningHasChannel
  BY DEF Channels, Ownership
<1>s. shell \in [Shells -> SshConnection]
  BY <1>t DEF Typing, TypeOK
<1>1. CASE Connect(h)
  BY <1>1, <1>s DEF Connect, SshConnection
<1>2. ASSUME ~Connect(h) PROVE shell'[h].channel = "open"
  <2>1. shell[h].running /\ shell[h].channel = "open"
    BY <1>t, <1>2, OnlyConnectStarts DEF RunningHasChannel
  <2>2. ASSUME NEW k \in Shells, ~shell[k].running, free_shell(k)
        PROVE  shell'[h].channel = "open"
    BY <1>s, <2>1, <2>2 DEF free_shell, SshConnection
  <2>3. ASSUME NEW c \in Conns, IoNext(c) PROVE shell'[h].channel = "open"
    <3>1. CASE CloseJoin(c)
      BY <1>t, <2>2, <3>1 DEF CloseJoin, JoinedIsStopped, Typing, Holding
    <3>2. CASE ~CloseJoin(c)
      <4>0. CASE Connect(c)
        BY <1>s, <2>1, <4>0 DEF Connect, SshConnection
      <4>1. CASE ResumeReplay(c) \/ Register(c) \/ Attach(c)
        BY <1>s, <2>1, <4>1 DEF ResumeReplay, Register, Attach, SshConnection
      <4>2. CASE StartReader(c) \/ OnCloseKeep(c) \/ OnCloseEnd(c)
        BY <1>s, <2>1, <4>2
        DEF StartReader, OnCloseKeep, OnCloseEnd, SshConnection
      <4>3. CASE Detach(c)
        BY <1>s, <2>1, <4>3 DEF Detach, SshConnection
      <4>4. CASE UNCHANGED shell
        BY <2>1, <4>4
      <4> QED BY <2>3, <3>2, <4>0, <4>1, <4>2, <4>3, <4>4 DEF IoNext, OnOpen,
        Start, TakeDetached, RefuseResume, NothingDetached, ResumeRegister,
        ConnectFail, OnCloseUnknown, ArmTimer
    <3> QED BY <3>1, <3>2
  <2>4. ASSUME NEW k \in Shells, ReaderNext(k)
        PROVE  shell'[h].channel = "open"
    BY <1>s, <2>1, <2>4 DEF ReaderNext, ReadEnd, ReaderStop,
      ReaderTerminate, TellClient, SshConnection
  <2>5. ASSUME NEW t \in timers, TimerNext(t)
        PROVE  shell'[h].channel = "open"
    <3>1. CASE TimerJoin(t)
      BY <1>t, <2>2, <3>1 DEF TimerJoin, JoinedIsStopped, Typing, TypeOK, Timer
    <3>2. CASE ~TimerJoin(t)
      BY <1>s, <2>1, <2>5, <3>2 DEF TimerNext, TimerExpire, TimerReturn,
        TimerTerminate, SshConnection
    <3> QED BY <3>1, <3>2
  <2>6. ASSUME NEW a \in Admins, AdminNext(a)
        PROVE  shell'[h].channel = "open"
    <3>1. CASE CloseJoined(a) \/ JoinDetached(a)
      BY <1>t, <2>2, <3>1
      DEF CloseJoined, JoinDetached, JoinedIsStopped, Typing, Holding
    <3>2. CASE CloseNext(a)
      BY <1>s, <2>1, <3>2 DEF CloseNext, SshConnection
    <3>3. CASE ~(CloseJoined(a) \/ JoinDetached(a) \/ CloseNext(a))
      BY <1>s, <2>1, <2>6, <3>3 DEF AdminNext, Terminate, Collect,
        CloseNone, CloseDetached, SshConnection
    <3> QED BY <3>1, <3>2, <3>3
  <2> QED BY <2>1, <2>3, <2>4, <2>5, <2>6 DEF Next, vars
<1> QED BY <1>1, <1>2

(* Throughout every behaviour no two threads disconnect, resume or expire   *)
(* the same shell.                                                          *)
THEOREM OneOwnerAlways == Spec => []OneOwner
<1>1. Init => Ownership
  BY InitOwnership
<1>2. Ownership /\ [Next]_vars => Ownership'
  BY NextOwnership
<1>3. Ownership => OneOwner
  BY DEF Ownership
<1> QED BY <1>1, <1>2, <1>3, PTL DEF Spec

(* Channels holds throughout every behaviour.                               *)
LEMMA ChannelsAlways == Spec => []Channels
<1>1. Channels /\ [Next]_vars => Channels'
  BY NextOwnership, NextStarting, NextStopped, NextRunning DEF Channels
<1> QED BY <1>1, InitChannels, PTL DEF Spec

(* Throughout every behaviour nobody frees the channel of a shell whose     *)
(* reader is in its read loop and was not told to stop, and a thread that   *)
(* joins a reader has told it to stop, with nobody starting the shell again *)
(* before the join is over.                                                 *)
THEOREM OrderlyEndAlways == Spec => []OrderlyEnd
<1>1. Channels => ReaderHasChannel
  BY DEF Channels, RunningHasChannel, ReaderHasChannel
<1>2. Channels => JoinedIsStopped
  BY DEF Channels
<1>3. Channels => OrderlyEnd
  BY <1>1, <1>2 DEF OrderlyEnd
<1> QED BY <1>3, ChannelsAlways, PTL

-----------------------------------------------------------------------------
(***************************************************************************)
(* Whoever holds a shell holds the right one (RightShell), and g_detached  *)
(* holds shells that wait alone for a timer that finds them                *)
(* (DetachedTable), for every set of sessions, websockets and              *)
(* administrators and every assignment of users and accounts.              *)
(*                                                                         *)
(* Neither is inductive.  A handler checks who may have a shell long       *)
(* before it attaches the websocket, and drops every lock in between, so   *)
(* Custody says what each handler still knows at each point: what it       *)
(* checked (Checked), that a shell's session is set once (NewShells), that *)
(* the shell it is about to attach cannot come into g_detached or into     *)
(* other hands meanwhile (AboutToAttach), and that a shell taken from or   *)
(* on its way to g_detached has no browser (HandsEmpty).                   *)
(***************************************************************************)

USE DEF Shells, OrNone

(* What a handler checked is still true where it is used.                   *)
CheckedBy(c) ==
  /\ io[c].pc \in {"checked", "resuming", "replaying", "connecting",
                   "connected", "registered", "attached"}
       => io[c].req \in Sessions /\ UserOf[c] = Owner[io[c].req]
  /\ io[c].pc \in {"registered", "attached"}
       => shell[c].session_id = io[c].req
  /\ io[c].pc \in {"resuming", "replaying"}
       => /\ shell[io[c].hand].session_id = io[c].req
          /\ AccountOf[io[c].hand] = AccountOf[c]
Checked == \A c \in Conns : CheckedBy(c)

(* A shell without a session is with nobody but the websocket that made it: *)
(* its session id is set once, and only then can it have a browser.         *)
NewShells ==
  \A c \in Conns :
    /\ conn[c] = "new" => io[c].pc = "idle" /\ shell[c].session_id = None
    /\ io[c].pc = "connected"
         => shell[c].session_id = None /\ ws_connections[c] = c
    /\ shell[c].client # None => shell[c].session_id # None

(* The shell that the handler of c is about to attach to c.                 *)
Attaches(c, h) ==
  \/ io[c].pc = "registered" /\ h = c
  \/ io[c].pc = "replaying" /\ h = io[c].hand

(* Until it is attached, no other websocket and no entry of g_detached      *)
(* stands for it, and no handler carries it to or from g_detached.          *)
AboutToAttach ==
  \A c \in Conns, h \in Shells : Attaches(c, h) =>
    /\ \A d \in Conns :
         /\ ws_connections[d] = h => d = c
         /\ ~(io[d].pc \in {"resuming", "detaching"} /\ io[d].hand = h)
    /\ \A s \in Sessions : g_detached[s] # h

(* A shell on its way to or from g_detached has no browser.                 *)
HandsEmpty ==
  \A c \in Conns : io[c].pc \in {"resuming", "detaching"}
                     => shell[io[c].hand].client = None

(* A terminate request holds nothing before it collects.                    *)
EmptyHanded ==
  \A a \in Admins : admin[a].state \in {"idle", "collect"}
                      => admin[a].todo = {} /\ admin[a].shell = None

Custody == /\ Checked /\ NewShells /\ AboutToAttach /\ HandsEmpty
           /\ EmptyHanded /\ RightShell /\ DetachedTable

-----------------------------------------------------------------------------
(* Which steps write what                                                  *)

(* Only Register writes the session id of a shell.                          *)
LEMMA SessionIdStep ==
  ASSUME Typing, [Next]_vars, NEW h \in Shells
  PROVE  shell'[h].session_id = shell[h].session_id \/ Register(h)
<1>s. shell \in [Shells -> SshConnection]
  BY DEF Typing, TypeOK
<1>p. shell' \in [Shells -> SshConnection]
  BY NextTyping DEF Typing, TypeOK
<1>1. ASSUME NEW c \in Conns, IoNext(c), ~Register(c)
      PROVE  shell'[h].session_id = shell[h].session_id
  <2>0. CASE Connect(c)
    BY <2>0, <1>s, <1>p DEF Connect, SshConnection
  <2>1. CASE ResumeReplay(c) \/ Attach(c) \/ StartReader(c)
    BY <2>1, <1>s DEF ResumeReplay, Attach, StartReader, SshConnection
  <2>2. CASE OnCloseKeep(c) \/ OnCloseEnd(c)
    BY <2>2, <1>s DEF OnCloseKeep, OnCloseEnd, SshConnection
  <2>3. CASE Detach(c) \/ CloseJoin(c)
    BY <2>3, <1>s DEF Detach, CloseJoin, free_shell, SshConnection
  <2>4. CASE UNCHANGED shell
    BY <2>4
  <2> QED BY <1>1, <2>0, <2>1, <2>2, <2>3, <2>4 DEF IoNext, OnOpen, Start,
    TakeDetached, RefuseResume, NothingDetached, ResumeRegister, ConnectFail,
    OnCloseUnknown, ArmTimer
<1>2. ASSUME NEW c \in Conns, Register(c), c # h
      PROVE  shell'[h].session_id = shell[h].session_id
  BY <1>2, <1>s DEF Register, SshConnection
<1>3. ASSUME NEW k \in Shells, ReaderNext(k)
      PROVE  shell'[h].session_id = shell[h].session_id
  BY <1>3, <1>s DEF ReaderNext, ReadEnd, ReaderStop, ReaderTerminate,
    TellClient, SshConnection
<1>4. ASSUME NEW t \in timers, TimerNext(t)
      PROVE  shell'[h].session_id = shell[h].session_id
  BY <1>4, <1>s DEF TimerNext, TimerExpire, TimerReturn, TimerTerminate,
    TimerJoin, free_shell, SshConnection
<1>5. ASSUME NEW a \in Admins, AdminNext(a)
      PROVE  shell'[h].session_id = shell[h].session_id
  BY <1>5, AdminTakes
<1> QED BY <1>1, <1>2, <1>3, <1>4, <1>5 DEF Next, vars

(* A shell gets a browser from Attach or from ResumeReplay.                 *)
LEMMA ClientStep ==
  ASSUME Typing, [Next]_vars, NEW h \in Shells
  PROVE  \/ shell'[h].client \in {shell[h].client, None}
         \/ Attach(h) /\ shell'[h].client = h
         \/ \E c \in Conns : /\ ResumeReplay(c) /\ io[c].hand = h
                             /\ shell'[h].client = c
<1>s. shell \in [Shells -> SshConnection]
  BY DEF Typing, TypeOK
<1>p. shell' \in [Shells -> SshConnection]
  BY NextTyping DEF Typing, TypeOK
<1>1. ASSUME NEW c \in Conns, IoNext(c), ~Attach(c), ~ResumeReplay(c)
      PROVE  shell'[h].client \in {shell[h].client, None}
  <2>0. CASE Connect(c)
    BY <2>0, <1>s, <1>p DEF Connect, SshConnection
  <2>1. CASE Register(c) \/ StartReader(c)
    BY <2>1, <1>s DEF Register, StartReader, SshConnection
  <2>2. CASE OnCloseKeep(c) \/ OnCloseEnd(c)
    BY <2>2, <1>s DEF OnCloseKeep, OnCloseEnd, SshConnection
  <2>3. CASE Detach(c) \/ CloseJoin(c)
    BY <2>3, <1>s DEF Detach, CloseJoin, free_shell, SshConnection
  <2>4. CASE UNCHANGED shell
    BY <2>4
  <2> QED BY <1>1, <2>0, <2>1, <2>2, <2>3, <2>4 DEF IoNext, OnOpen, Start,
    TakeDetached, RefuseResume, NothingDetached, ResumeRegister, ConnectFail,
    OnCloseUnknown, ArmTimer
<1>2. ASSUME NEW c \in Conns, Attach(c)
      PROVE  shell'[h].client = IF c = h THEN c ELSE shell[h].client
  BY <1>2, <1>s DEF Attach, SshConnection
<1>3. ASSUME NEW c \in Conns, ResumeReplay(c)
      PROVE  shell'[h].client = IF io[c].hand = h THEN c ELSE shell[h].client
  BY <1>3, <1>s DEF ResumeReplay, SshConnection
<1>4. ASSUME NEW k \in Shells, ReaderNext(k)
      PROVE  shell'[h].client \in {shell[h].client, None}
  BY <1>4, <1>s DEF ReaderNext, ReadEnd, ReaderStop, ReaderTerminate,
    TellClient, SshConnection
<1>5. ASSUME NEW t \in timers, TimerNext(t)
      PROVE  shell'[h].client = shell[h].client
  BY <1>5, <1>s DEF TimerNext, TimerExpire, TimerReturn, TimerTerminate,
    TimerJoin, free_shell, SshConnection
<1>6. ASSUME NEW a \in Admins, AdminNext(a)
      PROVE  shell'[h].client \in {shell[h].client, None}
  BY <1>6, AdminTakes
<1>7. CASE UNCHANGED vars
  BY <1>7 DEF vars
<1>8. CASE \E c \in Conns : IoNext(c)
  <2>1. PICK c \in Conns : IoNext(c)
    BY <1>8
  <2>2. CASE Attach(c)
    BY <1>2, <2>2
  <2>3. CASE ResumeReplay(c)
    BY <1>3, <2>3
  <2>4. CASE ~Attach(c) /\ ~ResumeReplay(c)
    BY <1>1, <2>1, <2>4
  <2> QED BY <2>2, <2>3, <2>4
<1> QED BY <1>4, <1>5, <1>6, <1>7, <1>8 DEF Next

(* A websocket gets a shell from onopen or from a resume, and loses it to   *)
(* its onclose or to a terminate request of the shell's session.            *)
LEMMA WsStep ==
  ASSUME Typing, [Next]_vars, NEW d \in Conns
  PROVE  \/ ws_connections'[d] = ws_connections[d]
         \/ /\ ws_connections'[d] = None
            /\ \/ io[d].pc = "idle"
               \/ shell[ws_connections[d]].session_id \in Sessions
         \/ OnOpen(d) /\ ws_connections'[d] = d
         \/ ResumeRegister(d) /\ ws_connections'[d] = io[d].hand
<1>w. ws_connections \in [Conns -> OrNone(Shells)]
  BY DEF Typing, TypeOK
<1>1. ASSUME NEW c \in Conns, IoNext(c), ~OnOpen(c), ~ResumeRegister(c)
      PROVE  \/ ws_connections'[d] = ws_connections[d]
             \/ ws_connections'[d] = None /\ io[d].pc = "idle"
  BY <1>1, <1>w DEF IoNext, Start, TakeDetached, RefuseResume,
    NothingDetached, ResumeReplay, ConnectFail, Connect, Register, Attach,
    StartReader, OnCloseUnknown, OnCloseKeep, OnCloseEnd, Closes, Detach,
    ArmTimer, CloseJoin
<1>2. ASSUME NEW c \in Conns, OnOpen(c)
      PROVE  ws_connections'[d] = IF c = d THEN d ELSE ws_connections[d]
  BY <1>2, <1>w DEF OnOpen
<1>3. ASSUME NEW c \in Conns, ResumeRegister(c)
      PROVE  ws_connections'[d]
               = IF c = d THEN io[d].hand ELSE ws_connections[d]
  BY <1>3, <1>w DEF ResumeRegister
<1>4. ASSUME NEW k \in Shells, ReaderNext(k)
      PROVE  UNCHANGED ws_connections
  BY <1>4 DEF ReaderNext, ReadEnd, ReaderStop, ReaderTerminate, TellClient
<1>5. ASSUME NEW t \in timers, TimerNext(t) PROVE UNCHANGED ws_connections
  BY <1>5 DEF TimerNext, TimerExpire, TimerReturn, TimerTerminate, TimerJoin
<1>6. ASSUME NEW a \in Admins, AdminNext(a)
      PROVE  \/ ws_connections'[d] = ws_connections[d]
             \/ /\ ws_connections'[d] = None
                /\ shell[ws_connections[d]].session_id \in Sessions
  <2>1. CASE Collect(a)
    <3>1. admin[a].session \in Sessions
      BY <2>1 DEF Collect, Typing, Holding
    <3> QED BY <2>1, <3>1 DEF Collect
  <2>2. CASE ~Collect(a)
    BY <1>6, <2>2 DEF AdminNext, Terminate, CloseNext, CloseJoined,
      CloseNone, CloseDetached, JoinDetached
  <2> QED BY <2>1, <2>2
<1>7. CASE UNCHANGED vars
  BY <1>7 DEF vars
<1>8. CASE \E c \in Conns : IoNext(c)
  <2>1. PICK c \in Conns : IoNext(c)
    BY <1>8
  <2>2. CASE OnOpen(c)
    BY <1>2, <2>2
  <2>3. CASE ResumeRegister(c)
    BY <1>3, <2>3
  <2>4. CASE ~OnOpen(c) /\ ~ResumeRegister(c)
    BY <1>1, <2>1, <2>4
  <2> QED BY <2>2, <2>3, <2>4
<1> QED BY <1>4, <1>5, <1>6, <1>7, <1>8 DEF Next

(* A shell comes into g_detached by Detach, under its own session.          *)
LEMMA DetachedStep ==
  ASSUME Typing, [Next]_vars, NEW s \in Sessions
  PROVE  \/ g_detached'[s] \in {g_detached[s], None}
         \/ \E c \in Conns :
              /\ Detach(c) /\ g_detached'[s] = io[c].hand
              /\ shell[io[c].hand].session_id = s
<1>g. g_detached \in [Sessions -> OrNone(Shells)]
  BY DEF Typing, TypeOK
<1>1. ASSUME NEW c \in Conns, IoNext(c), ~Detach(c)
      PROVE  g_detached'[s] \in {g_detached[s], None}
  BY <1>1, <1>g DEF IoNext, OnOpen, Start, TakeDetached, RefuseResume,
    NothingDetached, ResumeRegister, ResumeReplay, ConnectFail, Connect,
    Register, Attach, StartReader, OnCloseUnknown, OnCloseKeep, OnCloseEnd,
    ArmTimer, CloseJoin
<1>2. ASSUME NEW c \in Conns, Detach(c)
      PROVE  g_detached'[s] = IF shell[io[c].hand].session_id = s
                              THEN io[c].hand ELSE g_detached[s]
  BY <1>2, <1>g DEF Detach
<1>3. ASSUME NEW k \in Shells, ReaderNext(k)
      PROVE  g_detached'[s] \in {g_detached[s], None}
  BY <1>3, <1>g DEF ReaderNext, ReadEnd, ReaderStop, ReaderTerminate,
    TellClient
<1>4. ASSUME NEW t \in timers, TimerNext(t)
      PROVE  g_detached'[s] \in {g_detached[s], None}
  BY <1>4, <1>g DEF TimerNext, TimerExpire, TimerReturn, TimerTerminate,
    TimerJoin
<1>5. ASSUME NEW a \in Admins, AdminNext(a)
      PROVE  g_detached'[s] \in {g_detached[s], None}
  BY <1>5, <1>g DEF AdminNext, Terminate, Collect, CloseNext, CloseJoined,
    CloseNone, CloseDetached, JoinDetached
<1>6. CASE UNCHANGED vars
  BY <1>6 DEF vars
<1>7. CASE \E c \in Conns : IoNext(c)
  BY <1>1, <1>2, <1>7
<1> QED BY <1>3, <1>4, <1>5, <1>6, <1>7 DEF Next

-----------------------------------------------------------------------------
(* Custody is kept                                                         *)

(* Custody holds when the program starts.                                   *)
LEMMA InitCustody == Init => Custody
<1> SUFFICES ASSUME Init PROVE Custody
  OBVIOUS
<1> USE ConstAssumption
<1>1. Checked /\ HandsEmpty
  BY DEF Init, Checked, CheckedBy, HandsEmpty
<1>2. NewShells
  BY DEF Init, NewShells
<1>3. AboutToAttach
  BY DEF Init, AboutToAttach, Attaches
<1>4. EmptyHanded
  BY DEF Init, EmptyHanded, IdleAdmin
<1>5. RightShell
  BY DEF Init, RightShell, SameAccount, OwnSession, IdleAdmin
<1>6. DetachedTable
  BY DEF Init, DetachedTable, EntryHasTimer, DetachedAlone
<1> QED BY <1>1, <1>2, <1>3, <1>4, <1>5, <1>6 DEF Custody

(* Once a shell has a session it keeps it.                                  *)
LEMMA SessionKept ==
  ASSUME Typing, NewShells, [Next]_vars, NEW h \in Shells,
         shell[h].session_id # None
  PROVE  shell'[h].session_id = shell[h].session_id
  BY SessionIdStep DEF NewShells, Register

(* A new shell stays with the websocket that made it.                       *)
LEMMA NextNewShells == Channels /\ Custody /\ [Next]_vars => NewShells'
<1> SUFFICES ASSUME Channels, Custody, [Next]_vars, NEW c \in Conns
             PROVE  /\ conn'[c] = "new"
                         => io'[c].pc = "idle" /\ shell'[c].session_id = None
                    /\ io'[c].pc = "connected"
                         => /\ shell'[c].session_id = None
                            /\ ws_connections'[c] = c
                    /\ shell'[c].client # None
                         => shell'[c].session_id # None
  BY DEF NewShells
<1> USE ConstAssumption
<1>t. Typing /\ Starting /\ NewShells /\ Checked
  BY DEF Channels, Ownership, Custody
<1>i. io \in [Conns -> IoThread]
  BY <1>t DEF Typing, TypeOK
<1>s. shell \in [Shells -> SshConnection]
  BY <1>t DEF Typing, TypeOK
<1>1. ASSUME conn'[c] = "new"
      PROVE  io'[c].pc = "idle" /\ shell'[c].session_id = None
  <2>1. conn[c] = "new" /\ io[c].pc = "idle" /\ shell[c].session_id = None
    BY <1>t, <1>1, NeverNewAgain DEF NewShells
  <2>2. ~IoNext(c)
    BY <1>1, <2>1, <1>t DEF Typing, TypeOK, IoNext, OnOpen, Start,
      TakeDetached, RefuseResume, NothingDetached, ResumeRegister,
      ResumeReplay, ConnectFail, Connect, Register, Attach, StartReader,
      OnCloseUnknown, OnCloseKeep, OnCloseEnd, Closes, Detach, ArmTimer,
      CloseJoin
  <2>3. ~Register(c)
    BY <2>1 DEF Register
  <2> QED BY <1>t, <2>1, <2>2, <2>3, IoStep, SessionIdStep
<1>2. ASSUME io'[c].pc = "connected"
      PROVE  shell'[c].session_id = None /\ ws_connections'[c] = c
  <2>1. CASE Connect(c)
    <3>1. ws_connections[c] = c /\ shell[c].session_id = None
      BY <1>t, <2>1 DEF Starting, Connect
    <3>2. ~Register(c)
      BY <2>1 DEF Connect, Register
    <3> QED BY <1>t, <2>1, <3>1, <3>2, SessionIdStep DEF Connect
  <2>2. CASE io'[c] = io[c]
    <3>1. /\ io[c].pc = "connected" /\ ws_connections[c] = c
          /\ shell[c].session_id = None
      BY <1>t, <1>2, <2>2 DEF NewShells
    <3>2. ~Register(c) /\ ~ResumeRegister(c)
      BY <1>2, <1>i, <3>1 DEF Register, ResumeRegister, IoGoes
    <3>3. ws_connections'[c] = c
      BY <1>t, <3>1, <3>2, WsStep
    <3> QED BY <1>t, <3>1, <3>2, <3>3, SessionIdStep
  <2>3. ASSUME IoNext(c), ~Connect(c), io'[c] # io[c] PROVE FALSE
    BY <1>2, <1>t, <2>3, IoGoesTo
  <2> QED BY <1>t, <2>1, <2>2, <2>3, IoStep
<1>3. ASSUME shell'[c].client # None PROVE shell'[c].session_id # None
  <2>1. shell[c].session_id # None
    <3>1. CASE shell[c].client # None
      BY <1>t, <3>1 DEF NewShells
    <3>2. CASE Attach(c)
      BY <1>t, <3>2 DEF Attach, Checked, CheckedBy
    <3>3. CASE \E d \in Conns : ResumeReplay(d) /\ io[d].hand = c
      BY <1>t, <3>3 DEF ResumeReplay, Checked, CheckedBy
    <3> QED BY <1>t, <1>3, <3>1, <3>2, <3>3, ClientStep
  <2> QED BY <1>t, <2>1, SessionKept
<1> QED BY <1>1, <1>2, <1>3

(* What a handler checked stays true until it uses it.                      *)
LEMMA NextChecked == Channels /\ Custody /\ [Next]_vars => Checked'
<1> SUFFICES ASSUME Channels, Custody, [Next]_vars, NEW c \in Conns
             PROVE  CheckedBy(c)'
  BY DEF Checked
<1> USE ConstAssumption
<1>t. Typing /\ NewShells /\ CheckedBy(c) /\ DetachedAlone
  BY DEF Channels, Ownership, Custody, DetachedTable, Checked
<1>i. io \in [Conns -> IoThread]
  BY <1>t DEF Typing, TypeOK
<1>s. shell \in [Shells -> SshConnection]
  BY <1>t DEF Typing, TypeOK
<1>1. CASE io'[c] = io[c]
  <2>1. ASSUME NEW h \in Shells, shell[h].session_id \in Sessions
        PROVE  shell'[h].session_id = shell[h].session_id
    BY <1>t, <2>1, SessionKept
  <2> QED BY <1>t, <1>1, <2>1 DEF CheckedBy, Typing, Holding
<1>2. CASE \E s \in Sessions : Start(c, s)
  BY <1>i, <1>2 DEF Start, may_drive_session, IoGoes, CheckedBy
<1>3. CASE TakeDetached(c)
  BY <1>t, <1>i, <1>3 DEF TakeDetached, Resumable, IoGoes, CheckedBy,
    DetachedAlone
<1>4. CASE NothingDetached(c) \/ ResumeRegister(c)
  BY <1>t, <1>i, <1>4 DEF NothingDetached, ResumeRegister, IoGoes, CheckedBy
<1>5. CASE Connect(c)
  BY <1>t, <1>i, <1>5 DEF Connect, IoGoes, CheckedBy
<1>6. CASE Register(c)
  BY <1>t, <1>i, <1>s, <1>6 DEF Register, IoGoes, CheckedBy, SshConnection
<1>7. CASE Attach(c)
  <2>1. ~Register(c)
    BY <1>7 DEF Attach, Register
  <2>2. shell'[c].session_id = shell[c].session_id
    BY <1>t, <2>1, SessionIdStep
  <2> QED BY <1>t, <1>i, <1>7, <2>2 DEF Attach, IoGoes, CheckedBy
<1>8. CASE io'[c].pc \in {"idle", "detaching", "detached", "joining"}
  BY <1>8 DEF CheckedBy
<1>9. IoNext(c) =>
        \/ io'[c].pc \in {"idle", "detaching", "detached", "joining"}
        \/ io'[c] = io[c] \/ \E s \in Sessions : Start(c, s)
        \/ TakeDetached(c) \/ NothingDetached(c) \/ ResumeRegister(c)
        \/ Connect(c) \/ Register(c) \/ Attach(c)
  BY <1>t, IoGoesTo
<1> QED
  BY <1>t, <1>1, <1>2, <1>3, <1>4, <1>5, <1>6, <1>7, <1>8, <1>9, IoStep

(* Every place that holds a shell is among its owners.                      *)
LEMMA Owning ==
  ASSUME NEW h \in Shells
  PROVE  /\ \A d \in Conns : ws_connections[d] = h => <<"ws", d>> \in Owners(h)
         /\ \A d \in Conns : io[d].pc \in InHand /\ io[d].hand = h
              => <<"io", d>> \in Owners(h)
         /\ \A s \in Sessions : g_detached[s] = h
              => <<"detached", s>> \in Owners(h)
<1>1. \A d \in Conns : ws_connections[d] = h => <<"ws", d>> \in WsOwners(h)
  BY DEF WsOwners
<1>2. \A d \in Conns : io[d].pc \in InHand /\ io[d].hand = h
        => <<"io", d>> \in IoOwners(h)
  BY DEF IoOwners
<1>3. \A s \in Sessions : g_detached[s] = h
        => <<"detached", s>> \in DetachedOwners(h)
  BY DEF DetachedOwners
<1> QED BY <1>1, <1>2, <1>3, Zenon DEF Owners

(* A shell about to be attached stays out of g_detached and other hands.    *)
LEMMA NextAboutToAttach ==
  Channels /\ Custody /\ [Next]_vars => AboutToAttach'
<1> SUFFICES ASSUME Channels, Custody, [Next]_vars, NEW c \in Conns,
                    NEW h \in Shells, Attaches(c, h)'
             PROVE  /\ \A d \in Conns :
                         /\ ws_connections'[d] = h => d = c
                         /\ ~(/\ io'[d].pc \in {"resuming", "detaching"}
                              /\ io'[d].hand = h)
                    /\ \A s \in Sessions : g_detached'[s] # h
  BY DEF AboutToAttach
<1> USE ConstAssumption
<1>t. /\ Typing /\ OneOwner /\ NewShells /\ Checked /\ AboutToAttach
      /\ Starting
  BY DEF Channels, Ownership, Custody
<1>i. io \in [Conns -> IoThread]
  BY <1>t DEF Typing, TypeOK
<1>w. ws_connections \in [Conns -> OrNone(Shells)]
  BY <1>t DEF Typing, TypeOK
<1>g. g_detached \in [Sessions -> OrNone(Shells)]
  BY <1>t DEF Typing, TypeOK
<1>1. CASE Register(c)
  <2>1. h = c /\ io[c].pc = "connected"
    BY <1>1, <1>i DEF Attaches, Register, IoGoes
  <2>2. <<"ws", c>> \in Owners(h)
    BY <1>t, <2>1, Owning DEF NewShells
  <2>3. \A q \in Owners(h) : q = <<"ws", c>>
    BY <1>t, <2>2, Zenon DEF OneOwner
  <2>4. \A d \in Conns : /\ ws_connections[d] = h => d = c
                         /\ ~(io[d].pc \in InHand /\ io[d].hand = h)
    BY <2>3, Owning
  <2>5. \A s \in Sessions : g_detached[s] # h
    BY <2>3, Owning
  <2> QED BY <1>1, <1>i, <2>4, <2>5 DEF Register, IoGoes, InHand
<1>2. CASE ResumeRegister(c)
  <2>1. h = io[c].hand /\ io[c].pc = "resuming"
    BY <1>2, <1>i DEF Attaches, ResumeRegister, IoGoes
  <2>2. <<"io", c>> \in Owners(h)
    BY <2>1, Owning DEF InHand
  <2>3. \A q \in Owners(h) : q = <<"io", c>>
    BY <1>t, <2>2, Zenon DEF OneOwner
  <2>4. \A d \in Conns : /\ ws_connections[d] # h
                         /\ io[d].pc \in InHand /\ io[d].hand = h => d = c
    BY <2>3, Owning
  <2>5. \A s \in Sessions : g_detached[s] # h
    BY <2>3, Owning
  <2> QED BY <1>2, <1>i, <1>w, <2>4, <2>5
    DEF ResumeRegister, IoGoes, InHand
<1>3. CASE io'[c] = io[c]
  <2>1. Attaches(c, h)
    BY <1>3 DEF Attaches
  <2>2. /\ \A d \in Conns :
             /\ ws_connections[d] = h => d = c
             /\ ~(io[d].pc \in {"resuming", "detaching"} /\ io[d].hand = h)
        /\ \A s \in Sessions : g_detached[s] # h
    BY <1>t, <2>1 DEF AboutToAttach
  <2>3. ASSUME NEW d \in Conns, ws_connections'[d] = h PROVE d = c
    <3>1. CASE OnOpen(d) /\ h = d
      BY <1>t, <2>1, <3>1 DEF OnOpen, NewShells, Attaches, Checked, CheckedBy
    <3>2. CASE ResumeRegister(d) /\ h = io[d].hand
      BY <2>2, <3>2 DEF ResumeRegister
    <3> QED BY <1>t, <2>2, <2>3, <3>1, <3>2, WsStep
  <2>4. ASSUME NEW d \in Conns, io'[d].pc \in {"resuming", "detaching"},
               io'[d].hand = h
        PROVE  FALSE
    <3>1. CASE TakeDetached(d)
      <4>1. io[d].req \in Sessions /\ io'[d].hand = g_detached[io[d].req]
        BY <1>t, <1>i, <3>1 DEF TakeDetached, IoGoes, Typing, Holding
      <4> QED BY <2>2, <2>4, <4>1
    <3>2. CASE OnCloseKeep(d)
      <4>1. ws_connections[d] = h /\ io[d].pc = "idle"
        BY <1>i, <2>4, <3>2 DEF OnCloseKeep, Closes, IoGoes
      <4> QED BY <2>1, <2>2, <4>1 DEF Attaches
    <3>3. CASE io'[d] = io[d]
      BY <2>2, <2>4, <3>3
    <3>4. IoNext(d) => TakeDetached(d) \/ OnCloseKeep(d) \/ io'[d] = io[d]
      BY <1>t, <2>4, IoGoesTo
    <3> QED BY <1>t, <3>1, <3>2, <3>3, <3>4, IoStep
  <2>5. ASSUME NEW s \in Sessions, g_detached'[s] = h PROVE FALSE
    BY <1>t, <2>2, <2>5, DetachedStep DEF Detach
  <2> QED BY <2>3, <2>4, <2>5
<1>4. IoNext(c) => Register(c) \/ ResumeRegister(c) \/ io'[c] = io[c]
  BY <1>t, IoGoesTo DEF Attaches
<1> QED BY <1>t, <1>1, <1>2, <1>3, <1>4, IoStep

(* Nobody attaches a browser to a shell on its way to or from g_detached.   *)
LEMMA NextHandsEmpty == Channels /\ Custody /\ [Next]_vars => HandsEmpty'
<1> SUFFICES ASSUME Channels, Custody, [Next]_vars, NEW c \in Conns,
                    io'[c].pc \in {"resuming", "detaching"}
             PROVE  shell'[io'[c].hand].client = None
  BY DEF HandsEmpty
<1> USE ConstAssumption
<1>t. Typing /\ HandsEmpty /\ AboutToAttach /\ DetachedAlone
  BY DEF Channels, Ownership, Custody, DetachedTable
<1>i. io \in [Conns -> IoThread]
  BY <1>t DEF Typing, TypeOK
<1>s. shell \in [Shells -> SshConnection]
  BY <1>t DEF Typing, TypeOK
<1>1. CASE io'[c] = io[c]
  <2>1. io[c].hand \in Shells /\ shell[io[c].hand].client = None
    BY <1>t, <1>1 DEF HandsEmpty, Typing, Holding
  <2>2. \A d \in Conns : ~Attaches(d, io[c].hand)
    BY <1>t, <1>1, <2>1 DEF AboutToAttach
  <2>3. ~Attach(io[c].hand)
    BY <2>1, <2>2 DEF Attach, Attaches
  <2>4. \A d \in Conns : ~(ResumeReplay(d) /\ io[d].hand = io[c].hand)
    BY <2>2 DEF ResumeReplay, Attaches
  <2> QED BY <1>t, <1>1, <2>1, <2>3, <2>4, ClientStep
<1>2. CASE TakeDetached(c)
  BY <1>t, <1>i, <1>2 DEF TakeDetached, Resumable, IoGoes, DetachedAlone,
    Typing, Holding
<1>3. CASE OnCloseKeep(c)
  <2>1. io'[c].hand = ws_connections[c] /\ ws_connections[c] \in Shells
    BY <1>t, <1>i, <1>3 DEF OnCloseKeep, IoGoes, Typing, TypeOK
  <2> QED BY <1>s, <1>3, <2>1 DEF OnCloseKeep, SshConnection
<1>4. IoNext(c) => TakeDetached(c) \/ OnCloseKeep(c) \/ io'[c] = io[c]
  BY <1>t, IoGoesTo
<1> QED BY <1>t, <1>1, <1>2, <1>3, <1>4, IoStep

(* Only a browser that the code checked is attached to a shell.             *)
LEMMA NextSameAccount == Channels /\ Custody /\ [Next]_vars => SameAccount'
<1> SUFFICES ASSUME Channels, Custody, [Next]_vars, NEW h \in Shells,
                    shell'[h].client # None
             PROVE  /\ AccountOf[shell'[h].client] = AccountOf[h]
                    /\ UserOf[shell'[h].client]
                         = Owner[shell'[h].session_id]
  BY DEF SameAccount
<1>t. Typing /\ SameAccount /\ NewShells /\ Checked
  BY DEF Channels, Ownership, Custody, RightShell
<1>1. CASE shell'[h].client = shell[h].client
  <2>1. shell[h].session_id # None
    BY <1>t, <1>1 DEF NewShells
  <2> QED BY <1>t, <1>1, <2>1, SessionKept DEF SameAccount
<1>2. CASE Attach(h) /\ shell'[h].client = h
  <2>1. shell[h].session_id = io[h].req /\ UserOf[h] = Owner[io[h].req]
        /\ shell[h].session_id \in Sessions
    BY <1>t, <1>2 DEF Attach, Checked, CheckedBy
  <2> QED BY <1>t, <1>2, <2>1, SessionKept, ConstAssumption
<1>3. ASSUME NEW c \in Conns, ResumeReplay(c), io[c].hand = h,
             shell'[h].client = c
      PROVE  /\ AccountOf[c] = AccountOf[h]
             /\ UserOf[c] = Owner[shell'[h].session_id]
  <2>1. /\ AccountOf[h] = AccountOf[c] /\ UserOf[c] = Owner[io[c].req]
        /\ shell[h].session_id = io[c].req /\ io[c].req \in Sessions
    BY <1>t, <1>3 DEF ResumeReplay, Checked, CheckedBy
  <2> QED BY <1>t, <2>1, SessionKept, ConstAssumption
<1> QED BY <1>t, <1>1, <1>2, <1>3, ClientStep

(* Terminate requests collect shells of their session; between them, they   *)
(* hold nothing.                                                            *)
LEMMA NextAdmins ==
  Channels /\ Custody /\ [Next]_vars =>
    /\ EmptyHanded'
    /\ \A a \in Admins :
         /\ \A e \in admin'[a].todo :
              shell'[e[2]].session_id = admin'[a].session
         /\ admin'[a].shell # None =>
              shell'[admin'[a].shell].session_id = admin'[a].session
<1> SUFFICES ASSUME Channels, Custody, [Next]_vars, NEW a \in Admins
             PROVE  /\ admin'[a].state \in {"idle", "collect"}
                         => admin'[a].todo = {} /\ admin'[a].shell = None
                    /\ \A e \in admin'[a].todo :
                         shell'[e[2]].session_id = admin'[a].session
                    /\ admin'[a].shell # None =>
                         shell'[admin'[a].shell].session_id
                           = admin'[a].session
  BY DEF EmptyHanded
<1> USE ConstAssumption
<1>t. Typing /\ NewShells /\ EmptyHanded /\ OwnSession /\ DetachedAlone
  BY DEF Channels, Ownership, Custody, RightShell, DetachedTable
<1>a. admin \in [Admins -> AdminThread]
  BY <1>t DEF Typing, TypeOK
<1>k. ASSUME NEW h \in Shells, shell[h].session_id \in Sessions
      PROVE  shell'[h].session_id = shell[h].session_id
  BY <1>t, <1>k, SessionKept
<1>o. /\ \A e \in admin[a].todo :
           e[2] \in Shells /\ shell'[e[2]].session_id = admin[a].session
      /\ admin[a].shell # None =>
           shell'[admin[a].shell].session_id = admin[a].session
  <2>1. admin[a].todo # {} \/ admin[a].shell # None
          => admin[a].session \in Sessions
    BY <1>t DEF EmptyHanded, Typing, Holding
  <2>2. \A e \in admin[a].todo : e[2] \in Shells
    BY <1>a DEF AdminThread
  <2>3. admin[a].shell \in Shells \cup {None}
    BY <1>a DEF AdminThread
  <2> QED BY <1>t, <1>k, <2>1, <2>2, <2>3 DEF OwnSession
<1>1. CASE admin'[a] = admin[a]
  BY <1>t, <1>o, <1>1 DEF EmptyHanded
<1>2. CASE \E s \in Sessions : Terminate(a, s)
  <2>1. admin'[a].todo = {} /\ admin'[a].shell = None
    BY <1>t, <1>a, <1>2 DEF Terminate, EmptyHanded, AdminThread
  <2> QED BY <2>1
<1>3. CASE Collect(a)
  <2> DEFINE mine == {c \in Conns :
                /\ ws_connections[c] # None
                /\ shell[ws_connections[c]].session_id = admin[a].session}
             todo == {<<c, ws_connections[c]>> : c \in mine}
  <2>1. admin' = [admin EXCEPT ![a].state = "close", ![a].todo = todo]
    BY <1>3 DEF Collect
  <2>2. \A e \in todo : shell[e[2]].session_id = admin[a].session
    OBVIOUS
  <2>3. UNCHANGED shell
    BY <1>3 DEF Collect
  <2>4. admin[a].shell = None
    BY <1>t, <1>3 DEF Collect, EmptyHanded
  <2> HIDE DEF todo
  <2>5. /\ admin'[a].state = "close" /\ admin'[a].todo = todo
        /\ admin'[a].shell = None /\ admin'[a].session = admin[a].session
    BY <1>a, <2>1, <2>4 DEF AdminThread
  <2> QED BY <2>2, <2>3, <2>5
<1>4. CASE CloseNext(a)
  <2>1. PICK e \in admin[a].todo :
          admin' = [admin EXCEPT ![a].state = "joining",
                                 ![a].todo = admin[a].todo \ {e},
                                 ![a].ws = e[1], ![a].shell = e[2]]
    BY <1>4, <1>a DEF CloseNext, AdminThread
  <2>2. /\ admin'[a].state = "joining" /\ admin'[a].session = admin[a].session
        /\ admin'[a].todo = admin[a].todo \ {e} /\ admin'[a].shell = e[2]
    BY <1>a, <2>1 DEF AdminThread
  <2> QED BY <1>o, <2>2
<1>5. CASE CloseJoined(a)
  <2>1. /\ admin'[a].state = "close" /\ admin'[a].session = admin[a].session
        /\ admin'[a].todo = admin[a].todo /\ admin'[a].shell = None
    BY <1>a, <1>5 DEF CloseJoined, AdminThread
  <2> QED BY <1>o, <2>1
<1>6. CASE CloseDetached(a)
  <2> DEFINE d == g_detached[admin[a].session]
  <2>1. /\ admin'[a].state = "joindetached" /\ admin'[a].shell = d
        /\ admin'[a].session = admin[a].session /\ admin'[a].todo = {}
    BY <1>a, <1>6 DEF CloseDetached, AdminThread
  <2>2. d \in Shells /\ admin[a].session \in Sessions
    BY <1>t, <1>6 DEF CloseDetached, Typing, TypeOK, Holding
  <2>3. shell[d].session_id = admin[a].session
    BY <1>t, <2>2 DEF DetachedAlone
  <2> HIDE DEF d
  <2> QED BY <1>k, <2>1, <2>2, <2>3
<1>7. CASE CloseNone(a) \/ JoinDetached(a)
  BY <1>a, <1>7 DEF CloseNone, JoinDetached, IdleAdmin
<1>8. admin'[a] = admin[a] \/ AdminNext(a)
  <2>1. ASSUME NEW b \in Admins, AdminNext(b), b # a
        PROVE  admin'[a] = admin[a]
    BY <1>a, <2>1 DEF AdminNext, Terminate, Collect, CloseNext, CloseJoined,
      CloseNone, CloseDetached, JoinDetached
  <2>2. ASSUME \/ \E c \in Conns : IoNext(c)
               \/ \E h \in Shells : ReaderNext(h)
               \/ \E t \in timers : TimerNext(t)
               \/ UNCHANGED vars
        PROVE  UNCHANGED admin
    BY <2>2 DEF IoNext, OnOpen, Start, TakeDetached, RefuseResume,
      NothingDetached, ResumeRegister, ResumeReplay, ConnectFail, Connect,
      Register, Attach, StartReader, OnCloseUnknown, OnCloseKeep,
      OnCloseEnd, Detach, ArmTimer, CloseJoin, ReaderNext, ReadEnd,
      ReaderStop, ReaderTerminate, TellClient, TimerNext, TimerExpire,
      TimerReturn, TimerTerminate, TimerJoin, vars
  <2> QED BY <2>1, <2>2 DEF Next
<1> QED
  BY <1>1, <1>2, <1>3, <1>4, <1>5, <1>6, <1>7, <1>8 DEF AdminNext

(* A timer is started by onclose, for the session of the shell; a sleeping  *)
(* one ends by expiring or by finding that its shell is not waiting.        *)
LEMMA TimersStep ==
  ASSUME Typing, [Next]_vars
  PROVE  /\ \A t \in timers' :
              \/ \E u \in timers : t.shell = u.shell /\ t.session = u.session
              \/ \E c \in Conns :
                   /\ io[c].pc = "detached" /\ t.shell = io[c].hand
                   /\ t.session = shell[io[c].hand].session_id
         /\ \A t \in timers : t.state = "sleeping" =>
              t \in timers' \/ TimerExpire(t) \/ TimerReturn(t)
<1> DEFINE Kept ==
             /\ \A t \in timers' :
                  \/ \E u \in timers : t.shell = u.shell /\ t.session = u.session
                  \/ \E c \in Conns :
                       /\ io[c].pc = "detached" /\ t.shell = io[c].hand
                       /\ t.session = shell[io[c].hand].session_id
             /\ \A t \in timers : t.state = "sleeping" =>
                  t \in timers' \/ TimerExpire(t) \/ TimerReturn(t)
<1>t. timers \subseteq Timer
  BY DEF Typing, TypeOK
<1>1. CASE UNCHANGED timers
  BY <1>1
<1>2. ASSUME NEW c \in Conns, ArmTimer(c) PROVE Kept
  <2>1. PICK n : timers' = timers \cup
          {[shell |-> io[c].hand, session |-> shell[io[c].hand].session_id,
            nth |-> n, state |-> "sleeping"]}
    BY <1>2 DEF ArmTimer
  <2> QED BY <1>2, <2>1 DEF ArmTimer
<1>3. ASSUME NEW u \in timers, TimerNext(u) PROVE Kept
  <2>1. u \in Timer
    BY <1>t
  <2>2. CASE TimerReturn(u) \/ TimerJoin(u)
    BY <2>2 DEF TimerReturn, TimerJoin
  <2>3. CASE TimerExpire(u) \/ TimerTerminate(u)
    <3>1. PICK x : timers' = (timers \ {u}) \cup {[u EXCEPT !.state = x]}
      BY <2>3 DEF TimerExpire, TimerTerminate, TimerGoes
    <3>2. /\ [u EXCEPT !.state = x].shell = u.shell
          /\ [u EXCEPT !.state = x].session = u.session
      BY <2>1 DEF Timer
    <3> QED BY <2>3, <3>1, <3>2 DEF TimerTerminate
  <2> QED BY <1>3, <2>2, <2>3 DEF TimerNext
<1>4. ASSUME NEW c \in Conns, IoNext(c), ~ArmTimer(c) PROVE UNCHANGED timers
  BY <1>4 DEF IoNext, OnOpen, Start, TakeDetached, RefuseResume,
    NothingDetached, ResumeRegister, ResumeReplay, ConnectFail, Connect,
    Register, Attach, StartReader, OnCloseUnknown, OnCloseKeep, OnCloseEnd,
    Detach, CloseJoin
<1>5. ASSUME \/ \E h \in Shells : ReaderNext(h)
             \/ \E a \in Admins : AdminNext(a)
             \/ UNCHANGED vars
      PROVE  UNCHANGED timers
  BY <1>5 DEF ReaderNext, ReadEnd, ReaderStop, ReaderTerminate, TellClient,
    AdminNext, Terminate, Collect, CloseNext, CloseJoined, CloseNone,
    CloseDetached, JoinDetached, vars
<1> QED BY <1>1, <1>2, <1>3, <1>4, <1>5 DEF Next

(* A grace timer is for the session of its shell.                           *)
LEMMA NextTimers ==
  ASSUME Channels, Custody, [Next]_vars, NEW t \in timers'
  PROVE  shell'[t.shell].session_id = t.session
<1> USE ConstAssumption
<1>t. Typing /\ NewShells /\ OwnSession
  BY DEF Channels, Ownership, Custody, RightShell
<1>1. ASSUME NEW h \in Shells, shell[h].session_id \in Sessions
      PROVE  shell'[h].session_id = shell[h].session_id
  BY <1>t, <1>1, SessionKept
<1>2. ASSUME NEW u \in timers, t.shell = u.shell, t.session = u.session
      PROVE  shell'[t.shell].session_id = t.session
  <2>1. u.shell \in Shells /\ u.session \in Sessions
    BY <1>t DEF Typing, TypeOK, Timer
  <2> QED BY <1>t, <1>1, <1>2, <2>1 DEF OwnSession
<1>3. ASSUME NEW c \in Conns, io[c].pc = "detached", t.shell = io[c].hand,
             t.session = shell[io[c].hand].session_id
      PROVE  shell'[t.shell].session_id = t.session
  BY <1>t, <1>1, <1>3 DEF Typing, Holding
<1> QED BY <1>t, <1>2, <1>3, TimersStep

(* A shell in g_detached keeps waiting alone, for a timer that finds it.    *)
LEMMA NextDetachedTable == Channels /\ Custody /\ [Next]_vars => DetachedTable'
<1> SUFFICES ASSUME Channels, Custody, [Next]_vars, NEW s \in Sessions,
                    g_detached'[s] # None
             PROVE  LET h == g_detached'[s] IN
                    /\ shell'[h].client = None
                    /\ shell'[h].session_id = s
                    /\ \/ \E t \in timers' : /\ t.state = "sleeping"
                                             /\ t.shell = h /\ t.session = s
                       \/ \E c \in Conns : /\ io'[c].pc = "detached"
                                           /\ io'[c].hand = h
  BY DEF DetachedTable, EntryHasTimer, DetachedAlone
<1> USE ConstAssumption
<1> DEFINE h == g_detached'[s]
<1>t. /\ Typing /\ Typing' /\ NewShells /\ AboutToAttach /\ HandsEmpty
      /\ EntryHasTimer /\ DetachedAlone
  BY NextTyping DEF Channels, Ownership, Custody, DetachedTable
<1>i. io \in [Conns -> IoThread]
  BY <1>t DEF Typing, TypeOK
<1>s. shell \in [Shells -> SshConnection]
  BY <1>t DEF Typing, TypeOK
<1>h. h \in Shells
  BY <1>t DEF Typing, TypeOK
<1>1. CASE g_detached'[s] = g_detached[s]
  <2>1. shell[h].client = None /\ shell[h].session_id = s
    BY <1>t, <1>1 DEF DetachedAlone
  <2>2. shell'[h].session_id = s
    BY <1>t, <1>h, <2>1, SessionKept
  <2>3. \A c \in Conns : ~Attaches(c, h)
    BY <1>t, <1>h, <1>1 DEF AboutToAttach
  <2>4. ~Attach(h) /\ \A c \in Conns : ~(ResumeReplay(c) /\ io[c].hand = h)
    BY <1>h, <2>3 DEF Attach, ResumeReplay, Attaches
  <2>5. shell'[h].client = None
    BY <1>t, <1>h, <2>1, <2>4, ClientStep
  <2>6. CASE \E t \in timers : /\ t.state = "sleeping"
                               /\ t.shell = h /\ t.session = s
    <3>1. PICK t \in timers : /\ t.state = "sleeping"
                              /\ t.shell = h /\ t.session = s
      BY <2>6
    <3>2. ~TimerExpire(t)
      BY <1>t, <1>1, <3>1 DEF TimerExpire, Typing, TypeOK
    <3>3. ~TimerReturn(t)
      BY <1>1, <3>1 DEF TimerReturn
    <3>4. t \in timers'
      BY <1>t, <3>1, <3>2, <3>3, TimersStep
    <3> QED BY <2>2, <2>5, <3>1, <3>4
  <2>7. CASE \E c \in Conns : io[c].pc = "detached" /\ io[c].hand = h
    <3>1. PICK c \in Conns : io[c].pc = "detached" /\ io[c].hand = h
      BY <2>7
    <3>2. CASE io'[c] = io[c]
      BY <2>2, <2>5, <3>1, <3>2
    <3>3. CASE ArmTimer(c)
      <4>1. PICK n : [shell |-> h, session |-> s, nth |-> n,
                      state |-> "sleeping"] \in timers'
        BY <2>1, <3>1, <3>3 DEF ArmTimer
      <4> QED BY <2>2, <2>5, <4>1
    <3>4. IoNext(c) => ArmTimer(c) \/ io'[c] = io[c]
      BY <3>1 DEF IoNext, OnOpen, Start, TakeDetached, RefuseResume,
        NothingDetached, ResumeRegister, ResumeReplay, ConnectFail, Connect,
        Register, Attach, StartReader, OnCloseUnknown, OnCloseKeep,
        OnCloseEnd, Closes, Detach, CloseJoin
    <3> QED BY <1>t, <3>2, <3>3, <3>4, IoStep
  <2> QED BY <1>t, <1>1, <2>6, <2>7 DEF EntryHasTimer
<1>2. ASSUME NEW c \in Conns, Detach(c), h = io[c].hand,
             shell[h].session_id = s
      PROVE  /\ shell'[h].client = None /\ shell'[h].session_id = s
             /\ io'[c].pc = "detached" /\ io'[c].hand = h
  <2>1. shell[h].client = None
    BY <1>t, <1>2 DEF Detach, HandsEmpty
  <2>2. shell' = [shell EXCEPT ![h].detachments = @ + 1]
    BY <1>2 DEF Detach
  <2>3. io'[c].pc = "detached" /\ io'[c].hand = h
    BY <1>i, <1>2 DEF Detach, IoGoes
  <2> HIDE DEF h
  <2>4. shell'[h].client = None /\ shell'[h].session_id = s
    BY <1>s, <1>h, <1>2, <2>1, <2>2 DEF SshConnection
  <2> QED BY <2>3, <2>4
<1> QED BY <1>t, <1>1, <1>2, DetachedStep

(* Custody is inductive.                                                    *)
LEMMA NextCustody == Channels /\ Custody /\ [Next]_vars => Custody'
<1> SUFFICES ASSUME Channels, Custody, [Next]_vars PROVE Custody'
  OBVIOUS
<1>1. Checked' /\ NewShells' /\ AboutToAttach' /\ HandsEmpty'
  BY NextChecked, NextNewShells, NextAboutToAttach, NextHandsEmpty
<1>2. EmptyHanded' /\ OwnSession'
  BY NextAdmins, NextTimers DEF OwnSession
<1>3. SameAccount' /\ DetachedTable'
  BY NextSameAccount, NextDetachedTable
<1> QED BY <1>1, <1>2, <1>3 DEF Custody, RightShell

-----------------------------------------------------------------------------
(* Channels and Custody hold throughout every behaviour.                    *)
LEMMA CustodyAlways == Spec => [](Channels /\ Custody)
<1>1. Init => Channels /\ Custody
  BY InitChannels, InitCustody
<1>2. Channels /\ Custody /\ [Next]_vars => (Channels /\ Custody)'
  BY NextOwnership, NextRunning, NextStopped, NextStarting, NextCustody
  DEF Channels
<1> QED BY <1>1, <1>2, PTL DEF Spec

(* Throughout every behaviour whoever holds a shell holds the right one: a  *)
(* browser of the account that opened it and of the owner of its session, a *)
(* terminate request or a grace timer of its session.                       *)
THEOREM RightShellAlways == Spec => []RightShell
<1>1. Channels /\ Custody => RightShell
  BY DEF Custody
<1> QED BY <1>1, CustodyAlways, PTL

(* Throughout every behaviour a shell in g_detached has no browser, is      *)
(* filed under its own session, and has a grace timer that will find it.    *)
THEOREM DetachedTableAlways == Spec => []DetachedTable
<1>1. Channels /\ Custody => DetachedTable
  BY DEF Custody
<1> QED BY <1>1, CustodyAlways, PTL
=============================================================================
