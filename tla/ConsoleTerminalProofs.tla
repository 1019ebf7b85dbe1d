----------------------- MODULE ConsoleTerminalProofs -----------------------
(***************************************************************************)
(* Proofs about ConsoleTerminal, for any number of sessions, sockets and   *)
(* retries: an automatic connection sends no password of another session,  *)
(* the tab drives one shell at a time, and "live" is said of the shell on  *)
(* screen.                                                                 *)
(***************************************************************************)
EXTENDS ConsoleTerminal, FiniteSetTheorems, FunctionTheorems, TLAPS

-----------------------------------------------------------------------------
(* The inductive invariant.                                                *)

(* What a socket is made of.                                               *)
Fields(k) == k = [id |-> k.id, ses |-> k.ses, own |-> k.own, by |-> k.by, st |-> k.st]

(* The sockets of the tab are finitely many and have their own ids, never  *)
(* 0: that is what socketRef identifies them by.                           *)
Sockets ==
  /\ IsFiniteSet(sockets)
  /\ \A k \in sockets : k.id # 0
  /\ \A k, m \in sockets : k.id = m.id => k = m
  /\ \A k \in sockets : Fields(k)

(* A password meets the automatic connection of the session on screen only *)
(* when it is for that session.                                            *)
PasswordKept == auto # None /\ active = auto => password \in {None, auto}

(* A socket that is in use and was not opened by the retry timer is of the *)
(* session on screen.                                                      *)
OnScreen == \A k \in sockets : k.st # "closing" /\ k.by # "retry" => k.ses = active

Terminal ==
  /\ Sockets /\ PasswordKept /\ OnScreen
  /\ PasswordForItsSession /\ OneSocket /\ LiveIsOnScreen

(* Before anything is opened the invariant holds.                          *)
LEMMA InitTerminal == Init => Terminal
BY FS_EmptySet DEF Init, Terminal, Sockets, PasswordKept, OnScreen, PasswordForItsSession,
  OneSocket, LiveIsOnScreen

-----------------------------------------------------------------------------
(* Ids of sockets.                                                         *)

(* A set of sockets has no more ids than sockets.                          *)
LEMMA IdsFinite ==
  ASSUME NEW S, IsFiniteSet(S)
  PROVE  /\ IsFiniteSet({k.id : k \in S})
         /\ Cardinality({k.id : k \in S}) <= Cardinality(S)
<1> DEFINE f == [k \in S |-> k.id]
           T == {k.id : k \in S}
<1>1. f \in Surjection(S, T)
  BY DEF Surjection
<1> QED BY <1>1, FS_Surjection

(* Below the bound a new socket gets an id no other one has.               *)
LEMMA FreeIdIsNew ==
  ASSUME IsFiniteSet(sockets), MaySocket
  PROVE  FreeId # 0 /\ \A k \in sockets : k.id # FreeId
<1> DEFINE ids == {k.id : k \in sockets}
           all == 1 .. MaxSockets + 1
<1>n. MaxSockets \in Nat
  BY TerminalAssumption
<1>1. IsFiniteSet(ids) /\ Cardinality(ids) <= Cardinality(sockets)
  BY IdsFinite
<1>2. IsFiniteSet(all) /\ Cardinality(all) = MaxSockets + 1
  <2>1. 1 \in Int /\ MaxSockets + 1 \in Int /\ ~(1 > MaxSockets + 1)
    BY <1>n
  <2>2. IsFiniteSet(1 .. MaxSockets + 1)
        /\ Cardinality(1 .. MaxSockets + 1) = (MaxSockets + 1) - 1 + 1
    BY <2>1, FS_Interval
  <2> QED BY <2>2, <1>n
<1>3. Cardinality(ids) \in Nat /\ Cardinality(sockets) \in Nat /\ Cardinality(all) \in Nat
  BY <1>1, <1>2, FS_CardinalityType
<1>4. Cardinality(ids) < Cardinality(all)
  BY <1>1, <1>2, <1>3, <1>n DEF MaySocket
<1>5. ~(all \subseteq ids)
  <2>1. all \subseteq ids => Cardinality(all) <= Cardinality(ids)
    BY <1>1, FS_Subset
  <2> QED BY <2>1, <1>3, <1>4
<1>6. \E i \in 1 .. MaxSockets + 1 : \A k \in sockets : k.id # i
  BY <1>5
<1>7. FreeId \in 1 .. MaxSockets + 1 /\ \A k \in sockets : k.id # FreeId
  BY <1>6, Zenon DEF FreeId
<1> QED BY <1>7, <1>n

(* Closing the current socket keeps the others, and all ids.               *)
LEMMA CloseCurrentKeeps ==
  ASSUME Sockets, OneSocket
  PROVE  /\ IsFiniteSet(CloseCurrent)
         /\ \A k \in CloseCurrent : k.st = "closing" /\ (k.by # "auto" \/ k \in sockets)
         /\ \A k \in CloseCurrent : \E m \in sockets : k.id = m.id
         /\ \A k, m \in CloseCurrent : k.id = m.id => k = m
         /\ \A k \in CloseCurrent : Fields(k)
<1> DEFINE c(k) == IF k.id = socketRef THEN Closing(k) ELSE k
           f == [k \in sockets |-> c(k)]
<1>1. CloseCurrent = {c(k) : k \in sockets}
  BY DEF CloseCurrent
<1>2. \A k \in sockets : c(k).id = k.id
  BY DEF Closing
<1>3. f \in Surjection(sockets, CloseCurrent)
  BY <1>1 DEF Surjection
<1>4. IsFiniteSet(CloseCurrent)
  BY <1>3, FS_Surjection DEF Sockets
<1>5. ASSUME NEW k \in sockets
      PROVE  c(k).st = "closing" /\ (c(k).by # "auto" \/ c(k) \in sockets)
  <2>1. CASE k.id = socketRef
    BY <2>1 DEF Closing
  <2>2. CASE k.id # socketRef
    BY <2>2 DEF OneSocket
  <2> QED BY <2>1, <2>2
<1>6. \A k, m \in sockets : c(k).id = c(m).id => k = m
  BY <1>2 DEF Sockets
<1>7. \A k \in sockets : Fields(c(k))
  BY DEF Sockets, Fields, Closing
<1> HIDE DEF c
<1> QED BY <1>1, <1>2, <1>4, <1>5, <1>6, <1>7

-----------------------------------------------------------------------------
(* Kinds of steps.                                                         *)

(* A step that leaves sockets, listeners and the session on screen alone   *)
(* and does not say "live".                                                *)
LEMMA SameSockets ==
  ASSUME Terminal, UNCHANGED <<active, sockets, socketRef, listeners>>,
         status' = status \/ status' # "live", PasswordKept'
  PROVE  Terminal'
<1>1. Sockets' /\ OnScreen' /\ PasswordForItsSession' /\ OneSocket'
  BY DEF Terminal, Sockets, OnScreen, PasswordForItsSession, OneSocket
<1>2. LiveIsOnScreen'
  BY DEF Terminal, LiveIsOnScreen, Live
<1> QED BY <1>1, <1>2 DEF Terminal

(* The current socket is closed and there is no other: the session on      *)
(* screen may change.                                                      *)
LEMMA AllClosed ==
  ASSUME Terminal, sockets' = CloseCurrent, socketRef' = 0, listeners' = {},
         status' # "live", PasswordKept'
  PROVE  Terminal'
<1>1. Sockets /\ OneSocket /\ PasswordForItsSession
  BY DEF Terminal
<1>2. /\ IsFiniteSet(CloseCurrent)
      /\ \A k \in CloseCurrent : k.st = "closing" /\ (k.by # "auto" \/ k \in sockets)
      /\ \A k \in CloseCurrent : \E m \in sockets : k.id = m.id
      /\ \A k, m \in CloseCurrent : k.id = m.id => k = m
      /\ \A k \in CloseCurrent : Fields(k)
  BY <1>1, CloseCurrentKeeps
<1>3. Sockets'
  BY <1>1, <1>2 DEF Sockets
<1>4. OnScreen' /\ OneSocket'
  BY <1>2 DEF OnScreen, OneSocket
<1>5. PasswordForItsSession'
  BY <1>1, <1>2 DEF PasswordForItsSession
<1>6. LiveIsOnScreen'
  BY DEF LiveIsOnScreen
<1> QED BY <1>3, <1>4, <1>5, <1>6 DEF Terminal

(* openTerminal: the same object changes nothing, another one closes the   *)
(* socket; the password is forgotten.                                      *)
LEMMA OpenTerminalKeeps ==
  ASSUME Terminal, NEW s, NEW object, NEW resuming, NEW asks,
         openTerminal(s, object, resuming, asks)
  PROVE  Terminal'
<1>1. password' = None /\ status' = "idle" /\ active' = s
      /\ TerminalEffect(object = "listed" /\ fresh /\ active = s)
  BY Zenon DEF openTerminal
<1>2. PasswordKept'
  BY <1>1 DEF PasswordKept
<1>3. CASE object = "listed" /\ fresh /\ active = s
  <2>1. UNCHANGED <<active, sockets, socketRef, listeners>>
    BY <1>1, <1>3 DEF TerminalEffect
  <2> QED BY <1>1, <1>2, <2>1, SameSockets
<1>4. CASE ~(object = "listed" /\ fresh /\ active = s)
  <2>1. sockets' = CloseCurrent /\ socketRef' = 0 /\ listeners' = {}
    BY <1>1, <1>4 DEF TerminalEffect
  <2> QED BY <1>1, <1>2, <2>1, AllClosed
<1> QED BY <1>3, <1>4

(* A new socket takes the place of the current one.                        *)
LEMMA StartSocketKeeps ==
  ASSUME Terminal, NEW s, NEW pw, NEW by, StartSocket(s, pw, by), active' = active,
         by # "retry" => s = active, by = "auto" => pw \in {None, s}, PasswordKept'
  PROVE  Terminal'
<1> DEFINE k == Socket(s, pw, by)
<1>1. Sockets /\ OneSocket /\ PasswordForItsSession
  BY DEF Terminal
<1>2. /\ IsFiniteSet(CloseCurrent)
      /\ \A m \in CloseCurrent : m.st = "closing" /\ (m.by # "auto" \/ m \in sockets)
      /\ \A m \in CloseCurrent : \E n \in sockets : m.id = n.id
      /\ \A m, n \in CloseCurrent : m.id = n.id => m = n
      /\ \A m \in CloseCurrent : Fields(m)
  BY <1>1, CloseCurrentKeeps
<1>3. /\ MaySocket /\ sockets' = CloseCurrent \cup {k}
      /\ socketRef' = k.id /\ listeners' = {} /\ status' = "connecting"
  BY DEF StartSocket
<1>4. k.id = FreeId /\ k.ses = s /\ k.by = by /\ (by = "auto" => k.own) /\ Fields(k)
  BY DEF Socket, Fields
<1>5. FreeId # 0 /\ \A m \in sockets : m.id # FreeId
  BY <1>1, <1>3, FreeIdIsNew DEF Sockets
<1> HIDE DEF k
<1>6. Sockets'
  <2>1. IsFiniteSet(sockets')
    BY <1>2, <1>3, FS_AddElement
  <2>2. \A m \in CloseCurrent : m.id # k.id /\ m.id # 0
    BY <1>1, <1>2, <1>4, <1>5 DEF Sockets
  <2>3. \A m \in sockets' : m.id # 0
    BY <1>3, <1>4, <1>5, <2>2
  <2>4. \A m, n \in sockets' : m.id = n.id => m = n
    BY <1>2, <1>3, <2>2
  <2>5. \A m \in sockets' : Fields(m)
    BY <1>2, <1>3, <1>4
  <2> QED BY <2>1, <2>3, <2>4, <2>5 DEF Sockets
<1>7. OnScreen' /\ OneSocket'
  BY <1>2, <1>3, <1>4 DEF OnScreen, OneSocket
<1>8. PasswordForItsSession'
  BY <1>1, <1>2, <1>3, <1>4 DEF PasswordForItsSession
<1>9. LiveIsOnScreen'
  BY <1>3 DEF LiveIsOnScreen
<1> QED BY <1>6, <1>7, <1>8, <1>9 DEF Terminal

(* connectTerminal for the session on screen.                              *)
LEMMA ConnectKeeps ==
  ASSUME Terminal, NEW by \in {"auto", "click"}, connectTerminal(by), active' = active,
         by = "auto" => password \in {None, active}, PasswordKept'
  PROVE  Terminal'
<1>1. CASE StartSocket(active, password, by)
  BY <1>1, StartSocketKeeps
<1>2. CASE UNCHANGED net
  <2>1. UNCHANGED <<active, sockets, socketRef, listeners, status>>
    BY <1>2 DEF net
  <2> QED BY <2>1, SameSockets
<1> QED BY <1>1, <1>2 DEF connectTerminal

-----------------------------------------------------------------------------
(* Socket events.                                                          *)

(* The event of one socket: its record changes, or it is gone.             *)
LEMMA OtherSockets ==
  ASSUME Sockets, NEW k \in sockets, NEW m, m.id = k.id, Fields(m),
         sockets' = (sockets \ {k}) \cup {m} \/ sockets' = sockets \ {k}
  PROVE  Sockets'
<1>1. IsFiniteSet(sockets \ {k})
  BY FS_RemoveElement DEF Sockets
<1>2. IsFiniteSet(sockets')
  <2>1. IsFiniteSet((sockets \ {k}) \cup {m})
    BY <1>1, FS_AddElement
  <2> QED BY <1>1, <2>1
<1>3. \A n \in sockets' : n = m \/ n \in sockets \ {k}
  OBVIOUS
<1>4. ASSUME NEW n \in sockets' PROVE n.id # 0 /\ Fields(n)
  <2>1. k.id # 0
    BY DEF Sockets
  <2>2. CASE n = m
    BY <2>1, <2>2
  <2>3. CASE n \in sockets
    BY <2>3, Zenon DEF Sockets
  <2> QED BY <1>3, <2>2, <2>3
<1>5. \A n \in sockets \ {k} : n.id # m.id
  BY DEF Sockets
<1>6. \A n, p \in sockets' : n.id = p.id => n = p
  BY <1>3, <1>5 DEF Sockets
<1> QED BY <1>2, <1>4, <1>6 DEF Sockets

(* The current socket is open: "live".                                     *)
LEMMA SocketOpenKeeps ==
  ASSUME Terminal, NEW k \in sockets, SocketOpen(k)
  PROVE  Terminal'
<1> DEFINE m == [k EXCEPT !.st = "open"]
<1>1. Sockets /\ PasswordKept /\ OnScreen /\ OneSocket /\ PasswordForItsSession
  BY DEF Terminal
<1>2. k.st = "new" /\ sockets' = (sockets \ {k}) \cup {m}
      /\ UNCHANGED <<active, auto, password, socketRef>>
  BY DEF SocketOpen, view
<1>3. k.id = socketRef
  BY <1>1, <1>2 DEF OneSocket
<1>4. status' = "live" /\ listeners' = listeners \cup {k.id}
  BY <1>3 DEF SocketOpen
<1>5. m.id = k.id /\ m.ses = k.ses /\ m.by = k.by /\ m.own = k.own /\ m.st = "open" /\ Fields(m)
  <2>1. Fields(k)
    BY <1>1 DEF Sockets
  <2> QED BY <2>1 DEF Fields
<1> HIDE DEF m
<1>6. Sockets'
  BY <1>1, <1>2, <1>5, OtherSockets
<1>7. PasswordKept' /\ OnScreen'
  BY <1>1, <1>2, <1>5 DEF PasswordKept, OnScreen
<1>8. PasswordForItsSession'
  BY <1>1, <1>2, <1>5 DEF PasswordForItsSession
<1>9. OneSocket'
  BY <1>1, <1>2, <1>3, <1>4, <1>5 DEF OneSocket
<1>10. LiveIsOnScreen'
  <2>1. m \in Live' /\ m.st = "open" /\ listeners' = {m.id}
    BY <1>1, <1>2, <1>3, <1>4, <1>5 DEF Live, OneSocket
  <2>2. m.by # "retry" => m.ses = active'
    BY <1>1, <1>2, <1>5 DEF OnScreen
  <2> QED BY <2>1, <2>2 DEF LiveIsOnScreen
<1> QED BY <1>6, <1>7, <1>8, <1>9, <1>10 DEF Terminal

(* An error event comes for the current socket only.                       *)
LEMMA SocketErrorKeeps ==
  ASSUME Terminal, NEW k \in sockets, SocketError(k)
  PROVE  Terminal'
<1> DEFINE m == Closing(k)
<1>1. Sockets /\ PasswordKept /\ OnScreen /\ OneSocket /\ PasswordForItsSession
  BY DEF Terminal
<1>2. k.st # "closing" /\ sockets' = (sockets \ {k}) \cup {m}
      /\ UNCHANGED <<active, auto, password, socketRef, listeners>>
      /\ status' = IF k.id = socketRef THEN "error" ELSE status
  BY DEF SocketError, view
<1>3. status' = "error"
  BY <1>1, <1>2 DEF OneSocket
<1>4. m.id = k.id /\ m.by = "none" /\ m.st = "closing" /\ Fields(m)
  BY DEF Closing, Fields
<1> HIDE DEF m
<1>5. Sockets'
  BY <1>1, <1>2, <1>4, OtherSockets
<1>6. PasswordKept' /\ OnScreen' /\ PasswordForItsSession' /\ OneSocket'
  BY <1>1, <1>2, <1>4 DEF PasswordKept, OnScreen, PasswordForItsSession, OneSocket
<1>7. LiveIsOnScreen'
  BY <1>3 DEF LiveIsOnScreen
<1> QED BY <1>5, <1>6, <1>7 DEF Terminal

(* The close event of the current socket leaves none; that of another one  *)
(* changes nothing on screen.                                              *)
LEMMA SocketCloseKeeps ==
  ASSUME Terminal, NEW k \in sockets, SocketClose(k)
  PROVE  Terminal'
<1>1. Sockets /\ PasswordKept /\ OnScreen /\ OneSocket /\ PasswordForItsSession /\ LiveIsOnScreen
  BY DEF Terminal
<1>2. sockets' = sockets \ {k} /\ UNCHANGED <<active, auto, password>>
  BY DEF SocketClose, view
<1>3. Sockets'
  BY <1>1, <1>2, OtherSockets DEF Sockets
<1>4. PasswordKept' /\ OnScreen' /\ PasswordForItsSession'
  BY <1>1, <1>2 DEF PasswordKept, OnScreen, PasswordForItsSession
<1>5. CASE k.id = socketRef
  <2>1. listeners' = {} /\ socketRef' = 0 /\ status' # "live"
    BY <1>5 DEF SocketClose
  <2>2. \A m \in sockets' : m.st = "closing"
    BY <1>1, <1>2, <1>5 DEF Sockets, OneSocket
  <2> QED BY <1>3, <1>4, <2>1, <2>2 DEF Terminal, OneSocket, LiveIsOnScreen
<1>6. CASE k.id # socketRef
  <2>1. UNCHANGED <<listeners, socketRef, status>>
    BY <1>6 DEF SocketClose
  <2>2. OneSocket'
    BY <1>1, <1>2, <2>1 DEF OneSocket
  <2>3. Live' = Live
    BY <1>2, <1>6, <2>1 DEF Live
  <2>4. LiveIsOnScreen'
    BY <1>1, <1>2, <2>1, <2>3 DEF LiveIsOnScreen
  <2> QED BY <1>3, <1>4, <2>2, <2>4 DEF Terminal
<1> QED BY <1>5, <1>6

-----------------------------------------------------------------------------
(* All steps.                                                              *)

(* What the user, the server, leases, timers and sockets do.               *)
LEMMA EventKeeps ==
  ASSUME Terminal, Event
  PROVE  Terminal'
<1>p. PasswordKept
  BY DEF Terminal
<1>1. ASSUME NEW s \in Sessions, Connect(s) \/ openTab(s) \/ resumeSession(s)
      PROVE  Terminal'
  BY <1>1, OpenTerminalKeeps DEF Connect, openTab, resumeSession
<1>2. ASSUME NEW l \in leases, LeaseAnswer(l) PROVE Terminal'
  <2>1. password' \in {l.ses, None} /\ auto' = l.ses
        /\ UNCHANGED <<active, status, sockets, socketRef, listeners>>
    BY <1>2 DEF LeaseAnswer, net
  <2>2. PasswordKept'
    BY <2>1 DEF PasswordKept
  <2> QED BY <2>1, <2>2, SameSockets
<1>3. ASSUME NEW s \in retries, RetryTimer(s) PROVE Terminal'
  <2>1. UNCHANGED <<active, auto, password>>
    BY <1>3 DEF RetryTimer, view
  <2>2. PasswordKept'
    BY <1>p, <2>1 DEF PasswordKept
  <2>3. CASE StartSocket(s, s, "retry")
    BY <2>1, <2>2, <2>3, StartSocketKeeps
  <2>4. CASE UNCHANGED net
    <3>1. UNCHANGED <<active, sockets, socketRef, listeners, status>>
      BY <2>1, <2>4 DEF net
    <3> QED BY <2>2, <3>1, SameSockets
  <2> QED BY <1>3, <2>3, <2>4 DEF RetryTimer
<1>4. ASSUME NEW k \in sockets, SocketMessage(k) PROVE Terminal'
  <2>1. UNCHANGED <<active, auto, password, sockets, socketRef, listeners>>
        /\ (status' = status \/ status' # "live")
    BY <1>4 DEF SocketMessage
  <2>2. PasswordKept'
    BY <1>p, <2>1 DEF PasswordKept
  <2> QED BY <2>1, <2>2, SameSockets
<1>5. ASSUME NEW k \in sockets, SocketOpen(k) \/ SocketError(k) \/ SocketClose(k)
      PROVE  Terminal'
  BY <1>5, SocketOpenKeeps, SocketErrorKeeps, SocketCloseKeeps
<1>6. CASE TypePassword
  <2>1. password' = active /\ UNCHANGED <<active, auto, status, sockets, socketRef, listeners>>
    BY <1>6 DEF TypePassword, net
  <2>2. PasswordKept'
    BY <2>1 DEF PasswordKept
  <2> QED BY <2>1, <2>2, SameSockets
<1>7. CASE ClickConnect
  <2>1. connectTerminal("click") /\ UNCHANGED <<active, auto, password>>
    BY <1>7 DEF ClickConnect, view
  <2>2. PasswordKept'
    BY <1>p, <2>1 DEF PasswordKept
  <2> QED BY <2>1, <2>2, ConnectKeeps
<1>8. CASE ImportDone \/ ListLoads \/ \E s \in Sessions : onTerminate(s)
  <2>1. UNCHANGED <<active, auto, password, sockets, socketRef, listeners, status>>
    BY <1>8 DEF ImportDone, ListLoads, onTerminate, net
  <2>2. PasswordKept'
    BY <1>p, <2>1 DEF PasswordKept
  <2> QED BY <2>1, <2>2, SameSockets
<1>9. CASE Reload
  <2>1. /\ active' = None /\ status' = "idle" /\ password' = None /\ auto' = None
        /\ sockets' = {} /\ socketRef' = 0 /\ listeners' = {}
    BY <1>9 DEF Reload
  <2> QED BY <2>1, FS_EmptySet DEF Terminal, Sockets, PasswordKept, OnScreen,
        PasswordForItsSession, OneSocket, LiveIsOnScreen
<1> QED
  BY <1>1, <1>2, <1>3, <1>4, <1>5, <1>6, <1>7, <1>8, <1>9, Zenon DEF Event

(* Every step preserves the invariant.                                     *)
LEMMA NextTerminal == Terminal /\ [Next]_vars => Terminal'
<1> SUFFICES ASSUME Terminal, [Next]_vars PROVE Terminal'
  OBVIOUS
<1>p. PasswordKept
  BY DEF Terminal
<1>1. CASE ResumeEffect
  <2>1. CASE openTerminal(stored, "raw", TRUE, {})
    BY <2>1, OpenTerminalKeeps
  <2>2. CASE UNCHANGED <<view, net>>
    <3>1. UNCHANGED <<active, auto, password, sockets, socketRef, listeners, status>>
      BY <2>2 DEF view, net
    <3>2. PasswordKept'
      BY <1>p, <3>1 DEF PasswordKept
    <3> QED BY <3>1, <3>2, SameSockets
  <2> QED BY <1>1, <2>1, <2>2 DEF ResumeEffect
<1>2. CASE AutoConnect
  <2>1. AutoDue /\ auto' = None /\ connectTerminal("auto") /\ UNCHANGED <<active, password>>
    BY <1>2 DEF AutoConnect
  <2>2. PasswordKept'
    BY <2>1 DEF PasswordKept
  <2>3. password \in {None, active}
    BY <1>p, <2>1 DEF AutoDue, PasswordKept
  <2> QED BY <2>1, <2>2, <2>3, ConnectKeeps
<1>3. CASE Closed
  BY <1>3, SocketCloseKeeps DEF Closed
<1>4. CASE Event
  BY <1>4, EventKeeps
<1>5. CASE UNCHANGED vars
  <2>1. UNCHANGED <<active, auto, password, sockets, socketRef, listeners, status>>
    BY <1>5 DEF vars, view, net
  <2>2. PasswordKept'
    BY <1>p, <2>1 DEF PasswordKept
  <2> QED BY <2>1, <2>2, SameSockets
<1> QED BY <1>1, <1>2, <1>3, <1>4, <1>5 DEF Next

(* The invariant holds in every reachable state.                           *)
LEMMA TerminalAlways == Spec => []Terminal
BY InitTerminal, NextTerminal, PTL DEF Spec

(* An automatic connection never sends a password that was leased or typed *)
(* for another session, however late the lease is answered.                *)
THEOREM PasswordForItsSessionAlways == Spec => []PasswordForItsSession
<1>1. Terminal => PasswordForItsSession
  BY DEF Terminal
<1> QED BY <1>1, TerminalAlways, PTL

(* The tab drives one shell at a time: a replaced socket is closed, and    *)
(* keys go to the current one only.                                        *)
THEOREM OneSocketAlways == Spec => []OneSocket
<1>1. Terminal => OneSocket
  BY DEF Terminal
<1> QED BY <1>1, TerminalAlways, PTL

(* While "live" is shown, keys reach the open shell of the session on      *)
(* screen, but for a socket the retry timer opened.                        *)
THEOREM LiveIsOnScreenAlways == Spec => []LiveIsOnScreen
<1>1. Terminal => LiveIsOnScreen
  BY DEF Terminal
<1> QED BY <1>1, TerminalAlways, PTL
=============================================================================
