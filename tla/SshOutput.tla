------------------------------ MODULE SshOutput ------------------------------
(***************************************************************************)
(* What happens to the output of the shells of one SSH session: the        *)
(* recording, the attached browser terminal, the backlog that a resumed    *)
(* terminal is given, and the shadow watchers (backend/src/ssh.cc,         *)
(* backend/src/session_recording.cc).  The reader thread of each shell, the *)
(* I/O threads of terminals and those of watchers run concurrently; each   *)
(* step is one critical section.                                           *)
(*                                                                         *)
(* A byte of output is named by its position; a shell's newlines are the   *)
(* positions that hold a line feed.                                        *)
(***************************************************************************)
EXTENDS Integers, Sequences, FiniteSets

CONSTANTS
  Shells,      \* SSH connections of the session (usually one)
  Pages,       \* browser terminals; each is attached at most once
  Watchers,    \* shadow websockets of the session
  None,
  kBacklogMax, \* size the backlog is cut to
  MaxChunk,    \* largest result of one libssh2_channel_read
  MaxOut       \* bound: bytes each shell writes in all

ASSUME OutputAssumption ==
  /\ None \notin Pages
  /\ kBacklogMax \in Nat /\ MaxChunk \in Nat /\ MaxOut \in [Shells -> Nat]

VARIABLES
  reader,   \* "new", "reading", "deliver", "broadcast" or "ended"
  out,      \* bytes read from the channel so far
  from,     \* position before the chunk the reader holds in "output"
  newlines, \* which of the bytes read are line feeds
  backlog,  \* connection->backlog
  client,   \* connection->client
  view,     \* what each terminal was sent
  recorder, \* shells whose SessionRecorder is open
  cast,     \* what the recording of each shell holds
  rows,     \* recordings of the session without a closedAt, by their shell
  shadows,  \* ctx.shadow_connections[session]
  seen      \* what each watcher was sent of each shell

vars == <<reader, out, from, newlines, backlog, client, view, recorder, cast,
          rows, shadows, seen>>

(* The bytes that follow position n up to position m.                       *)
Bytes(n, m) == [i \in 1..(m - n) |-> n + i]

Init ==
  /\ reader = [h \in Shells |-> "new"]
  /\ out = [h \in Shells |-> 0]
  /\ from = [h \in Shells |-> 0]
  /\ newlines = [h \in Shells |-> {}]
  /\ backlog = [h \in Shells |-> <<>>]
  /\ client = [h \in Shells |-> None]
  /\ view = [p \in Pages |-> <<>>]
  /\ recorder = {}
  /\ cast = [h \in Shells |-> <<>>]
  /\ rows = {}
  /\ shadows = {}
  /\ seen = [w \in Watchers |-> [h \in Shells |-> <<>>]]

-----------------------------------------------------------------------------
(* The terminal of page p opens: a fresh websocket.                         *)
Fresh(p) == view[p] = <<>> /\ \A h \in Shells : client[h] # p

(* onmessage "start": client = &conn, the recording is opened (the file may *)
(* fail to open) and gets its row, the reader thread starts.                *)
StartShell(h, p) ==
  /\ reader[h] = "new" /\ Fresh(p)
  /\ client' = [client EXCEPT ![h] = p]
  /\ \/ recorder' = recorder \cup {h} /\ rows' = rows \cup {h}
     \/ UNCHANGED <<recorder, rows>>
  /\ reader' = [reader EXCEPT ![h] = "reading"]
  /\ UNCHANGED <<out, from, newlines, backlog, view, cast, shadows, seen>>

(* mutant: an error code of libssh2_channel_read is taken for a length      *)
MutReadError(h, n, lf) ==
  /\ reader[h] = "reading"
  /\ out' = [out EXCEPT ![h] = @ - 1]
  /\ UNCHANGED <<reader, from, newlines, backlog, client, view, recorder, cast,
                 rows, shadows, seen>>

(* mutant: only what somebody sees is recorded                              *)
MutReadUnseen(h, n, lf) ==
  /\ reader[h] = "reading"
  /\ out[h] + n <= MaxOut[h]
  /\ lf \subseteq (out[h] + 1)..(out[h] + n)
  /\ from' = [from EXCEPT ![h] = out[h]]
  /\ out' = [out EXCEPT ![h] = out[h] + n]
  /\ newlines' = [newlines EXCEPT ![h] = @ \cup lf]
  /\ cast' = IF h \in recorder /\ client[h] # None
             THEN [cast EXCEPT ![h] = @ \o Bytes(out[h], out[h] + n)]
             ELSE cast
  /\ reader' = [reader EXCEPT ![h] = "deliver"]
  /\ UNCHANGED <<backlog, client, view, recorder, rows, shadows, seen>>

(* libssh2_channel_read returns a chunk; the recorder, if open, appends it. *)
ReadChunk(h, n, lf) ==
  /\ reader[h] = "reading"
  /\ out[h] + n <= MaxOut[h]
  /\ lf \subseteq (out[h] + 1)..(out[h] + n)
  /\ from' = [from EXCEPT ![h] = out[h]]
  /\ out' = [out EXCEPT ![h] = out[h] + n]
  /\ newlines' = [newlines EXCEPT ![h] = @ \cup lf]
  /\ cast' = IF h \in recorder
             THEN [cast EXCEPT ![h] = @ \o Bytes(out[h], out[h] + n)]
             ELSE cast
  /\ reader' = [reader EXCEPT ![h] = "deliver"]
  /\ UNCHANGED <<backlog, client, view, recorder, rows, shadows, seen>>

output(h) == Bytes(from[h], out[h])

(* The end of deliver_output: drop what is beyond kBacklogMax bytes, and    *)
(* from there on up to the first line feed, if there is one.                *)
CutPoint(b, lf) ==
  LET cut == Len(b) - kBacklogMax
      ends == {i \in (cut + 1)..Len(b) : b[i] \in lf}
  IN IF ends = {} THEN cut ELSE CHOOSE i \in ends : \A j \in ends : i <= j
Trim(b, lf) == IF Len(b) <= kBacklogMax THEN b
               ELSE SubSeq(b, CutPoint(b, lf) + 1, Len(b))

(* mutant: the backlog is kept only while no terminal is attached           *)
Mutdeliver_output(h) ==
  /\ reader[h] = "deliver"
  /\ view' = [p \in Pages |-> IF client[h] = p THEN view[p] \o output(h)
                              ELSE view[p]]
  /\ backlog' = IF client[h] # None THEN backlog
                ELSE [backlog EXCEPT ![h] = Trim(@ \o output(h), newlines[h])]
  /\ reader' = [reader EXCEPT ![h] = "broadcast"]
  /\ UNCHANGED <<out, from, newlines, client, recorder, cast, rows, shadows,
                 seen>>

(* deliver_output, under client_mutex.                                      *)
deliver_output(h) ==
  /\ reader[h] = "deliver"
  /\ view' = [p \in Pages |-> IF client[h] = p THEN view[p] \o output(h)
                              ELSE view[p]]
  /\ backlog' = [backlog EXCEPT ![h] = Trim(@ \o output(h), newlines[h])]
  /\ reader' = [reader EXCEPT ![h] = "broadcast"]
  /\ UNCHANGED <<out, from, newlines, client, recorder, cast, rows, shadows,
                 seen>>

(* Under shadow_mutex: every watcher of the session is sent the chunk.      *)
Broadcast(h) ==
  /\ reader[h] = "broadcast"
  /\ seen' = [w \in Watchers |->
                IF w \in shadows
                THEN [seen[w] EXCEPT ![h] = @ \o output(h)] ELSE seen[w]]
  /\ reader' = [reader EXCEPT ![h] = "reading"]
  /\ UNCHANGED <<out, from, newlines, backlog, client, view, recorder, cast,
                 rows, shadows>>

(* The read loop ends: close the recorder and the first row of the session  *)
(* that is still open (the map has no order), then let the browser go.      *)
EndShell(h) ==
  /\ reader[h] = "reading"
  /\ reader' = [reader EXCEPT ![h] = "ended"]
  /\ recorder' = recorder \ {h}
  /\ IF h \in recorder /\ rows # {}
     THEN \E r \in rows : rows' = rows \ {r}
     ELSE UNCHANGED rows
  /\ client' = [client EXCEPT ![h] = None]
  /\ UNCHANGED <<out, from, newlines, backlog, view, cast, shadows, seen>>

(* onclose, under client_mutex: the terminal is gone, the shell goes on.    *)
LeavePage(h) ==
  /\ client[h] # None
  /\ client' = [client EXCEPT ![h] = None]
  /\ UNCHANGED <<reader, out, from, newlines, backlog, view, recorder, cast,
                 rows, shadows, seen>>

(* onmessage "start" that resumes, under client_mutex: replay, go live.     *)
Resume(h, p) ==
  /\ reader[h] # "new" /\ client[h] = None /\ Fresh(p)
  /\ view' = [view EXCEPT ![p] = backlog[h]]
  /\ client' = [client EXCEPT ![h] = p]
  /\ UNCHANGED <<reader, out, from, newlines, backlog, recorder, cast, rows,
                 shadows, seen>>

(* /api/ws/shadow: onopen of a new watcher, and onclose.                    *)
ShadowOpen(w) ==
  /\ w \notin shadows
  /\ shadows' = shadows \cup {w}
  /\ seen' = [seen EXCEPT ![w] = [h \in Shells |-> <<>>]]
  /\ UNCHANGED <<reader, out, from, newlines, backlog, client, view, recorder,
                 cast, rows>>

ShadowClose(w) ==
  /\ w \in shadows
  /\ shadows' = shadows \ {w}
  /\ UNCHANGED <<reader, out, from, newlines, backlog, client, view, recorder,
                 cast, rows, seen>>

Next ==
  \/ \E h \in Shells :
       \/ \E p \in Pages : StartShell(h, p) \/ Resume(h, p)
       \/ \E n \in 1..MaxChunk : \E lf \in SUBSET (1..MaxOut[h]) :
            ReadChunk(h, n, lf)
       \/ deliver_output(h) \/ Broadcast(h) \/ EndShell(h) \/ LeavePage(h)
  \/ \E w \in Watchers : ShadowOpen(w) \/ ShadowClose(w)

Spec == Init /\ [][Next]_vars

-----------------------------------------------------------------------------
TypeOK ==
  /\ reader \in [Shells -> {"new", "reading", "deliver", "broadcast", "ended"}]
  /\ out \in [Shells -> Nat] /\ from \in [Shells -> Nat]
  /\ newlines \in [Shells -> SUBSET Nat]
  /\ backlog \in [Shells -> Seq(Nat)]
  /\ client \in [Shells -> Pages \cup {None}]
  /\ view \in [Pages -> Seq(Nat)]
  /\ recorder \subseteq Shells /\ rows \subseteq Shells
  /\ cast \in [Shells -> Seq(Nat)]
  /\ shadows \subseteq Watchers
  /\ seen \in [Watchers -> [Shells -> Seq(Nat)]]

(* v is an unbroken run of bytes that ends with byte n.                     *)
RunTo(v, n) == \A i \in 1..Len(v) : v[i] = n - Len(v) + i

Delivered(h) == IF reader[h] = "deliver" THEN from[h] ELSE out[h]
Shared(h) == IF reader[h] \in {"deliver", "broadcast"} THEN from[h] ELSE out[h]

(* The terminal attached to a shell has received an unbroken run of its     *)
(* output up to the last byte delivered, however often terminals left and   *)
(* came back: the replay of the backlog and the live output leave no gap    *)
(* and repeat nothing (ssh.cc: "same lock as the reader, so nothing is lost *)
(* or reordered in between").                                               *)
NoGap == \A h \in Shells :
           client[h] # None => RunTo(view[client[h]], Delivered(h))

(* The backlog is the unbroken end of the output, at most kBacklogMax long; *)
(* once output was dropped from it, it begins at a line start unless the    *)
(* last kBacklogMax bytes hold no line feed.                                *)
BacklogIsTheEnd ==
  \A h \in Shells :
    LET b == backlog[h]
    IN /\ Len(b) <= kBacklogMax
       /\ RunTo(b, Delivered(h))
       /\ b # <<>> /\ b[1] > 1 =>
            b[1] - 1 \in newlines[h] \/ Len(b) = kBacklogMax

(* The recording holds all of the output from the first byte, whether a     *)
(* terminal is attached or not ("Recording and command logging go on        *)
(* meanwhile").                                                             *)
RecordingComplete ==
  \A h \in recorder : Len(cast[h]) = out[h] /\ RunTo(cast[h], out[h])

(* A watcher has been sent an unbroken run of each shell's output, up to    *)
(* the last chunk broadcast.                                                *)
WatchersNoGap ==
  \A w \in shadows : \A h \in Shells : RunTo(seen[w][h], Shared(h))

(* The session has as many open rows in ctx.recordings as it has open       *)
(* recorders, whichever row each reader closed: once its last shell has     *)
(* ended, no recording is left open.                                        *)
RowsMatchRecorders == Cardinality(rows) = Cardinality(recorder)

(* Terminals, watchers and the backlog tell one story: an unbroken run of   *)
(* each shell's output, up to the last byte delivered or broadcast.         *)
Transcript == NoGap /\ BacklogIsTheEnd /\ WatchersNoGap

(* Recordings are complete, and none is left open or closed too early.      *)
Recordings == RecordingComplete /\ RowsMatchRecorders
=============================================================================
