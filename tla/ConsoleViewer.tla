----------------------------- MODULE ConsoleViewer -----------------------------
(***************************************************************************)
(* The window of an isolated browser: its websocket, and the files that    *)
(* the operator drops on the page or chooses for a file dialog of the      *)
(* page.  Several files are read and sent at once, piece by piece, over    *)
(* one websocket; the bastion keeps the state of one upload per session.   *)
(* The websocket keeps the order of what is sent, so a message and its     *)
(* handling are one step; what is still on its way when the websocket      *)
(* closes counts as not sent.  The engine is the one that takes files      *)
(* (tiles), and there is no transfer policy, which is premium.             *)
(***************************************************************************)
EXTENDS Naturals, Sequences, FiniteSets

CONSTANTS
  Papers,      \* files of the operator
  Pieces,      \* 256 KB pieces in each
  Cap,         \* ENDORIUMFORT_RBI_MAX_UPLOAD_MB, in pieces
  MaxPapers,   \* bound: uploads
  MaxDialogs,  \* bound: file dialogs of the page
  MaxFailures  \* bound: files that cannot be staged or read

ASSUME ViewerAssumption ==
  /\ Papers # {} /\ Pieces \in [Papers -> Nat] /\ Cap \in Nat \ {0}
  /\ MaxPapers \in Nat /\ MaxDialogs \in Nat /\ MaxFailures \in Nat

VARIABLES
  link,      \* the websocket
  status,
  fileTransfer,  \* caps.fileTransfer
  probed,    \* the answer to /api/rbi/capabilities has come
  sending,   \* uploadFile calls under way
  uploadId,  \* uploadIdRef
  picker,    \* the local file chooser is open
  pendingDialog, \* pendingDialogRef, 0 when there is none
  dialogs,   \* dialogs the page has opened
  incoming,  \* bastion: the upload of the session
  given,     \* bastion: files handed to the page
  refused,   \* bastion: dialogs the page was told to give up
  failures   \* uploads that could not be staged or read, and
             \* history: whether one replaced an upload under way

remote == <<incoming, given, refused>>
chooser == <<picker, pendingDialog, dialogs>>
viewerVars == <<link, status, fileTransfer, probed, sending, uploadId, chooser, remote, failures>>

NoPaper == [active |-> FALSE, open |-> FALSE, id |-> 0, paper |-> CHOOSE p \in Papers : TRUE,
            dialog |-> 0, written |-> <<>>]
Dialogs == 0 .. MaxDialogs

ViewerTypeOK ==
  /\ link \in {"connecting", "open", "closed"}
  /\ status \in {"connecting", "connected", "disconnected", "error"}
  /\ fileTransfer \in BOOLEAN /\ probed \in BOOLEAN /\ picker \in BOOLEAN
  /\ sending \subseteq [id : Nat, paper : Papers, off : Nat, dialog : Dialogs]
  /\ uploadId \in 1 .. MaxPapers + 1 /\ pendingDialog \in Dialogs /\ dialogs \in Dialogs
  /\ incoming \in [active : BOOLEAN, open : BOOLEAN, id : 0 .. MaxPapers, paper : Papers,
                 dialog : Dialogs, written : Seq(Papers \X (Nat \ {0}))]
  /\ refused \subseteq Dialogs /\ failures \in [n : 0 .. MaxFailures, torn : BOOLEAN]

ViewerInit ==
  /\ link = "connecting" /\ status = "connecting" /\ fileTransfer = TRUE /\ probed = FALSE
  /\ sending = {} /\ uploadId = 1 /\ picker = FALSE /\ pendingDialog = 0 /\ dialogs = 0
  /\ incoming = NoPaper /\ given = {} /\ refused = {} /\ failures = [n |-> 0, torn |-> FALSE]

-----------------------------------------------------------------------------
(* The bastion, one message at a time.                                     *)

(* upload-begin: the upload before it, if any, is left as it is.           *)
Begin(u) ==
  [active |-> TRUE, open |-> TRUE, id |-> u.id, paper |-> u.paper, dialog |-> u.dialog,
   written |-> <<>>]

MutPiece(s, u) ==
  IF ~s.active \/ ~s.open THEN s
  ELSE [s EXCEPT !.written = Append(@, <<u.paper, u.off + 1>>)]

(* A binary frame: it is ignored unless it is of the upload under way.     *)
Piece(s, u) ==
  IF ~s.active \/ ~s.open \/ s.id # u.id THEN s
  ELSE IF Len(s.written) + 1 > Cap THEN [s EXCEPT !.active = FALSE, !.open = FALSE]
  ELSE [s EXCEPT !.written = Append(@, <<u.paper, u.off + 1>>)]

(* upload-end: the file goes to the page.                                  *)
Mine(s, u) == s.active /\ s.id = u.id
End(s, u) ==
  IF Mine(s, u)
  THEN /\ incoming' = [s EXCEPT !.active = FALSE, !.open = FALSE]
       /\ given' = given \cup {[id |-> u.id, paper |-> s.paper, dialog |-> s.dialog,
                                written |-> s.written]}
  ELSE incoming' = s /\ UNCHANGED given

(* upload-cancel: it ends whichever upload is under way.                   *)
Cancel ==
  /\ incoming' = [incoming EXCEPT !.active = FALSE, !.open = FALSE]
  /\ refused' = refused \cup (IF incoming.active /\ incoming.dialog # 0 THEN {incoming.dialog} ELSE {})

-----------------------------------------------------------------------------
(* The websocket.                                                          *)
SocketOpens ==
  /\ link = "connecting" /\ link' = "open"
  /\ UNCHANGED <<status, fileTransfer, probed, sending, uploadId, chooser, remote, failures>>

(* A status or error message, or a frame of the picture, which always says *)
(* that the window is connected.                                           *)
ViewerMessage ==
  /\ link = "open" /\ status' \in {"connected", "error"} \ {status}
  /\ UNCHANGED <<link, fileTransfer, probed, sending, uploadId, chooser, remote, failures>>

ViewerCloses ==
  /\ link # "closed" /\ link' = "closed"
  /\ status' \in {IF status = "error" THEN "error" ELSE "disconnected", "error"}
  /\ UNCHANGED <<fileTransfer, probed, sending, uploadId, chooser, remote, failures>>

(* The answer to the probe; without one the default stays.                 *)
ProbeAnswer ==
  /\ ~probed /\ probed' = TRUE /\ fileTransfer' \in BOOLEAN
  /\ UNCHANGED <<link, status, sending, uploadId, chooser, remote, failures>>

-----------------------------------------------------------------------------
(* uploadFile, to its first wait.  Without an open websocket it returns at *)
(* once; an empty file begins and ends in the same step.                   *)
uploadFile(p, dialog) ==
  LET u == [id |-> uploadId, paper |-> p, off |-> 0, dialog |-> dialog]
  IN  IF link # "open" THEN UNCHANGED <<sending, uploadId, incoming, given, failures>>
      ELSE /\ uploadId <= MaxPapers /\ uploadId' = uploadId + 1
           /\ sending' = IF Pieces[p] = 0 THEN sending ELSE sending \cup {u}
           /\ \/ /\ IF Pieces[p] = 0 THEN End(Begin(u), u)
                                     ELSE incoming' = Begin(u) /\ UNCHANGED given
                 /\ UNCHANGED failures
              \/ /\ failures.n < MaxFailures  \* "Cannot stage upload": only the path is new
                 /\ failures' = [n |-> failures.n + 1, torn |-> failures.torn \/ incoming.active]
                 /\ incoming' = [incoming EXCEPT !.open = FALSE, !.paper = p]
                 /\ UNCHANGED given

(* onDrop: every file that is dropped is uploaded at once.                 *)
DropFile(p) ==
  /\ fileTransfer /\ uploadFile(p, 0)
  /\ UNCHANGED <<link, status, fileTransfer, probed, chooser, refused>>

(* The page opens a file dialog; one that waits is forgotten.              *)
triggerFilePicker ==
  /\ link = "open" /\ dialogs < MaxDialogs /\ dialogs' = dialogs + 1
  /\ pendingDialog' = dialogs' /\ picker' = TRUE
  /\ UNCHANGED <<link, status, fileTransfer, probed, sending, uploadId, remote, failures>>

onFileInputChange(p) ==
  /\ picker /\ picker' = FALSE /\ pendingDialog' = 0 /\ uploadFile(p, pendingDialog)
  /\ UNCHANGED <<link, status, fileTransfer, probed, dialogs, refused>>

onFileInputCancel ==
  /\ picker /\ picker' = FALSE /\ pendingDialog' = 0
  /\ refused' = IF link = "open" THEN refused \cup {pendingDialog} ELSE refused
  /\ UNCHANGED <<link, status, fileTransfer, probed, dialogs, sending, uploadId, incoming, given, failures>>

(* A piece has been read.  It is sent, and so is the end after the last;   *)
(* a closed websocket swallows both.                                       *)
SendPiece(u) ==
  LET last == u.off + 1 = Pieces[u.paper]
  IN  /\ sending' = (sending \ {u}) \cup (IF last THEN {} ELSE {[u EXCEPT !.off = @ + 1]})
      /\ CASE link # "open" -> UNCHANGED <<incoming, given>>
           [] link = "open" /\ last -> End(Piece(incoming, u), u)
           [] OTHER -> incoming' = Piece(incoming, u) /\ UNCHANGED given
      /\ UNCHANGED <<link, status, fileTransfer, probed, uploadId, chooser, refused, failures>>

(* The file cannot be read any more.                                       *)
SliceFails(u) ==
  /\ failures.n < MaxFailures /\ failures' = [failures EXCEPT !.n = @ + 1]
  /\ sending' = sending \ {u}
  /\ IF link = "open" THEN Cancel ELSE UNCHANGED <<incoming, refused>>
  /\ UNCHANGED <<link, status, fileTransfer, probed, uploadId, chooser, given>>

(* Waiting for the websocket to drain, it is found closed.                 *)
StopsSending(u) ==
  /\ link = "closed" /\ sending' = sending \ {u}
  /\ UNCHANGED <<link, status, fileTransfer, probed, uploadId, chooser, remote, failures>>

ViewerNext ==
  \/ SocketOpens \/ ViewerMessage \/ ViewerCloses \/ ProbeAnswer
  \/ triggerFilePicker \/ onFileInputCancel
  \/ \E p \in Papers : DropFile(p) \/ onFileInputChange(p)
  \/ \E u \in sending : SendPiece(u) \/ SliceFails(u) \/ StopsSending(u)

ViewerSpec == ViewerInit /\ [][ViewerNext]_viewerVars

-----------------------------------------------------------------------------
(* Files reach the page whole and under their own name, although several   *)
(* are sent at once over a websocket that has room for one: what is left   *)
(* of an upload that another one replaced is dropped.  The exception is an *)
(* upload under way when the file of the next one cannot be staged.        *)
WholePaper(p) == [i \in 1 .. Pieces[p] |-> <<p, i>>]
GivenIsWhole == failures.torn \/ \A g \in given : g.written = WholePaper(g.paper)
=============================================================================
