--------------------------- MODULE ConsoleTransfer ---------------------------
(***************************************************************************)
(* Sending files to the target of an SSH session from the files dialog:    *)
(* the dialog cuts a file into chunks, the bastion stages them and writes  *)
(* the staged file to the target with the last one.  A send is one loop of *)
(* sendFiles; nothing but the progress bar keeps a second one from         *)
(* starting beside it.                                                     *)
(*                                                                         *)
(* Sizes and offsets count chunks, and what is staged or written is the    *)
(* sequence of the chunks of the chosen file, by number.                   *)
(***************************************************************************)
EXTENDS Naturals, Sequences, FiniteSets

CONSTANTS
  Dirs,          \* folders of the target
  Home,          \* the one listed first
  Docs,          \* files the user may choose
  Size,          \* their chunks
  TooLarge,      \* those over maxUploadMb
  Present,       \* files the target already has
  MaxSends,      \* bound: loops of sendFiles
  MaxLoads,      \* bound: listings under way
  MaxSweeps      \* bound: staged files swept

ASSUME TransferAssumption ==
  /\ Home \in Dirs /\ Docs # {} /\ Size \in [Docs -> Nat]
  /\ TooLarge \subseteq Docs /\ Present \subseteq Dirs \X Docs
  /\ MaxSends \in Nat /\ MaxLoads \in Nat \ {0} /\ MaxSweeps \in Nat

VARIABLES
  target,     \* target: the files it has
  staged,     \* bastion: chunks staged for the upload of each send
  sweeps,     \* staged files swept so far
  sends,      \* the loops of sendFiles
  progress,   \* the progress bar is shown
  cwd,        \* the folder listed, once the first listing is there
  sftp,       \* the target speaks SFTP, as far as the dialog knows
  loads,      \* folders asked for and not answered
  loading,
  written,    \* history: what was written last for a file of a send
  told        \* history: sends and files the dialog said are uploaded

bastion == <<target, staged, sweeps>>
dialog == <<cwd, sftp, loads, loading>>
transferVars == <<bastion, dialog, sends, progress, written, told>>

SendIds == 1 .. MaxSends
Unlisted == [dir |-> Home, known |-> FALSE]
Whole(f) == [n \in 1 .. Size[f] |-> n]
Absent == [has |-> FALSE, data |-> <<>>]
Idle == [st |-> "idle", doc |-> CHOOSE f \in Docs : TRUE, rest |-> {}, dir |-> Home,
         off |-> 0, over |-> FALSE, ans |-> "none", expected |-> 0]
Content == [has : BOOLEAN, data : Seq(Nat)]
SendType ==
  [st : {"idle", "sent", "got", "over"}, doc : Docs, rest : SUBSET Docs, dir : Dirs,
   off : Nat, over : BOOLEAN, expected : Nat,
   ans : {"none", "partial", "done", "exists", "offset_mismatch", "error"}]

TransferTypeOK ==
  /\ target \in [Dirs \X Docs -> Content] /\ staged \in [SendIds -> Seq(Nat)]
  /\ sends \in [SendIds -> SendType] /\ \A s \in SendIds : sends[s].off <= Size[sends[s].doc]
  /\ progress \in BOOLEAN /\ loading \in BOOLEAN /\ sftp \in BOOLEAN
  /\ cwd \in [dir : Dirs, known : BOOLEAN] /\ loads \in [Dirs -> 0 .. MaxLoads]
  /\ written \in [SendIds \X Docs -> Content] /\ told \subseteq SendIds \X Docs
  /\ sweeps \in 0 .. MaxSweeps

(* The dialog opens and lists the home folder.                             *)
TransferInit ==
  /\ target = [p \in Dirs \X Docs |-> IF p \in Present THEN [has |-> TRUE, data |-> <<0>>] ELSE Absent]
  /\ staged = [s \in SendIds |-> <<>>] /\ sweeps = 0
  /\ sends = [s \in SendIds |-> Idle] /\ progress = FALSE
  /\ cwd = Unlisted /\ sftp = TRUE /\ loading = TRUE
  /\ loads = [d \in Dirs |-> IF d = Home THEN 1 ELSE 0]
  /\ written = [p \in SendIds \X Docs |-> Absent] /\ told = {}

-----------------------------------------------------------------------------
(* Listing.                                                                *)

Listed == {d \in Dirs : loads[d] > 0}
MayLoad(d) == loads[d] < MaxLoads
Ask(d) == loads' = [loads EXCEPT ![d] = @ + 1] /\ loading' = TRUE

(* A row, the parent, the typed path or Refresh; a row opens while another *)
(* listing is loading.                                                     *)
load(d) ==
  /\ cwd.known /\ sftp /\ MayLoad(d) /\ (d = cwd.dir => ~loading) /\ Ask(d)
  /\ UNCHANGED <<bastion, sends, progress, cwd, sftp, written, told>>

(* The answers come in any order; each one ends "loading".                 *)
LoadAnswer(d) ==
  /\ d \in Listed /\ loads' = [loads EXCEPT ![d] = @ - 1] /\ loading' = FALSE
  /\ \/ /\ cwd' = [dir |-> d, known |-> TRUE]
        /\ IF cwd.known THEN UNCHANGED sftp ELSE sftp' \in BOOLEAN
     \/ UNCHANGED <<cwd, sftp>>
  /\ UNCHANGED <<bastion, sends, progress, written, told>>

-----------------------------------------------------------------------------
(* The loop of the dialog.                                                 *)

final(r) == r.off + 1 >= Size[r.doc]

(* sendFile for one of the chosen files: a new upload, or the end of the   *)
(* loop, which lists the folder of its start again.                        *)
LoopEnds(s, r) ==
  /\ sends' = [sends EXCEPT ![s] = [r EXCEPT !.st = "over", !.ans = "none"]]
  /\ progress' = FALSE /\ UNCHANGED staged
  /\ IF sftp THEN MayLoad(r.dir) /\ Ask(r.dir) ELSE UNCHANGED <<loads, loading>>
sendFile(s, r, f) ==
  IF f \in TooLarge THEN LoopEnds(s, r)
  ELSE /\ sends' = [sends EXCEPT ![s] =
              [r EXCEPT !.st = "sent", !.doc = f, !.rest = r.rest \ {f}, !.off = 0, !.over = FALSE]]
       /\ staged' = [staged EXCEPT ![s] = <<>>] /\ progress' = TRUE
       /\ UNCHANGED <<loads, loading>>

(* The button and the drop zone wait for the progress bar to go.           *)
sendFiles(s, chosen) ==
  /\ cwd.known /\ ~progress /\ sends[s] = Idle /\ \A o \in SendIds : o < s => sends[o] # Idle
  /\ chosen # {} /\ \E f \in chosen :
       sendFile(s, [Idle EXCEPT !.rest = chosen, !.dir = cwd.dir], f)
  /\ UNCHANGED <<target, sweeps, cwd, sftp, written, told>>

Uploaded(s, r) ==
  /\ told' = told \cup {<<s, r.doc>>}
  /\ \/ r.rest = {} /\ LoopEnds(s, r)
     \/ \E f \in r.rest : sendFile(s, r, f)

(* A conflict over an existing file asks the user, and sends it again with *)
(* overwrite; the progress bar is cleared under the send that goes on.     *)
Exists(s, r) ==
  /\ UNCHANGED told
  /\ \/ LoopEnds(s, r)
     \/ /\ sends' = [sends EXCEPT ![s] = [r EXCEPT !.st = "sent", !.off = 0, !.over = TRUE]]
        /\ staged' = [staged EXCEPT ![s] = <<>>] /\ progress' = FALSE
        /\ UNCHANGED <<loads, loading>>

MutResync(s, r) ==
  IF final(r) THEN Uploaded(s, r)
  ELSE /\ sends' = [sends EXCEPT ![s] = [r EXCEPT !.st = "sent", !.off = r.off + 1]]
       /\ UNCHANGED <<told, staged, progress, loads, loading>>
Resync(s, r) ==
  /\ sends' = [sends EXCEPT ![s] = [r EXCEPT !.st = "sent", !.off = r.expected]]
  /\ UNCHANGED <<told, staged, progress, loads, loading>>

NextChunk(s, r) ==
  /\ sends' = [sends EXCEPT ![s] = [r EXCEPT !.st = "sent", !.off = r.off + 1]]
  /\ progress' = TRUE /\ UNCHANGED <<told, staged, loads, loading>>

ChunkResult(s) ==
  LET r == sends[s]
  IN /\ r.st = "got"
     /\ \/ r.ans = "partial" /\ NextChunk(s, r)
        \/ r.ans = "done" /\ Uploaded(s, r)
        \/ r.ans = "exists" /\ Exists(s, r)
        \/ r.ans = "offset_mismatch" /\ Resync(s, r)
        \/ r.ans = "error" /\ LoopEnds(s, r) /\ UNCHANGED told
     /\ UNCHANGED <<target, sweeps, cwd, sftp, written>>

-----------------------------------------------------------------------------
(* The bastion.                                                            *)

Answer(s, a, e) == sends' = [sends EXCEPT ![s].st = "got", ![s].ans = a, ![s].expected = e]
Stage(s, data) == staged' = [staged EXCEPT ![s] = data]
Where(s) == <<sends[s].dir, sends[s].doc>>
Appended(s, had) ==
  IF sends[s].off < Size[sends[s].doc] THEN Append(had, sends[s].off + 1) ELSE had

(* The staged file is written over whatever the target has; a transfer cut *)
(* short leaves a part of it, and the answer may be lost.                  *)
Push(s, data) ==
  \/ /\ target' = [target EXCEPT ![Where(s)] = [has |-> TRUE, data |-> data]]
     /\ written' = [written EXCEPT ![<<s, sends[s].doc>>] = [has |-> TRUE, data |-> data]]
     /\ Answer(s, "done", 0)
  \/ /\ \/ UNCHANGED target
        \/ \E part \in {<<>>, data} :
             target' = [target EXCEPT ![Where(s)] = [has |-> TRUE, data |-> part]]
     /\ Answer(s, "error", 0) /\ UNCHANGED written

upload_chunk(s) ==
  LET r == sends[s]
      had == IF r.off = 0 THEN <<>> ELSE staged[s]
  IN /\ r.st = "sent"
     /\ \/ /\ r.off = 0 /\ ~r.over /\ sftp /\ target[Where(s)].has
           /\ Answer(s, "exists", 0) /\ Stage(s, <<>>) /\ UNCHANGED <<target, written>>
        \/ /\ r.off # Len(had)
           /\ Answer(s, "offset_mismatch", Len(had)) /\ UNCHANGED <<target, staged, written>>
        \/ /\ r.off = Len(had)
           /\ r.off = 0 /\ ~r.over /\ sftp => ~target[Where(s)].has
           /\ \/ ~final(r) /\ Stage(s, Appended(s, had)) /\ Answer(s, "partial", 0)
                 /\ UNCHANGED <<target, written>>
              \/ final(r) /\ Stage(s, <<>>) /\ Push(s, Appended(s, had))
     /\ UNCHANGED <<sweeps, dialog, progress, told>>

(* Refused (rights, size, no link), or lost on the way.                    *)
ChunkFails(s) ==
  /\ sends[s].st = "sent" /\ Answer(s, "error", 0)
  /\ Stage(s, <<>>)
  /\ UNCHANGED <<target, sweeps, dialog, progress, written, told>>

(* The sweep of another transfer finds the staged file too old.            *)
sweep_staging(s) ==
  /\ staged[s] # <<>> /\ sweeps < MaxSweeps
  /\ Stage(s, <<>>) /\ sweeps' = sweeps + 1
  /\ UNCHANGED <<target, dialog, sends, progress, written, told>>

-----------------------------------------------------------------------------
TransferNext ==
  \/ \E d \in Dirs : load(d) \/ LoadAnswer(d)
  \/ \E s \in SendIds : \/ \E chosen \in SUBSET Docs : sendFiles(s, chosen)
                        \/ ChunkResult(s) \/ upload_chunk(s) \/ ChunkFails(s)
                        \/ sweep_staging(s)

TransferSpec == TransferInit /\ [][TransferNext]_transferVars

-----------------------------------------------------------------------------
(* "Uploaded" is said of a file only when all of it was written, in order: *)
(* although staged chunks are swept, offsets are resynchronised, the user  *)
(* is asked about an existing file and two loops run side by side.         *)
UploadedIsWhole ==
  \A p \in told : written[p] = [has |-> TRUE, data |-> Whole(p[2])]
=============================================================================
