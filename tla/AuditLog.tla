------------------------------ MODULE AuditLog ------------------------------
(***************************************************************************)
(* The hash-chained audit log (append_audit, maybe_rotate_audit_locked,    *)
(* init_audit_chain and verify_audit_chain in backend/src/app_context.cc): *)
(* one active file, sealed archives, and the head of the chain that the    *)
(* process keeps in memory.  Everything here happens under audit_mutex, so  *)
(* an operation is one step; what makes it hard is what comes in between:  *)
(* writes that fail, restarts, rotations in the same second, retention,    *)
(* and people who change the file.                                         *)
(*                                                                         *)
(* The contents of an event are a number, new for every event.  The MAC is *)
(* the injective operator Mac; GENESIS is the empty history.               *)
(***************************************************************************)
EXTENDS Integers, Sequences

CONSTANTS
  MaxLines,      \* audit_max_file_bytes in lines; 0 turns rotation off
  RetentionSecs, \* audit_retention_days; 0 keeps archives forever
  LegacyLines,   \* lines without hashes an older version left in the log
  MaxEvents,     \* bound: events appended in all
  MaxSeconds     \* bound: seconds the clock advances

ASSUME AuditAssumption ==
  {MaxLines, RetentionSecs, LegacyLines, MaxEvents, MaxSeconds} \subseteq Nat

VARIABLES
  file,             \* lines of audit_path
  torn,             \* the last line of the file has no line feed
  archives,         \* audit_path.<second>: set of [at, lines]
  audit_chain_hash, \* head of the chain, in memory
  now,              \* now_epoch_seconds()
  events,           \* history: events appended so far
  gaps,             \* history: what has interrupted the chain on disk
  tampered          \* history: what somebody else did to the active file

vars == <<file, torn, archives, audit_chain_hash, now, events, gaps, tampered>>

Hash == Seq(Nat)
GENESIS == <<>>
Garbage == 0    \* contents no event has

(* audit_mac over "prev|canonical".                                         *)
Mac(prev, ev) == Append(prev, ev)

Line == [chained : BOOLEAN, ev : Nat, prev : Hash, hash : Hash]
Chained(prev, ev, hash) ==
  [chained |-> TRUE, ev |-> ev, prev |-> prev, hash |-> hash]
Unchained ==
  [chained |-> FALSE, ev |-> Garbage, prev |-> GENESIS, hash |-> GENESIS]

-----------------------------------------------------------------------------
(* verify_audit_chain: from the first line with hashes on, every line has   *)
(* hashes, its own hash is right, and it links to the line before it.       *)
LineOk(f, i) == f[i].chained /\ f[i].hash = Mac(f[i].prev, f[i].ev)
Begins(f, k) == f[k].chained /\ \A j \in 1..(k - 1) : ~f[j].chained
Intact(f) ==
  \A k \in 1..Len(f) : Begins(f, k) =>
    /\ \A i \in k..Len(f) : LineOk(f, i)
    /\ \A i \in (k + 1)..Len(f) : f[i].prev = f[i - 1].hash

(* init_audit_chain: the hash of the last line that has one, else GENESIS.  *)
IsTail(f, h) ==
  \/ \E k \in 1..Len(f) : /\ f[k].chained /\ h = f[k].hash
                          /\ \A j \in (k + 1)..Len(f) : ~f[j].chained
  \/ (\A k \in 1..Len(f) : ~f[k].chained) /\ h = GENESIS

Init ==
  /\ file = [i \in 1..LegacyLines |-> Unchained]
  /\ torn = FALSE
  /\ archives = {}
  /\ audit_chain_hash = GENESIS
  /\ now = 0 /\ events = 0
  /\ gaps = {}
  /\ tampered = "no"

(* The file after a complete line was written to it: a torn line swallows   *)
(* the one that follows, whose fields then stand behind foreign contents.   *)
Written(prev, ev) ==
  IF torn
  THEN [file EXCEPT ![Len(file)] = Chained(prev, Garbage, Mac(prev, ev))]
  ELSE Append(file, Chained(prev, ev, Mac(prev, ev)))

Kept(as) ==
  IF RetentionSecs = 0 THEN as
  ELSE {a \in as : ~(a.at < now - RetentionSecs)}

(* The purge of archives past retention, as is being what rename left.      *)
Purge(as, lost) ==
  /\ archives' = Kept(as)
  /\ gaps' = gaps \cup lost \cup (IF Kept(as) # as THEN {"purged"} ELSE {})

(* rename to a name made of the second, over an archive of that name.       *)
Seal(f, lost) ==
  LET others == {a \in archives : a.at # now}
  IN /\ file' = <<>> /\ torn' = FALSE
     /\ Purge(others \cup {[at |-> now, lines |-> f]},
              lost \cup (IF others # archives THEN {"overwritten"} ELSE {}))
     /\ tampered' = IF tampered = "no" THEN "no" ELSE "sealed"

(* maybe_rotate_audit_locked, on the file f that the append left: seal it   *)
(* (nobody looks whether rename worked) and purge the archives.             *)
maybe_rotate(f, isTorn, lost) ==
  IF MaxLines = 0 \/ Len(f) < MaxLines
  THEN /\ file' = f /\ torn' = isTorn /\ gaps' = gaps \cup lost
       /\ UNCHANGED <<archives, tampered>>
  ELSE \/ Seal(f, lost)
       \/ /\ file' = f /\ torn' = isTorn
          /\ Purge(archives, lost)
          /\ UNCHANGED tampered

(* mutant: a sealed log starts a chain of its own                           *)
Mutappend_audit ==
  LET ev == events + 1
      prev == audit_chain_hash
  IN /\ events < MaxEvents
     /\ events' = ev
     /\ maybe_rotate(Written(prev, ev), FALSE, {})
     /\ audit_chain_hash' = IF file' = <<>> THEN GENESIS ELSE Mac(prev, ev)
     /\ now' = now

(* append_audit: the line is written, or the file cannot be opened, or only *)
(* a part of the line fits (its hashes, which come last, are missing); the  *)
(* head of the chain moves on all the same.                                 *)
append_audit ==
  LET ev == events + 1
      prev == audit_chain_hash
  IN /\ events < MaxEvents
     /\ events' = ev
     /\ audit_chain_hash' = Mac(prev, ev)
     /\ \/ maybe_rotate(Written(prev, ev), FALSE, {})
        \/ maybe_rotate(file, torn, {"unwritten"})
        \/ maybe_rotate(IF torn THEN file ELSE Append(file, Unchained), TRUE,
                        {"unwritten"})
     /\ now' = now

(* mutant: the head always starts at GENESIS                                *)
Mutinit_from_genesis ==
  /\ audit_chain_hash' = GENESIS
  /\ UNCHANGED <<file, torn, archives, now, events, gaps, tampered>>

(* mutant: no default when the log has no chained line                      *)
Mutinit_no_default ==
  /\ audit_chain_hash' = IF file = <<>> THEN <<-1>> ELSE audit_chain_hash
  /\ UNCHANGED <<file, torn, archives, now, events, gaps, tampered>>

(* The process stops at any point between two operations and starts again.  *)
init_audit_chain ==
  /\ \E h \in {GENESIS} \cup {file[i].hash : i \in 1..Len(file)} :
       IsTail(file, h) /\ audit_chain_hash' = h
  /\ gaps' = IF archives # {} /\ \A i \in 1..Len(file) : ~file[i].chained
             THEN gaps \cup {"restarted"} ELSE gaps
  /\ UNCHANGED <<file, torn, archives, now, events, tampered>>

Tick ==
  /\ now < MaxSeconds
  /\ now' = now + 1
  /\ UNCHANGED <<file, torn, archives, audit_chain_hash, events, gaps,
                 tampered>>

-----------------------------------------------------------------------------
(* Somebody without the key changes the active file, once.                  *)
Tamper(f, isTorn, how) ==
  /\ tampered = "no"
  /\ file' = f /\ torn' = isTorn /\ tampered' = how
  /\ UNCHANGED <<archives, audit_chain_hash, now, events, gaps>>

(* The contents of a line change, its hashes stay.                          *)
EditLine(i) ==
  /\ file[i].chained /\ file[i].ev # Garbage
  /\ Tamper([file EXCEPT ![i].ev = Garbage], torn, "edited")

(* A line between two others of the chain is taken out.                     *)
RemoveLine(i) ==
  /\ 1 < i /\ i < Len(file) /\ file[i - 1].chained
  /\ Tamper(SubSeq(file, 1, i - 1) \o SubSeq(file, i + 1, Len(file)),
            torn, "removed")

(* The last lines are cut off.                                              *)
Truncate(n) ==
  /\ file[n + 1].chained
  /\ Tamper(SubSeq(file, 1, n), FALSE, "truncated")

Next ==
  \/ append_audit
  \/ init_audit_chain
  \/ Tick
  \/ \E i \in 1..Len(file) : EditLine(i) \/ RemoveLine(i) \/ Truncate(i - 1)

Spec == Init /\ [][Next]_vars

-----------------------------------------------------------------------------
TypeOK ==
  /\ file \in Seq(Line)
  /\ torn \in BOOLEAN
  /\ archives \subseteq [at : Nat, lines : Seq(Line)]
  /\ audit_chain_hash \in Hash
  /\ now \in Nat /\ events \in Nat
  /\ gaps \subseteq {"unwritten", "restarted", "overwritten", "purged"}
  /\ tampered \in {"no", "edited", "removed", "truncated", "sealed"}

(* A log nobody touched and to which every line could be written verifies,  *)
(* across any number of restarts and rotations.                             *)
UntouchedIsIntact ==
  tampered \in {"no", "sealed"} /\ "unwritten" \notin gaps => Intact(file)

(* Editing a line or taking one out of the middle is reported for as long   *)
(* as the file is the active one, whatever is appended later and however    *)
(* often the process restarts.                                              *)
EditsDetected == tampered \in {"edited", "removed"} => ~Intact(file)

(* Archives and active file are one chain, oldest archive first ("so        *)
(* archives stay cross-linked"), unless a write failed, a restart found no  *)
(* chained line in the active file, an archive of the same second was       *)
(* overwritten or retention removed one.                                    *)
LinksTo(f, g) == f # <<>> /\ g # <<>> /\ f[Len(f)].chained /\ g[1].chained
                   => g[1].prev = f[Len(f)].hash
CrossLinked ==
  gaps = {} /\ tampered = "no" =>
    /\ \A a, b \in archives :
         a.at < b.at /\ ~(\E c \in archives : a.at < c.at /\ c.at < b.at)
           => LinksTo(a.lines, b.lines)
    /\ \A a \in archives :
         (\A b \in archives : b.at <= a.at) => LinksTo(a.lines, file)

(* Every event appended is on disk, once and in order, as long as nothing   *)
(* failed: no line is lost between the active file and its archives.        *)
NothingLost ==
  gaps \subseteq {"restarted"} /\ tampered = "no" =>
    \A n \in 1..events :
      \/ \E i \in 1..Len(file) : file[i].ev = n
      \/ \E a \in archives : \E i \in 1..Len(a.lines) : a.lines[i].ev = n

(* The verification is right about every file it can be shown: an untouched *)
(* log verifies, an edited one does not.                                    *)
VerdictIsRight == UntouchedIsIntact /\ EditsDetected

(* Every event is kept, and the archives and the active file stay one chain *)
(* through rotations, retention and restarts.                               *)
ChainIsKept == CrossLinked /\ NothingLost

(* "detects edits/truncation": a log whose last lines were cut off does not *)
(* verify any more, at the latest once it has grown again.                  *)
TruncationDetected ==
  tampered = "truncated" /\ file # <<>> /\ file[Len(file)].ev = events
    => ~Intact(file)
=============================================================================
