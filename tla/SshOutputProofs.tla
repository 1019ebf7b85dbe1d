-------------------------- MODULE SshOutputProofs ---------------------------
(***************************************************************************)
(* The output of SSH shells (module SshOutput), for every number of        *)
(* shells, pages and watchers, every size of the backlog and every amount  *)
(* of output: terminals, watchers and the backlog hold unbroken runs of    *)
(* it, recordings hold all of it, and no recording row is left open.       *)
(*                                                                         *)
(* What the transcript needs beside itself (Story): a page is attached to  *)
(* one shell, so that only one reader writes to it, and the backlog starts *)
(* at the beginning, after a line feed, or is full, also while it is empty *)
(* (BacklogStarts).  Rows match recorders because a shell that was not     *)
(* started has neither, and both are finite sets (Rows).                   *)
(***************************************************************************)
EXTENDS SshOutput, TLAPS, FiniteSetTheorems, WellFoundedInduction

(* The reader is never ahead of what it read.                               *)
Ordered == \A h \in Shells : from[h] <= out[h]

(* A page shows one shell.                                                  *)
OneShellPerPage ==
  \A h, k \in Shells : client[h] # None /\ client[h] = client[k] => h = k

(* The backlog begins with the output, after a line feed, or is full.       *)
StartsAt(b, n, lf) ==
  /\ Len(b) <= n
  /\ n - Len(b) = 0 \/ n - Len(b) \in lf \/ Len(b) = kBacklogMax
BacklogStarts ==
  \A h \in Shells : StartsAt(backlog[h], Delivered(h), newlines[h])

Story == TypeOK /\ Ordered /\ OneShellPerPage /\ BacklogStarts /\ Transcript

(* A shell that was not started has written nothing.                        *)
Unstarted ==
  \A h \in Shells : reader[h] = "new" =>
    out[h] = 0 /\ cast[h] = <<>> /\ h \notin recorder /\ h \notin rows

Rows == /\ TypeOK /\ Unstarted /\ Recordings
        /\ IsFiniteSet(recorder) /\ IsFiniteSet(rows)

-----------------------------------------------------------------------------
(* Every non-empty set of naturals has a least element (deliver_output cuts *)
(* at the first line feed it finds).                                        *)
LEMMA LeastOf ==
  ASSUME NEW S \in SUBSET Nat, S # {}
  PROVE  \E i \in S : \A j \in S : i <= j
<1> DEFINE R == {ss \in Nat \X Nat : ss[1] < ss[2]}
<1>1. IsWellFoundedOn(R, Nat)
  BY NatLessThanWellFounded, Zenon DEF OpToRel
<1> HIDE DEF R
<1>2. PICK i \in S : \A j \in S : <<j, i>> \notin R
  BY <1>1, WFMin, Zenon
<1>3. ASSUME NEW j \in S PROVE i <= j
  <2>1. i \in Nat /\ j \in Nat
    OBVIOUS
  <2>2. j < i => <<j, i>> \in R
    BY <2>1 DEF R
  <2> QED BY <1>2, <2>1, <2>2
<1> QED BY <1>3

(* A chunk of output, as the reader holds it.                               *)
LEMMA Chunk ==
  ASSUME NEW n \in Nat, NEW m \in Nat, n <= m
  PROVE  /\ Bytes(n, m) \in Seq(Nat)
         /\ Len(Bytes(n, m)) = m - n
         /\ \A i \in 1..(m - n) : Bytes(n, m)[i] = n + i
<1>1. m - n \in Nat
  OBVIOUS
<1>2. \A i \in 1..(m - n) : n + i \in Nat
  BY <1>1
<1>3. Bytes(n, m) \in [1..(m - n) -> Nat]
  BY <1>2 DEF Bytes
<1>4. \A i \in 1..(m - n) : Bytes(n, m)[i] = n + i
  BY DEF Bytes
<1> HIDE DEF Bytes
<1> QED BY <1>1, <1>3, <1>4

(* Appending the next chunk to an unbroken run gives an unbroken run.       *)
LEMMA RunAppend ==
  ASSUME NEW v \in Seq(Nat), NEW n \in Nat, NEW m \in Nat, n <= m, RunTo(v, n)
  PROVE  /\ v \o Bytes(n, m) \in Seq(Nat)
         /\ Len(v \o Bytes(n, m)) = Len(v) + (m - n)
         /\ RunTo(v \o Bytes(n, m), m)
<1> DEFINE c == Bytes(n, m)
<1>1. c \in Seq(Nat) /\ Len(c) = m - n /\ \A i \in 1..(m - n) : c[i] = n + i
  BY Chunk
<1> HIDE DEF c
<1>2. v \o c \in Seq(Nat) /\ Len(v \o c) = Len(v) + (m - n)
  <2>1. c \in Seq(Nat) /\ Len(c) = m - n
    BY <1>1
  <2> QED BY <2>1
<1>3. ASSUME NEW i \in 1..Len(v \o c)
      PROVE  (v \o c)[i] = m - Len(v \o c) + i
  <2>1. i \in Int /\ 1 <= i /\ i <= Len(v) + (m - n) /\ Len(v) \in Nat
    BY <1>2, <1>3
  <2>2. CASE i <= Len(v)
    <3>1. (v \o c)[i] = v[i] /\ v[i] = n - Len(v) + i
      BY <1>1, <2>1, <2>2 DEF RunTo
    <3> QED BY <1>2, <2>1, <3>1
  <2>3. CASE i > Len(v)
    <3>1. i - Len(v) \in 1..(m - n)
      BY <2>1, <2>3
    <3>2. (v \o c)[i] = c[i - Len(v)]
      BY <1>1, <2>1, <2>3
    <3> QED BY <1>1, <1>2, <2>1, <3>1, <3>2
  <2> QED BY <2>1, <2>2, <2>3
<1>4. RunTo(v \o c, m)
  BY <1>3 DEF RunTo
<1> QED BY <1>2, <1>4 DEF c

(* What the backlog is cut to: it is short enough, still ends with the last *)
(* byte, and begins with the output, after a line feed, or is full.         *)
LEMMA TrimRun ==
  ASSUME NEW b \in Seq(Nat), NEW lf \in SUBSET Nat, NEW m \in Nat,
         RunTo(b, m), Len(b) <= m,
         m - Len(b) = 0 \/ m - Len(b) \in lf \/ Len(b) >= kBacklogMax
  PROVE  /\ Trim(b, lf) \in Seq(Nat)
         /\ Len(Trim(b, lf)) <= kBacklogMax
         /\ RunTo(Trim(b, lf), m)
         /\ StartsAt(Trim(b, lf), m, lf)
<1> USE OutputAssumption DEF OutputAssumption
<1>1. Len(b) \in Nat
  OBVIOUS
<1>2. CASE Len(b) <= kBacklogMax
  <2>1. Trim(b, lf) = b
    BY <1>2 DEF Trim
  <2> QED BY <1>1, <1>2, <2>1 DEF StartsAt
<1>3. CASE Len(b) > kBacklogMax
  <2> DEFINE cut == Len(b) - kBacklogMax
             ends == {i \in (cut + 1)..Len(b) : b[i] \in lf}
             c == CutPoint(b, lf)
  <2>1. cut \in Nat /\ cut <= Len(b)
    BY <1>1, <1>3
  <2>2. c \in Nat /\ cut <= c /\ c <= Len(b)
        /\ (c = cut \/ (c \in 1..Len(b) /\ b[c] \in lf))
    <3>1. CASE ends = {}
      <4>1. c = cut
        BY <3>1 DEF CutPoint
      <4> HIDE DEF c, ends
      <4> QED BY <2>1, <4>1
    <3>2. CASE ends # {}
      <4>1. ends \in SUBSET Nat
        BY <2>1
      <4>2. \E i \in ends : \A j \in ends : i <= j
        BY <3>2, <4>1, LeastOf
      <4>3. c = CHOOSE i \in ends : \A j \in ends : i <= j
        BY <3>2 DEF CutPoint
      <4>4. c \in ends
        <5> HIDE DEF c, ends
        <5> QED BY <4>2, <4>3
      <4>5. c \in (cut + 1)..Len(b) /\ b[c] \in lf
        <5> HIDE DEF c
        <5> QED BY <4>4
      <4> HIDE DEF c, ends
      <4> QED BY <1>1, <2>1, <4>5
    <3> QED BY <3>1, <3>2
  <2>3. Trim(b, lf) = SubSeq(b, c + 1, Len(b))
    <3>1. ~(Len(b) <= kBacklogMax)
      BY <1>1, <1>3
    <3> QED BY <3>1, Zenon DEF Trim
  <2> DEFINE t == SubSeq(b, c + 1, Len(b))
  <2> HIDE DEF c, ends
  <2>4. t \in Seq(Nat) /\ Len(t) = Len(b) - c
    BY <1>1, <2>2
  <2>5. \A i \in 1..Len(t) : t[i] = b[c + i]
    BY <1>1, <2>2, <2>4
  <2> HIDE DEF t
  <2>6. ASSUME NEW i \in 1..Len(t) PROVE t[i] = m - Len(t) + i
    <3>1. i \in Int /\ 1 <= i /\ i <= Len(b) - c
      BY <2>4
    <3>2. c + i \in 1..Len(b)
      BY <1>1, <2>2, <3>1
    <3>3. b[c + i] = m - Len(b) + (c + i)
      BY <3>2 DEF RunTo
    <3> QED BY <1>1, <2>2, <2>4, <2>5, <3>1, <3>3
  <2>7. RunTo(t, m)
    BY <2>6 DEF RunTo
  <2>8. Len(t) <= kBacklogMax /\ Len(t) <= m
    BY <1>1, <2>1, <2>2, <2>4
  <2>9. m - Len(t) \in lf \/ Len(t) = kBacklogMax
    <3>1. CASE c = cut
      BY <1>1, <2>4, <3>1
    <3>2. CASE c \in 1..Len(b) /\ b[c] \in lf
      <4>1. b[c] = m - Len(b) + c
        BY <3>2 DEF RunTo
      <4>2. m - Len(t) = m - Len(b) + c
        BY <1>1, <2>2, <2>4
      <4> QED BY <3>2, <4>1, <4>2
    <3> QED BY <2>2, <3>1, <3>2
  <2>10. Trim(b, lf) = t
    BY <2>3 DEF t
  <2> QED BY <2>4, <2>7, <2>8, <2>9, <2>10 DEF StartsAt
<1> QED BY <1>1, <1>2, <1>3

-----------------------------------------------------------------------------
(* The actions, by name.                                                    *)
LEMMA NextCases ==
  ASSUME [Next]_vars
  PROVE  \/ \E h \in Shells, p \in Pages : StartShell(h, p)
         \/ \E h \in Shells, p \in Pages : Resume(h, p)
         \/ \E h \in Shells, n \in 1..MaxChunk : \E lf \in SUBSET (1..MaxOut[h]) :
              ReadChunk(h, n, lf)
         \/ \E h \in Shells : deliver_output(h)
         \/ \E h \in Shells : Broadcast(h)
         \/ \E h \in Shells : EndShell(h)
         \/ \E h \in Shells : LeavePage(h)
         \/ \E w \in Watchers : ShadowOpen(w)
         \/ \E w \in Watchers : ShadowClose(w)
         \/ UNCHANGED vars
BY Zenon DEF Next

(* What the reader holds, and what it has delivered, are numbers.           *)
LEMMA DeliveredNat ==
  ASSUME TypeOK, NEW h \in Shells
  PROVE  /\ out[h] \in Nat /\ from[h] \in Nat
         /\ Delivered(h) \in Nat /\ Shared(h) \in Nat
BY DEF TypeOK, Delivered, Shared

(* The reader is not ahead of what it read.                                 *)
LEMMA OrderedStep ==
  ASSUME TypeOK, Ordered, [Next]_vars
  PROVE  Ordered'
<1> SUFFICES ASSUME NEW k \in Shells PROVE from'[k] <= out'[k]
  BY DEF Ordered
<1>1. from[k] \in Nat /\ out[k] \in Nat /\ from[k] <= out[k]
  BY DeliveredNat DEF Ordered
<1>2. CASE UNCHANGED <<from, out>>
  BY <1>1, <1>2
<1>3. ASSUME NEW h \in Shells, NEW n \in 1..MaxChunk, NEW lf, ReadChunk(h, n, lf)
      PROVE  from'[k] <= out'[k]
  <2>1. from' = [from EXCEPT ![h] = out[h]] /\ out' = [out EXCEPT ![h] = out[h] + n]
    BY <1>3 DEF ReadChunk
  <2>2. from \in [Shells -> Nat] /\ out \in [Shells -> Nat]
    BY DEF TypeOK
  <2>3. n \in Nat
    BY OutputAssumption DEF OutputAssumption
  <2> QED BY <1>1, <2>1, <2>2, <2>3
<1> QED
  BY <1>2, <1>3, NextCases
  DEF StartShell, Resume, deliver_output, Broadcast, EndShell, LeavePage,
      ShadowOpen, ShadowClose, vars

(* A page that is attached was attached to nothing before.                  *)
LEMMA PageStep ==
  ASSUME TypeOK, OneShellPerPage, [Next]_vars
  PROVE  OneShellPerPage'
<1>1. client \in [Shells -> Pages \cup {None}] /\ None \notin Pages
  BY OutputAssumption DEF TypeOK, OutputAssumption
<1>2. CASE UNCHANGED client
  BY <1>2 DEF OneShellPerPage
<1>3. ASSUME NEW h \in Shells, NEW p \in Pages, Fresh(p),
             client' = [client EXCEPT ![h] = p]
      PROVE  OneShellPerPage'
  BY <1>1, <1>3 DEF OneShellPerPage, Fresh
<1>4. ASSUME NEW h \in Shells, client' = [client EXCEPT ![h] = None]
      PROVE  OneShellPerPage'
  BY <1>1, <1>4 DEF OneShellPerPage
<1> QED
  BY <1>2, <1>3, <1>4, NextCases
  DEF StartShell, Resume, ReadChunk, deliver_output, Broadcast, EndShell,
      LeavePage, ShadowOpen, ShadowClose, vars

(* A step leaves a shell's backlog and what is delivered of its output, or  *)
(* it is the shell's deliver_output.                                        *)
BacklogMoves(k) ==
  \/ /\ backlog'[k] = backlog[k] /\ Delivered(k)' = Delivered(k)
     /\ newlines[k] \subseteq newlines'[k] /\ newlines'[k] \subseteq Nat
  \/ /\ reader[k] = "deliver" /\ Delivered(k) = from[k]
     /\ Delivered(k)' = out[k] /\ newlines'[k] = newlines[k]
     /\ backlog'[k] = Trim(backlog[k] \o output(k), newlines[k])

(* The steps of a backlog are these (deliver_output is the only writer).    *)
LEMMA BacklogStep ==
  ASSUME TypeOK, [Next]_vars, NEW k \in Shells
  PROVE  BacklogMoves(k)
<1> USE DEF Delivered, BacklogMoves
<1>1. /\ reader \in [Shells -> {"new", "reading", "deliver", "broadcast", "ended"}]
      /\ out \in [Shells -> Nat] /\ from \in [Shells -> Nat]
      /\ newlines \in [Shells -> SUBSET Nat] /\ backlog \in [Shells -> Seq(Nat)]
  BY DEF TypeOK
<1>2. ASSUME NEW h \in Shells, NEW n \in 1..MaxChunk,
             NEW lf \in SUBSET (1..MaxOut[h]), ReadChunk(h, n, lf)
      PROVE  /\ backlog'[k] = backlog[k] /\ Delivered(k)' = Delivered(k)
             /\ newlines[k] \subseteq newlines'[k] /\ newlines'[k] \subseteq Nat
  <2>1. /\ reader[h] = "reading" /\ reader' = [reader EXCEPT ![h] = "deliver"]
        /\ from' = [from EXCEPT ![h] = out[h]]
        /\ out' = [out EXCEPT ![h] = out[h] + n]
        /\ newlines' = [newlines EXCEPT ![h] = @ \cup lf]
        /\ backlog' = backlog
    BY <1>2 DEF ReadChunk
  <2>2. lf \subseteq Nat
    BY OutputAssumption DEF OutputAssumption
  <2>3. Delivered(k)' = Delivered(k)
    BY <1>1, <2>1
  <2>4. newlines[k] \subseteq newlines'[k] /\ newlines'[k] \subseteq Nat
    BY <1>1, <2>1, <2>2
  <2> QED BY <2>1, <2>3, <2>4
<1>3. ASSUME NEW h \in Shells, deliver_output(h)
      PROVE  BacklogMoves(k)
  BY <1>1, <1>3 DEF deliver_output, output
<1>4. ASSUME NEW h \in Shells,
             reader[h] # "deliver",
             NEW s, s # "deliver", reader' = [reader EXCEPT ![h] = s],
             UNCHANGED <<out, from, newlines, backlog>>
      PROVE  BacklogMoves(k)
  BY <1>1, <1>4
<1>5. ASSUME UNCHANGED <<reader, out, from, newlines, backlog>>
      PROVE  BacklogMoves(k)
  BY <1>1, <1>5
<1>6. CASE \E h \in Shells, p \in Pages : StartShell(h, p)
  BY <1>4, <1>6 DEF StartShell
<1>7. CASE \E h \in Shells : Broadcast(h)
  BY <1>4, <1>7 DEF Broadcast
<1>8. CASE \E h \in Shells : EndShell(h)
  BY <1>4, <1>8 DEF EndShell
<1>9. CASE \/ \E h \in Shells, p \in Pages : Resume(h, p)
           \/ \E h \in Shells : LeavePage(h)
           \/ \E w \in Watchers : ShadowOpen(w)
           \/ \E w \in Watchers : ShadowClose(w)
           \/ UNCHANGED vars
  <2>1. UNCHANGED <<reader, out, from, newlines, backlog>>
    BY <1>9 DEF Resume, LeavePage, ShadowOpen, ShadowClose, vars
  <2> QED BY <1>5, <2>1
<1> QED BY <1>2, <1>3, <1>6, <1>7, <1>8, <1>9, NextCases

(* The backlog stays the end of the output, cut where it may be cut.        *)
LEMMA BacklogKept ==
  ASSUME TypeOK, Ordered, BacklogIsTheEnd, BacklogStarts, [Next]_vars,
         NEW k \in Shells
  PROVE  /\ backlog'[k] \in Seq(Nat)
         /\ Len(backlog'[k]) <= kBacklogMax
         /\ RunTo(backlog'[k], Delivered(k)')
         /\ StartsAt(backlog'[k], Delivered(k)', newlines'[k])
<1>1. /\ backlog[k] \in Seq(Nat) /\ Len(backlog[k]) <= kBacklogMax
      /\ RunTo(backlog[k], Delivered(k))
      /\ StartsAt(backlog[k], Delivered(k), newlines[k])
      /\ newlines[k] \in SUBSET Nat
  BY DEF TypeOK, BacklogIsTheEnd, BacklogStarts
<1>2. CASE /\ backlog'[k] = backlog[k] /\ Delivered(k)' = Delivered(k)
           /\ newlines[k] \subseteq newlines'[k]
  <2>1. StartsAt(backlog[k], Delivered(k), newlines'[k])
    BY <1>1, <1>2 DEF StartsAt
  <2> QED BY <1>1, <1>2, <2>1
<1>3. CASE /\ reader[k] = "deliver" /\ Delivered(k) = from[k]
           /\ Delivered(k)' = out[k] /\ newlines'[k] = newlines[k]
           /\ backlog'[k] = Trim(backlog[k] \o output(k), newlines[k])
  <2> DEFINE b == backlog[k] \o Bytes(from[k], out[k])
  <2>1. from[k] \in Nat /\ out[k] \in Nat /\ from[k] <= out[k]
    BY DeliveredNat DEF Ordered
  <2>2. RunTo(backlog[k], from[k]) /\ StartsAt(backlog[k], from[k], newlines[k])
    BY <1>1, <1>3
  <2>3. /\ b \in Seq(Nat) /\ Len(b) = Len(backlog[k]) + (out[k] - from[k])
        /\ RunTo(b, out[k])
    BY <1>1, <2>1, <2>2, RunAppend
  <2>4. backlog'[k] = Trim(b, newlines[k])
    BY <1>3 DEF output
  <2> HIDE DEF b
  <2>5. /\ Len(b) <= out[k]
        /\ \/ out[k] - Len(b) = 0 \/ out[k] - Len(b) \in newlines[k]
           \/ Len(b) >= kBacklogMax
    <3>1. Len(backlog[k]) \in Nat /\ out[k] - Len(b) = from[k] - Len(backlog[k])
      BY <1>1, <2>1, <2>3
    <3> QED BY <2>1, <2>2, <2>3, <3>1 DEF StartsAt
  <2> QED BY <1>1, <1>3, <2>1, <2>3, <2>4, <2>5, TrimRun
<1> QED BY <1>2, <1>3, BacklogStep DEF BacklogMoves

(* ... and so the statement about where it begins holds.                    *)
LEMMA BacklogLine ==
  ASSUME NEW b \in Seq(Nat), NEW n \in Nat, NEW lf, RunTo(b, n),
         StartsAt(b, n, lf), b # <<>>, b[1] > 1
  PROVE  b[1] - 1 \in lf \/ Len(b) = kBacklogMax
<1>1. Len(b) \in Nat /\ 1 \in 1..Len(b)
  OBVIOUS
<1>2. b[1] = n - Len(b) + 1
  BY <1>1 DEF RunTo
<1> QED BY <1>1, <1>2 DEF StartsAt

(* A step leaves the terminal attached to a shell and what it was sent, or  *)
(* sends it the chunk delivered, or attaches a terminal that was sent       *)
(* nothing or the backlog.                                                  *)
ViewMoves(k) ==
  \/ /\ client'[k] = client[k] /\ view'[client[k]] = view[client[k]]
     /\ Delivered(k)' = Delivered(k)
  \/ /\ client'[k] = client[k] /\ reader[k] = "deliver"
     /\ view'[client[k]] = view[client[k]] \o output(k)
     /\ Delivered(k) = from[k] /\ Delivered(k)' = out[k]
  \/ view'[client'[k]] = <<>>
  \/ view'[client'[k]] = backlog[k] /\ Delivered(k)' = Delivered(k)

(* The steps of an attached terminal are these.                             *)
LEMMA ViewStep ==
  ASSUME TypeOK, OneShellPerPage, [Next]_vars,
         NEW k \in Shells, client'[k] # None
  PROVE  ViewMoves(k)
<1> USE DEF Delivered, ViewMoves
<1>1. /\ reader \in [Shells -> {"new", "reading", "deliver", "broadcast", "ended"}]
      /\ out \in [Shells -> Nat] /\ from \in [Shells -> Nat]
      /\ client \in [Shells -> Pages \cup {None}] /\ view \in [Pages -> Seq(Nat)]
      /\ None \notin Pages
  BY OutputAssumption DEF TypeOK, OutputAssumption
<1>2. ASSUME NEW h \in Shells, NEW p \in Pages, StartShell(h, p)
      PROVE  ViewMoves(k)
  <2>1. /\ reader[h] = "new" /\ view[p] = <<>> /\ client' = [client EXCEPT ![h] = p]
        /\ reader' = [reader EXCEPT ![h] = "reading"]
        /\ UNCHANGED <<out, from, view>>
    BY <1>2 DEF StartShell, Fresh
  <2>2. CASE k = h
    <3>1. client'[k] = p
      BY <1>1, <2>1, <2>2
    <3> QED BY <2>1, <3>1
  <2>3. CASE k # h
    BY <1>1, <2>1, <2>3
  <2> QED BY <2>2, <2>3
<1>3. ASSUME NEW h \in Shells, NEW p \in Pages, Resume(h, p)
      PROVE  ViewMoves(k)
  <2>1. /\ view' = [view EXCEPT ![p] = backlog[h]]
        /\ client' = [client EXCEPT ![h] = p]
        /\ UNCHANGED <<reader, out, from>> /\ client[k] # p
    BY <1>3 DEF Resume, Fresh
  <2>2. CASE k = h
    <3>1. client'[k] = p /\ view'[p] = backlog[k]
      BY <1>1, <2>1, <2>2
    <3>2. Delivered(k)' = Delivered(k)
      BY <2>1
    <3> QED BY <3>1, <3>2
  <2>3. CASE k # h
    <3>1. client'[k] = client[k] /\ client[k] \in Pages
      BY <1>1, <2>1, <2>3
    <3>2. Delivered(k)' = Delivered(k)
      BY <2>1
    <3>3. view'[client[k]] = view[client[k]]
      BY <1>1, <2>1, <3>1
    <3> QED BY <3>1, <3>2, <3>3
  <2> QED BY <2>2, <2>3
<1>4. ASSUME NEW h \in Shells, deliver_output(h)
      PROVE  ViewMoves(k)
  <2>1. /\ reader[h] = "deliver" /\ reader' = [reader EXCEPT ![h] = "broadcast"]
        /\ view' = [p \in Pages |-> IF client[h] = p THEN view[p] \o output(h)
                                    ELSE view[p]]
        /\ UNCHANGED <<out, from, client>>
    BY <1>4 DEF deliver_output
  <2>2. client[k] \in Pages /\ client[k] # None /\ client'[k] = client[k]
    BY <1>1, <2>1
  <2>3. CASE k = h
    <3>1. view'[client[k]] = view[client[k]] \o output(k)
      BY <2>1, <2>2, <2>3
    <3>2. Delivered(k) = from[k] /\ Delivered(k)' = out[k]
      BY <1>1, <2>1, <2>3
    <3>3. reader[k] = "deliver"
      BY <2>1, <2>3
    <3> HIDE DEF Delivered
    <3> QED BY <2>2, <3>1, <3>2, <3>3
  <2>4. CASE k # h
    <3>1. client[h] # client[k]
      BY <2>2, <2>4 DEF OneShellPerPage
    <3>2. view'[client[k]] = view[client[k]]
      BY <2>1, <2>2, <3>1
    <3>3. Delivered(k)' = Delivered(k)
      BY <1>1, <2>1, <2>4
    <3> HIDE DEF Delivered
    <3> QED BY <2>2, <3>2, <3>3
  <2> QED BY <2>3, <2>4
<1>5. ASSUME client'[k] = client[k], UNCHANGED view, Delivered(k)' = Delivered(k)
      PROVE  ViewMoves(k)
  <2> HIDE DEF Delivered
  <2>1. view'[client[k]] = view[client[k]]
    BY <1>5
  <2> QED BY <1>5, <2>1
<1>6. CASE \E h \in Shells, n \in 1..MaxChunk : \E lf \in SUBSET (1..MaxOut[h]) :
             ReadChunk(h, n, lf)
  <2> PICK h \in Shells, n \in 1..MaxChunk : \E lf \in SUBSET (1..MaxOut[h]) :
             ReadChunk(h, n, lf)
    BY <1>6
  <2>1. /\ reader[h] = "reading" /\ reader' = [reader EXCEPT ![h] = "deliver"]
        /\ from' = [from EXCEPT ![h] = out[h]]
        /\ out' = [out EXCEPT ![h] = out[h] + n]
        /\ UNCHANGED <<client, view>>
    BY DEF ReadChunk
  <2>2. Delivered(k)' = Delivered(k)
    BY <1>1, <2>1
  <2> QED BY <1>5, <2>1, <2>2
<1>7. CASE \E h \in Shells : Broadcast(h)
  <2> PICK h \in Shells : Broadcast(h)
    BY <1>7
  <2>1. /\ reader[h] = "broadcast" /\ reader' = [reader EXCEPT ![h] = "reading"]
        /\ UNCHANGED <<out, from, client, view>>
    BY DEF Broadcast
  <2> QED BY <1>1, <1>5, <2>1
<1>8. CASE \E h \in Shells : EndShell(h)
  <2> PICK h \in Shells : EndShell(h)
    BY <1>8
  <2>1. /\ reader[h] = "reading" /\ reader' = [reader EXCEPT ![h] = "ended"]
        /\ client' = [client EXCEPT ![h] = None]
        /\ UNCHANGED <<out, from, view>>
    BY DEF EndShell
  <2> QED BY <1>1, <1>5, <2>1
<1>9. CASE \E h \in Shells : LeavePage(h)
  BY <1>1, <1>5, <1>9 DEF LeavePage
<1>10. CASE \/ \E w \in Watchers : ShadowOpen(w) \/ ShadowClose(w)
            \/ UNCHANGED vars
  BY <1>1, <1>5, <1>10 DEF ShadowOpen, ShadowClose, vars
<1> QED BY <1>2, <1>3, <1>4, <1>6, <1>7, <1>8, <1>9, <1>10, NextCases

(* What the attached terminal was sent stays an unbroken run.               *)
LEMMA NoGapStep ==
  ASSUME TypeOK, Ordered, OneShellPerPage, BacklogIsTheEnd, NoGap, [Next]_vars
  PROVE  NoGap'
<1> SUFFICES ASSUME NEW k \in Shells, client'[k] # None
             PROVE  RunTo(view'[client'[k]], Delivered(k)')
  BY DEF NoGap
<1>1. client[k] # None =>
        client[k] \in Pages /\ view[client[k]] \in Seq(Nat)
  BY DEF TypeOK
<1>2. CASE /\ client'[k] = client[k] /\ view'[client[k]] = view[client[k]]
           /\ Delivered(k)' = Delivered(k)
  BY <1>2 DEF NoGap
<1>3. CASE /\ client'[k] = client[k] /\ reader[k] = "deliver"
           /\ view'[client[k]] = view[client[k]] \o output(k)
           /\ Delivered(k) = from[k] /\ Delivered(k)' = out[k]
  <2>1. from[k] \in Nat /\ out[k] \in Nat /\ from[k] <= out[k]
    BY DeliveredNat DEF Ordered
  <2>2. RunTo(view[client[k]], from[k])
    BY <1>3 DEF NoGap
  <2>3. RunTo(view[client[k]] \o Bytes(from[k], out[k]), out[k])
    BY <1>1, <1>3, <2>1, <2>2, RunAppend
  <2> QED BY <1>3, <2>3 DEF output
<1>4. CASE view'[client'[k]] = <<>>
  BY <1>4 DEF RunTo
<1>5. CASE view'[client'[k]] = backlog[k] /\ Delivered(k)' = Delivered(k)
  BY <1>5 DEF BacklogIsTheEnd
<1> QED BY <1>2, <1>3, <1>4, <1>5, ViewStep DEF ViewMoves

(* A step leaves what a watcher was sent of a shell, or sends it the chunk  *)
(* that was delivered, or the watcher has just come.                        *)
WatcherMoves(w, k) ==
  \/ seen'[w][k] = seen[w][k] /\ Shared(k)' = Shared(k) /\ w \in shadows
  \/ /\ reader[k] = "broadcast" /\ seen'[w][k] = seen[w][k] \o output(k)
     /\ Shared(k) = from[k] /\ Shared(k)' = out[k] /\ w \in shadows
  \/ seen'[w][k] = <<>>

(* The steps of a watcher are these.                                        *)
LEMMA WatcherStep ==
  ASSUME TypeOK, [Next]_vars, NEW w \in Watchers, w \in shadows',
         NEW k \in Shells
  PROVE  WatcherMoves(w, k)
<1> USE DEF Shared, WatcherMoves
<1>1. /\ reader \in [Shells -> {"new", "reading", "deliver", "broadcast", "ended"}]
      /\ out \in [Shells -> Nat] /\ from \in [Shells -> Nat]
      /\ seen \in [Watchers -> [Shells -> Seq(Nat)]]
  BY DEF TypeOK
<1>2. ASSUME NEW v \in Watchers, ShadowOpen(v)
      PROVE  WatcherMoves(w, k)
  <2>1. /\ shadows' = shadows \cup {v}
        /\ seen' = [seen EXCEPT ![v] = [h \in Shells |-> <<>>]]
        /\ UNCHANGED <<reader, out, from>>
    BY <1>2 DEF ShadowOpen
  <2>2. CASE w = v
    BY <1>1, <2>1, <2>2
  <2>3. CASE w # v
    BY <1>1, <2>1, <2>3
  <2> QED BY <2>2, <2>3
<1>3. ASSUME NEW h \in Shells, Broadcast(h)
      PROVE  WatcherMoves(w, k)
  <2>1. /\ reader[h] = "broadcast" /\ reader' = [reader EXCEPT ![h] = "reading"]
        /\ UNCHANGED <<out, from, shadows>>
        /\ seen' = [v \in Watchers |->
                      IF v \in shadows
                      THEN [seen[v] EXCEPT ![h] = @ \o output(h)] ELSE seen[v]]
    BY <1>3 DEF Broadcast
  <2>2. w \in shadows /\ seen'[w] = [seen[w] EXCEPT ![h] = @ \o output(h)]
    BY <2>1
  <2>3. seen[w] \in [Shells -> Seq(Nat)]
    BY <1>1
  <2>4. CASE k = h
    <3>1. seen'[w][k] = seen[w][k] \o output(k)
      BY <2>2, <2>3, <2>4
    <3>2. Shared(k) = from[k] /\ Shared(k)' = out[k] /\ reader[k] = "broadcast"
      BY <1>1, <2>1, <2>4
    <3> QED BY <2>2, <3>1, <3>2
  <2>5. CASE k # h
    <3>1. seen'[w][k] = seen[w][k]
      BY <2>2, <2>3, <2>5
    <3> QED BY <1>1, <2>1, <2>2, <2>5, <3>1
  <2> QED BY <2>4, <2>5
<1>4. ASSUME w \in shadows, UNCHANGED seen, Shared(k)' = Shared(k)
      PROVE  WatcherMoves(w, k)
  BY <1>4
<1>5. CASE \E h \in Shells, n \in 1..MaxChunk : \E lf \in SUBSET (1..MaxOut[h]) :
             ReadChunk(h, n, lf)
  <2> PICK h \in Shells, n \in 1..MaxChunk : \E lf \in SUBSET (1..MaxOut[h]) :
             ReadChunk(h, n, lf)
    BY <1>5
  <2>1. /\ reader[h] = "reading" /\ reader' = [reader EXCEPT ![h] = "deliver"]
        /\ from' = [from EXCEPT ![h] = out[h]]
        /\ out' = [out EXCEPT ![h] = out[h] + n]
        /\ UNCHANGED <<shadows, seen>>
    BY DEF ReadChunk
  <2>2. Shared(k)' = Shared(k)
    BY <1>1, <2>1
  <2> QED BY <1>4, <2>1, <2>2
<1>6. ASSUME NEW h \in Shells, NEW s,
             \/ reader[h] = "deliver" /\ s = "broadcast"
             \/ reader[h] \in {"new", "reading"} /\ s \in {"reading", "ended"},
             reader' = [reader EXCEPT ![h] = s],
             UNCHANGED <<out, from, shadows, seen>>
      PROVE  WatcherMoves(w, k)
  <2>1. Shared(k)' = Shared(k)
    BY <1>1, <1>6
  <2> QED BY <1>4, <1>6, <2>1
<1>7. CASE \E h \in Shells, p \in Pages : StartShell(h, p)
  BY <1>6, <1>7 DEF StartShell
<1>8. CASE \E h \in Shells : EndShell(h)
  BY <1>6, <1>8 DEF EndShell
<1>9. CASE \E h \in Shells : deliver_output(h)
  BY <1>6, <1>9 DEF deliver_output
<1>10. CASE \/ \E h \in Shells, p \in Pages : Resume(h, p)
            \/ \E h \in Shells : LeavePage(h)
            \/ \E v \in Watchers : ShadowClose(v)
            \/ UNCHANGED vars
  BY <1>4, <1>10 DEF Resume, LeavePage, ShadowClose, vars
<1> QED BY <1>2, <1>3, <1>5, <1>7, <1>8, <1>9, <1>10, NextCases

(* What a watcher was sent of a shell stays an unbroken run.                *)
LEMMA WatchersStep ==
  ASSUME TypeOK, Ordered, WatchersNoGap, [Next]_vars, TypeOK'
  PROVE  WatchersNoGap'
<1> SUFFICES ASSUME NEW w \in shadows', NEW k \in Shells
             PROVE  RunTo(seen'[w][k], Shared(k)')
  BY DEF WatchersNoGap
<1>1. w \in Watchers
  BY DEF TypeOK
<1>2. seen[w][k] \in Seq(Nat)
  BY <1>1 DEF TypeOK
<1>3. CASE seen'[w][k] = seen[w][k] /\ Shared(k)' = Shared(k) /\ w \in shadows
  BY <1>3 DEF WatchersNoGap
<1>4. CASE /\ reader[k] = "broadcast" /\ seen'[w][k] = seen[w][k] \o output(k)
           /\ Shared(k) = from[k] /\ Shared(k)' = out[k] /\ w \in shadows
  <2>1. from[k] \in Nat /\ out[k] \in Nat /\ from[k] <= out[k]
    BY DeliveredNat DEF Ordered
  <2>2. RunTo(seen[w][k], from[k])
    BY <1>4 DEF WatchersNoGap
  <2>3. RunTo(seen[w][k] \o Bytes(from[k], out[k]), out[k])
    BY <1>2, <2>1, <2>2, RunAppend
  <2> QED BY <1>4, <2>3 DEF output
<1>5. CASE seen'[w][k] = <<>>
  BY <1>5 DEF RunTo
<1> QED BY <1>1, <1>3, <1>4, <1>5, WatcherStep DEF WatcherMoves

(* Every step keeps the types.                                              *)
LEMMA OutputTypesStep ==
  ASSUME TypeOK, Ordered, BacklogIsTheEnd, BacklogStarts, [Next]_vars
  PROVE  TypeOK'
<1>1. ASSUME NEW h \in Shells, NEW p \in Pages, StartShell(h, p)
      PROVE  TypeOK'
  BY <1>1 DEF StartShell, TypeOK
<1>2. ASSUME NEW h \in Shells, NEW p \in Pages, Resume(h, p)
      PROVE  TypeOK'
  BY <1>2 DEF Resume, TypeOK
<1>3. ASSUME NEW h \in Shells, NEW n \in 1..MaxChunk,
             NEW lf \in SUBSET (1..MaxOut[h]), ReadChunk(h, n, lf)
      PROVE  TypeOK'
  <2>1. out[h] \in Nat /\ out[h] + n \in Nat /\ out[h] <= out[h] + n
    BY OutputAssumption, DeliveredNat DEF OutputAssumption
  <2>2. lf \subseteq Nat
    BY OutputAssumption DEF OutputAssumption
  <2>3. out' \in [Shells -> Nat] /\ from' \in [Shells -> Nat]
    BY <1>3, <2>1 DEF ReadChunk, TypeOK
  <2>4. newlines' \in [Shells -> SUBSET Nat]
    BY <1>3, <2>2 DEF ReadChunk, TypeOK
  <2> DEFINE c == Bytes(out[h], out[h] + n)
  <2>5. c \in Seq(Nat)
    BY <2>1, Chunk
  <2>6. cast' = cast \/ cast' = [cast EXCEPT ![h] = @ \o c]
    BY <1>3 DEF ReadChunk
  <2> HIDE DEF c
  <2>7. cast \in [Shells -> Seq(Nat)]
    BY DEF TypeOK
  <2>8. cast[h] \o c \in Seq(Nat)
    BY <2>5, <2>7
  <2>9. cast' \in [Shells -> Seq(Nat)]
    BY <2>6, <2>7, <2>8
  <2> QED BY <1>3, <2>3, <2>4, <2>9 DEF ReadChunk, TypeOK
<1>4. ASSUME NEW h \in Shells, deliver_output(h)
      PROVE  TypeOK'
  <2> DEFINE c == output(h)
  <2>1. from[h] \in Nat /\ out[h] \in Nat /\ from[h] <= out[h]
    BY DeliveredNat DEF Ordered
  <2>2. c \in Seq(Nat)
    BY <2>1, Chunk DEF output
  <2>3. view' = [p \in Pages |-> IF client[h] = p THEN view[p] \o c ELSE view[p]]
    BY <1>4 DEF deliver_output
  <2> HIDE DEF c
  <2>4. \A p \in Pages : view[p] \in Seq(Nat) /\ view[p] \o c \in Seq(Nat)
    BY <2>2 DEF TypeOK
  <2>5. view' \in [Pages -> Seq(Nat)]
    BY <2>3, <2>4
  <2>6. \A k \in Shells : backlog'[k] \in Seq(Nat)
    BY BacklogKept
  <2>7. \E x : backlog' = [backlog EXCEPT ![h] = x]
    BY <1>4 DEF deliver_output
  <2>8. backlog' \in [Shells -> Seq(Nat)]
    BY <2>6, <2>7 DEF TypeOK
  <2> QED BY <1>4, <2>5, <2>8 DEF deliver_output, TypeOK
<1>5. ASSUME NEW h \in Shells, Broadcast(h)
      PROVE  TypeOK'
  <2> DEFINE c == output(h)
  <2>1. from[h] \in Nat /\ out[h] \in Nat /\ from[h] <= out[h]
    BY DeliveredNat DEF Ordered
  <2>2. c \in Seq(Nat)
    BY <2>1, Chunk DEF output
  <2>3. seen' = [w \in Watchers |->
                  IF w \in shadows THEN [seen[w] EXCEPT ![h] = @ \o c]
                  ELSE seen[w]]
    BY <1>5 DEF Broadcast
  <2> HIDE DEF c
  <2>4. ASSUME NEW w \in Watchers
        PROVE  [seen[w] EXCEPT ![h] = @ \o c] \in [Shells -> Seq(Nat)]
    <3>1. seen[w] \in [Shells -> Seq(Nat)]
      BY DEF TypeOK
    <3>2. seen[w][h] \o c \in Seq(Nat)
      BY <2>2, <3>1
    <3> QED BY <3>1, <3>2
  <2>5. seen' \in [Watchers -> [Shells -> Seq(Nat)]]
    <3>1. \A w \in Watchers : seen[w] \in [Shells -> Seq(Nat)]
      BY DEF TypeOK
    <3> QED BY <2>3, <2>4, <3>1
  <2> QED BY <1>5, <2>5 DEF Broadcast, TypeOK
<1>6. ASSUME NEW h \in Shells, EndShell(h)
      PROVE  TypeOK'
  BY <1>6 DEF EndShell, TypeOK
<1>7. ASSUME NEW h \in Shells, LeavePage(h)
      PROVE  TypeOK'
  BY <1>7 DEF LeavePage, TypeOK
<1>8. ASSUME NEW w \in Watchers, ShadowOpen(w)
      PROVE  TypeOK'
  BY <1>8 DEF ShadowOpen, TypeOK
<1>9. ASSUME NEW w \in Watchers, ShadowClose(w)
      PROVE  TypeOK'
  BY <1>9 DEF ShadowClose, TypeOK
<1>10. CASE UNCHANGED vars
  BY <1>10 DEF vars, TypeOK
<1> QED
  BY <1>1, <1>2, <1>3, <1>4, <1>5, <1>6, <1>7, <1>8, <1>9, <1>10, NextCases

(* Nothing was written or sent when the session starts.                     *)
LEMMA StoryInit == Init => Story
<1> SUFFICES ASSUME Init PROVE Story
  OBVIOUS
<1> USE OutputAssumption DEF OutputAssumption, Init
<1>1. TypeOK
  <2>1. <<>> \in Seq(Nat)
    OBVIOUS
  <2> QED BY <2>1 DEF TypeOK
<1>2. Ordered
  BY DEF Ordered
<1>3. OneShellPerPage
  BY DEF OneShellPerPage
<1>4. BacklogStarts
  BY DEF BacklogStarts, StartsAt, Delivered
<1>5. NoGap
  BY DEF NoGap
<1>6. BacklogIsTheEnd
  BY DEF BacklogIsTheEnd, RunTo
<1>7. WatchersNoGap
  BY DEF WatchersNoGap
<1> QED BY <1>1, <1>2, <1>3, <1>4, <1>5, <1>6, <1>7 DEF Story, Transcript

(* Every step keeps the story.                                              *)
LEMMA StoryStep == Story /\ [Next]_vars => Story'
<1> SUFFICES ASSUME Story, [Next]_vars PROVE Story'
  OBVIOUS
<1>1. /\ TypeOK /\ Ordered /\ OneShellPerPage /\ BacklogStarts
      /\ NoGap /\ BacklogIsTheEnd /\ WatchersNoGap
  BY DEF Story, Transcript
<1>2. TypeOK'
  BY <1>1, OutputTypesStep
<1>3. Ordered' /\ OneShellPerPage' /\ NoGap' /\ WatchersNoGap'
  BY <1>1, <1>2, OrderedStep, PageStep, NoGapStep, WatchersStep
<1>4. BacklogStarts'
  BY <1>1, BacklogKept DEF BacklogStarts
<1>5. BacklogIsTheEnd'
  <2>1. SUFFICES ASSUME NEW k \in Shells
        PROVE  /\ Len(backlog'[k]) <= kBacklogMax
               /\ RunTo(backlog'[k], Delivered(k)')
               /\ backlog'[k] # <<>> /\ backlog'[k][1] > 1 =>
                    \/ backlog'[k][1] - 1 \in newlines'[k]
                    \/ Len(backlog'[k]) = kBacklogMax
    BY DEF BacklogIsTheEnd
  <2>2. /\ backlog'[k] \in Seq(Nat) /\ Len(backlog'[k]) <= kBacklogMax
        /\ RunTo(backlog'[k], Delivered(k)')
        /\ StartsAt(backlog'[k], Delivered(k)', newlines'[k])
    BY <1>1, BacklogKept
  <2>3. Delivered(k)' \in Nat
    BY <1>2 DEF TypeOK, Delivered
  <2> QED BY <2>2, <2>3, BacklogLine
<1> QED BY <1>2, <1>3, <1>4, <1>5 DEF Story, Transcript

(* The variables of the output module keep their types: the backlog, the    *)
(* recording and what terminals and watchers were sent are sequences of     *)
(* output positions throughout (ssh.cc, session_recording.cc).              *)
THEOREM OutputTypesAlways == Spec => []TypeOK
<1>1. Story => TypeOK
  BY DEF Story
<1> QED BY <1>1, StoryInit, StoryStep, PTL DEF Spec

(* Terminals, watchers and the backlog tell one story, for every size of    *)
(* the backlog and every interleaving of readers, terminals that leave and  *)
(* come back, and watchers: an unbroken run of each shell's output.         *)
THEOREM TranscriptAlways == Spec => []Transcript
<1>1. Story => Transcript
  BY DEF Story
<1> QED BY <1>1, StoryInit, StoryStep, PTL DEF Spec

-----------------------------------------------------------------------------
(* A shell that is still to be started has written nothing.                 *)
LEMMA UnstartedStep ==
  ASSUME TypeOK, Unstarted, [Next]_vars
  PROVE  Unstarted'
<1> SUFFICES ASSUME NEW k \in Shells, reader'[k] = "new"
             PROVE  /\ out'[k] = 0 /\ cast'[k] = <<>>
                    /\ k \notin recorder' /\ k \notin rows'
  BY DEF Unstarted
<1> DEFINE Kept == /\ reader[k] = "new" /\ out'[k] = out[k] /\ cast'[k] = cast[k]
                   /\ (k \in recorder' => k \in recorder)
                   /\ (k \in rows' => k \in rows)
<1>1. /\ reader \in [Shells -> {"new", "reading", "deliver", "broadcast", "ended"}]
      /\ out \in [Shells -> Nat] /\ cast \in [Shells -> Seq(Nat)]
  BY DEF TypeOK
<1>2. ASSUME NEW h \in Shells, NEW p \in Pages, StartShell(h, p)
      PROVE  Kept
  BY <1>1, <1>2 DEF StartShell
<1>3. ASSUME NEW h \in Shells, NEW n, NEW lf, ReadChunk(h, n, lf)
      PROVE  Kept
  <2>1. /\ reader' = [reader EXCEPT ![h] = "deliver"] /\ \E x : out' = [out EXCEPT ![h] = x]
        /\ UNCHANGED <<recorder, rows>>
    BY <1>3 DEF ReadChunk
  <2>2. cast' = cast \/ \E x : cast' = [cast EXCEPT ![h] = x]
    BY <1>3 DEF ReadChunk
  <2>3. k # h /\ reader[k] = "new"
    BY <1>1, <2>1
  <2>4. out'[k] = out[k]
    BY <1>1, <2>1, <2>3
  <2>5. cast'[k] = cast[k]
    BY <1>1, <2>2, <2>3
  <2> QED BY <2>1, <2>3, <2>4, <2>5
<1>4. ASSUME NEW h \in Shells, EndShell(h)
      PROVE  Kept
  <2>1. /\ reader' = [reader EXCEPT ![h] = "ended"] /\ recorder' = recorder \ {h}
        /\ UNCHANGED <<out, cast>>
    BY <1>4 DEF EndShell
  <2>2. rows' \subseteq rows
    BY <1>4 DEF EndShell
  <2> QED BY <1>1, <2>1, <2>2
<1>5. ASSUME NEW h \in Shells, deliver_output(h) \/ Broadcast(h)
      PROVE  Kept
  BY <1>1, <1>5 DEF deliver_output, Broadcast
<1>6. ASSUME UNCHANGED <<reader, out, cast, recorder, rows>>
      PROVE  Kept
  BY <1>6
<1>7. ASSUME \/ \E h \in Shells, p \in Pages : Resume(h, p)
             \/ \E h \in Shells : LeavePage(h)
             \/ \E w \in Watchers : ShadowOpen(w)
             \/ \E w \in Watchers : ShadowClose(w)
             \/ UNCHANGED vars
      PROVE  Kept
  BY <1>6, <1>7 DEF Resume, LeavePage, ShadowOpen, ShadowClose, vars
<1>8. Kept
  <2> HIDE DEF Kept
  <2> QED BY <1>2, <1>3, <1>4, <1>5, <1>7, NextCases
<1> QED BY <1>8 DEF Unstarted

(* A recorder that is open has every byte read so far.                      *)
LEMMA RecordingStep ==
  ASSUME TypeOK, Unstarted, RecordingComplete, [Next]_vars
  PROVE  RecordingComplete'
<1>1. /\ out \in [Shells -> Nat] /\ cast \in [Shells -> Seq(Nat)]
      /\ recorder \subseteq Shells
  BY DEF TypeOK
<1>2. CASE recorder' \subseteq recorder /\ UNCHANGED <<out, cast>>
  BY <1>2 DEF RecordingComplete
<1>3. ASSUME NEW h \in Shells, NEW p \in Pages, StartShell(h, p)
      PROVE  RecordingComplete'
  <2>1. reader[h] = "new" /\ recorder' \subseteq recorder \cup {h}
        /\ UNCHANGED <<out, cast>>
    BY <1>3 DEF StartShell
  <2>2. out[h] = 0 /\ cast[h] = <<>>
    BY <2>1 DEF Unstarted
  <2>3. Len(cast[h]) = out[h] /\ RunTo(cast[h], out[h])
    BY <2>2 DEF RunTo
  <2> QED BY <2>1, <2>3 DEF RecordingComplete
<1>4. ASSUME NEW h \in Shells, NEW n \in 1..MaxChunk, NEW lf, ReadChunk(h, n, lf)
      PROVE  RecordingComplete'
  <2> DEFINE c == Bytes(out[h], out[h] + n)
  <2>1. /\ out' = [out EXCEPT ![h] = out[h] + n] /\ UNCHANGED recorder
        /\ cast' = IF h \in recorder THEN [cast EXCEPT ![h] = @ \o c] ELSE cast
    BY <1>4 DEF ReadChunk
  <2> SUFFICES ASSUME NEW k \in recorder
               PROVE  Len(cast'[k]) = out'[k] /\ RunTo(cast'[k], out'[k])
    BY <2>1 DEF RecordingComplete
  <2>2. /\ k \in Shells /\ cast[k] \in Seq(Nat) /\ out[k] \in Nat
        /\ Len(cast[k]) = out[k] /\ RunTo(cast[k], out[k])
    BY <1>1 DEF RecordingComplete
  <2>3. CASE k = h
    <3>1. out[h] + n \in Nat /\ out[h] <= out[h] + n
      BY <2>2, <2>3, OutputAssumption DEF OutputAssumption
    <3>2. /\ Len(cast[h] \o c) = Len(cast[h]) + ((out[h] + n) - out[h])
          /\ RunTo(cast[h] \o c, out[h] + n)
      BY <2>2, <2>3, <3>1, RunAppend
    <3> HIDE DEF c
    <3>3. cast'[k] = cast[h] \o c /\ out'[k] = out[h] + n
      BY <1>1, <2>1, <2>3
    <3>4. Len(cast[h]) + ((out[h] + n) - out[h]) = out[h] + n
      BY <2>2, <2>3, <3>1
    <3> QED BY <3>2, <3>3, <3>4
  <2>4. CASE k # h
    <3> HIDE DEF c
    <3>1. cast'[k] = cast[k] /\ out'[k] = out[k]
      BY <1>1, <2>1, <2>2, <2>4
    <3> QED BY <2>2, <3>1
  <2> QED BY <2>3, <2>4
<1>5. CASE \/ \E h \in Shells, p \in Pages : Resume(h, p)
           \/ \E h \in Shells : deliver_output(h)
           \/ \E h \in Shells : Broadcast(h)
           \/ \E h \in Shells : EndShell(h)
           \/ \E h \in Shells : LeavePage(h)
           \/ \E w \in Watchers : ShadowOpen(w)
           \/ \E w \in Watchers : ShadowClose(w)
           \/ UNCHANGED vars
  <2>1. recorder' \subseteq recorder /\ UNCHANGED <<out, cast>>
    BY <1>5 DEF Resume, deliver_output, Broadcast, EndShell, LeavePage,
                ShadowOpen, ShadowClose, vars
  <2> QED BY <1>2, <2>1
<1> QED BY <1>3, <1>4, <1>5, NextCases

(* The rows without a closedAt and the open recorders stay equally many:    *)
(* a reader that ends closes one of each, though not always its own row.    *)
LEMMA RowsStep ==
  ASSUME Rows, [Next]_vars
  PROVE  /\ RowsMatchRecorders'
         /\ IsFiniteSet(recorder') /\ IsFiniteSet(rows')
<1> DEFINE RowsEven == /\ RowsMatchRecorders
                       /\ IsFiniteSet(recorder) /\ IsFiniteSet(rows)
<1>1. /\ IsFiniteSet(recorder) /\ IsFiniteSet(rows)
      /\ Cardinality(rows) = Cardinality(recorder)
      /\ Cardinality(recorder) \in Nat
  BY FS_CardinalityType DEF Rows, Recordings, RowsMatchRecorders
<1>2. CASE UNCHANGED <<recorder, rows>>
  BY <1>1, <1>2 DEF RowsMatchRecorders
<1>3. ASSUME NEW h \in Shells, NEW p \in Pages, StartShell(h, p)
      PROVE  RowsEven'
  <2>1. h \notin recorder /\ h \notin rows
    BY <1>3 DEF StartShell, Rows, Unstarted
  <2>2. CASE recorder' = recorder \cup {h} /\ rows' = rows \cup {h}
    <3>1. IsFiniteSet(recorder') /\ Cardinality(recorder') = Cardinality(recorder) + 1
      BY <1>1, <2>1, <2>2, FS_AddElement
    <3>2. IsFiniteSet(rows') /\ Cardinality(rows') = Cardinality(rows) + 1
      BY <1>1, <2>1, <2>2, FS_AddElement
    <3> QED BY <1>1, <3>1, <3>2 DEF RowsMatchRecorders
  <2> QED BY <1>2, <1>3, <2>2 DEF StartShell
<1>4. ASSUME NEW h \in Shells, EndShell(h)
      PROVE  RowsEven'
  <2>1. recorder' = recorder \ {h}
    BY <1>4 DEF EndShell
  <2>2. CASE h \in recorder
    <3>1. rows # {}
      BY <1>1, <2>2, FS_EmptySet
    <3>2. PICK r \in rows : rows' = rows \ {r}
      BY <1>4, <2>2, <3>1 DEF EndShell
    <3>3. IsFiniteSet(recorder') /\ Cardinality(recorder') = Cardinality(recorder) - 1
      BY <1>1, <2>1, <2>2, FS_RemoveElement
    <3>4. IsFiniteSet(rows') /\ Cardinality(rows') = Cardinality(rows) - 1
      BY <1>1, <3>2, FS_RemoveElement
    <3> QED BY <1>1, <3>3, <3>4 DEF RowsMatchRecorders
  <2>3. CASE h \notin recorder
    <3>1. UNCHANGED <<recorder, rows>>
      BY <1>4, <2>1, <2>3 DEF EndShell
    <3> QED BY <1>2, <3>1
  <2> QED BY <2>2, <2>3
<1>5. CASE \/ \E h \in Shells, p \in Pages : Resume(h, p)
           \/ \E h \in Shells, n \in 1..MaxChunk : \E lf \in SUBSET (1..MaxOut[h]) :
                ReadChunk(h, n, lf)
           \/ \E h \in Shells : deliver_output(h)
           \/ \E h \in Shells : Broadcast(h)
           \/ \E h \in Shells : LeavePage(h)
           \/ \E w \in Watchers : ShadowOpen(w)
           \/ \E w \in Watchers : ShadowClose(w)
           \/ UNCHANGED vars
  <2>1. UNCHANGED <<recorder, rows>>
    BY <1>5 DEF Resume, ReadChunk, deliver_output, Broadcast, LeavePage,
                ShadowOpen, ShadowClose, vars
  <2> QED BY <1>2, <2>1
<1> QED BY <1>3, <1>4, <1>5, NextCases

(* Recordings are complete, and there are as many open rows as there are    *)
(* open recorders, for any number of shells of the session and whichever    *)
(* row each reader closed: when the last shell has ended, none is open.     *)
THEOREM RecordingsAlways == Spec => []Recordings
<1>1. Init => Rows
  <2> SUFFICES ASSUME Init PROVE Rows
    OBVIOUS
  <2>1. TypeOK
    BY StoryInit DEF Story
  <2>2. Unstarted /\ RecordingComplete
    BY DEF Init, Unstarted, RecordingComplete
  <2>3. rows = {} /\ recorder = {}
    BY DEF Init
  <2> QED BY <2>1, <2>2, <2>3, FS_EmptySet DEF Rows, Recordings, RowsMatchRecorders
<1>2. Story /\ Rows /\ [Next]_vars => Rows'
  <2> SUFFICES ASSUME Story, Rows, [Next]_vars PROVE Rows'
    OBVIOUS
  <2>1. TypeOK /\ Unstarted /\ RecordingComplete
    BY DEF Rows, Recordings
  <2>2. TypeOK'
    BY StoryStep DEF Story
  <2>3. Unstarted' /\ RecordingComplete'
    BY <2>1, UnstartedStep, RecordingStep
  <2> QED BY <2>2, <2>3, RowsStep DEF Rows, Recordings
<1>3. Rows => Recordings
  BY DEF Rows
<1> QED BY <1>1, <1>2, <1>3, StoryInit, StoryStep, PTL DEF Spec
=============================================================================
