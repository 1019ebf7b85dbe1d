--------------------------- MODULE AuditLogProofs ---------------------------
(***************************************************************************)
(* The audit log of module AuditLog, for every size of the file, every     *)
(* retention, every number of old lines and every number of events: what   *)
(* verify_audit_chain says of the active file is right, and archives and   *)
(* active file stay one chain that holds every event.                      *)
(*                                                                         *)
(* What the verdict rests on (Log): lines with hashes come after all the   *)
(* lines without, up to a torn last line (Shaped); the head in memory is   *)
(* the hash of the last line unless a write failed (Followed); and hashes  *)
(* of an untouched file only grow, even over lines that failed to be       *)
(* written, so that taking a line out leaves a step of at least two        *)
(* (Growing).  Cross-links need the head to be the last hash of the newest *)
(* archive while the active file is empty (NewestIsHead).                  *)
(***************************************************************************)
EXTENDS AuditLog, TLAPS

(* Lines without hashes first, then lines with hashes; the last one may     *)
(* have lost its hashes with its end.                                       *)
Shape(f, t) ==
  /\ t => f # <<>>
  /\ \E k \in 1..(Len(f) + 1) : \A j \in 1..Len(f) :
       f[j].chained <=> k <= j /\ ~(t /\ j = Len(f))

(* A line is torn only by a write that failed.                              *)
Shaped == Shape(file, torn) /\ (torn => "unwritten" \in gaps)

(* The head is the hash of the last line.                                   *)
Followed ==
  tampered \in {"no", "sealed"} /\ "unwritten" \notin gaps =>
    (file # <<>> /\ file[Len(file)].chained
       => audit_chain_hash = file[Len(file)].hash)

(* Each line's hash is made of its own contents and is longer than the one  *)
(* it links to, which is at least as long as those of all lines before it.  *)
Grows(f) ==
  /\ \A i \in 1..Len(f) : f[i].chained =>
       /\ f[i].ev # Garbage => f[i].hash = Mac(f[i].prev, f[i].ev)
       /\ Len(f[i].hash) = Len(f[i].prev) + 1
  /\ \A i, j \in 1..Len(f) :
       i < j /\ f[i].chained /\ f[j].chained
         => Len(f[i].hash) <= Len(f[j].prev)
Below(f, h) == \A i \in 1..Len(f) : f[i].chained => Len(f[i].hash) <= Len(h)
Growing == tampered = "no" => Grows(file) /\ Below(file, audit_chain_hash)

(* Archives are named after seconds that have passed; while the active file *)
(* is empty the head is where the newest archive ended.                     *)
NewestIsHead ==
  gaps = {} /\ tampered = "no" =>
    \A a \in archives :
      /\ a.at <= now
      /\ a.lines # <<>> /\ a.lines[Len(a.lines)].chained /\ file = <<>>
         /\ (\A b \in archives : b.at <= a.at)
           => audit_chain_hash = a.lines[Len(a.lines)].hash

Log == /\ TypeOK /\ Shaped /\ Followed /\ Growing /\ NewestIsHead
       /\ VerdictIsRight /\ ChainIsKept

-----------------------------------------------------------------------------
(* Writing to a file                                                       *)

USE DEF Garbage

(* What appending a line does to a file.                                    *)
LEMMA Appended ==
  ASSUME NEW f \in Seq(Line), NEW x \in Line
  PROVE  /\ Append(f, x) \in Seq(Line) /\ Append(f, x) # <<>>
         /\ Len(Append(f, x)) = Len(f) + 1 /\ Len(f) \in Nat
         /\ \A i \in 1..Len(f) : Append(f, x)[i] = f[i]
         /\ Append(f, x)[Len(f) + 1] = x
  OBVIOUS

(* What completing a torn last line does to a file.                         *)
LEMMA Mended ==
  ASSUME NEW f \in Seq(Line), f # <<>>, NEW x \in Line
  PROVE  LET g == [f EXCEPT ![Len(f)] = x]
         IN  /\ g \in Seq(Line) /\ g # <<>> /\ Len(g) = Len(f)
             /\ Len(f) \in Nat \ {0}
             /\ \A i \in 1..Len(f) : i # Len(f) => g[i] = f[i]
             /\ g[Len(f)] = x
  OBVIOUS

(* A line with hashes after the last one keeps the shape, and so does a     *)
(* line whose hashes are missing if nothing follows it.                     *)
LEMMA ShapeAppend ==
  ASSUME NEW f \in Seq(Line), NEW x \in Line, Shape(f, FALSE)
  PROVE  Shape(Append(f, x), ~x.chained)
<1>1. PICK k \in 1..(Len(f) + 1) : \A j \in 1..Len(f) : f[j].chained <=> k <= j
  BY DEF Shape
<1> DEFINE g == Append(f, x)
<1>2. /\ g # <<>> /\ Len(g) = Len(f) + 1 /\ Len(f) \in Nat
      /\ \A i \in 1..Len(f) : g[i] = f[i]
      /\ g[Len(f) + 1] = x
  BY Appended
<1> HIDE DEF g
<1>3. \A j \in 1..Len(g) :
        g[j].chained <=> k <= j /\ ~(~x.chained /\ j = Len(g))
  BY <1>1, <1>2
<1>4. k \in 1..(Len(g) + 1)
  BY <1>2
<1>5. Shape(g, ~x.chained)
  BY <1>2, <1>3, <1>4 DEF Shape
<1> QED BY <1>5 DEF g

(* A torn line that is completed gets hashes and keeps the shape.           *)
LEMMA ShapeMend ==
  ASSUME NEW f \in Seq(Line), NEW x \in Line, Shape(f, TRUE), x.chained
  PROVE  Shape([f EXCEPT ![Len(f)] = x], FALSE)
<1>0. f # <<>>
  BY DEF Shape
<1>1. PICK k \in 1..(Len(f) + 1) :
        \A j \in 1..Len(f) : f[j].chained <=> k <= j /\ j # Len(f)
  BY DEF Shape
<1> DEFINE g == [f EXCEPT ![Len(f)] = x]
           m == IF k = Len(f) + 1 THEN Len(f) ELSE k
<1>2. /\ Len(g) = Len(f) /\ Len(f) \in Nat \ {0}
      /\ \A i \in 1..Len(f) : i # Len(f) => g[i] = f[i]
      /\ g[Len(f)] = x
  BY <1>0, Mended
<1> HIDE DEF g
<1>3. m \in 1..(Len(g) + 1) /\ \A j \in 1..Len(g) : g[j].chained <=> m <= j
  BY <1>1, <1>2
<1>4. Shape(g, FALSE)
  BY <1>3 DEF Shape
<1> QED BY <1>4 DEF g

(* A file that verifies still does with a line that links to the last one.  *)
LEMMA IntactAppend ==
  ASSUME NEW f \in Seq(Line), NEW x \in Line, Shape(f, FALSE), Intact(f),
         x.chained, x.hash = Mac(x.prev, x.ev),
         f # <<>> /\ f[Len(f)].chained => x.prev = f[Len(f)].hash
  PROVE  Intact(Append(f, x))
<1> DEFINE g == Append(f, x)
<1>1. /\ Len(g) = Len(f) + 1 /\ Len(f) \in Nat
      /\ \A i \in 1..Len(f) : g[i] = f[i]
      /\ g[Len(f) + 1] = x
  BY Appended
<1>e. f = <<>> => Len(f) = 0
  OBVIOUS
<1> HIDE DEF g
<1> SUFFICES ASSUME NEW k \in 1..Len(g), Begins(g, k)
             PROVE  /\ \A i \in k..Len(g) : LineOk(g, i)
                    /\ \A i \in (k + 1)..Len(g) : g[i].prev = g[i - 1].hash
  BY DEF Intact, g
<1>2. CASE k = Len(f) + 1
  BY <1>1, <1>2 DEF LineOk
<1>3. CASE k <= Len(f)
  <2>1. Begins(f, k)
    BY <1>1, <1>3 DEF Begins
  <2>2. /\ \A i \in k..Len(f) : LineOk(f, i)
        /\ \A i \in (k + 1)..Len(f) : f[i].prev = f[i - 1].hash
    BY <1>1, <1>3, <2>1 DEF Intact
  <2>3. f[Len(f)].chained
    BY <1>1, <1>3, <2>2 DEF LineOk
  <2>4. x.prev = f[Len(f)].hash
    BY <1>1, <1>e, <1>3, <2>3
  <2>5. ASSUME NEW i \in k..Len(g) PROVE LineOk(g, i)
    <3>1. CASE i = Len(f) + 1
      BY <1>1, <3>1 DEF LineOk
    <3>2. CASE i # Len(f) + 1
      <4>1. i \in k..Len(f) /\ i \in 1..Len(f)
        BY <1>1, <3>2
      <4> QED BY <1>1, <2>2, <4>1 DEF LineOk
    <3> QED BY <3>1, <3>2
  <2>6. ASSUME NEW i \in (k + 1)..Len(g) PROVE g[i].prev = g[i - 1].hash
    <3>1. CASE i = Len(f) + 1
      BY <1>1, <1>3, <2>4, <3>1
    <3>2. CASE i # Len(f) + 1
      <4>1. i \in (k + 1)..Len(f) /\ i \in 1..Len(f) /\ i - 1 \in 1..Len(f)
        BY <1>1, <3>2
      <4> QED BY <1>1, <2>2, <4>1
    <3> QED BY <3>1, <3>2
  <2> QED BY <2>5, <2>6
<1> QED BY <1>1, <1>2, <1>3

(* A file that does not verify never will, whatever is appended to it.      *)
LEMMA BrokenAppend ==
  ASSUME NEW f \in Seq(Line), NEW x \in Line, ~Intact(f)
  PROVE  ~Intact(Append(f, x))
<1> DEFINE g == Append(f, x)
<1>1. /\ Len(g) = Len(f) + 1 /\ Len(f) \in Nat
      /\ \A i \in 1..Len(f) : g[i] = f[i]
  BY Appended
<1> HIDE DEF g
<1>2. PICK k \in 1..Len(f) :
        /\ Begins(f, k)
        /\ \/ \E i \in k..Len(f) : ~LineOk(f, i)
           \/ \E i \in (k + 1)..Len(f) : f[i].prev # f[i - 1].hash
  BY DEF Intact
<1>3. k \in 1..Len(g) /\ Begins(g, k)
  BY <1>1, <1>2 DEF Begins
<1>4. ASSUME NEW i \in k..Len(f), ~LineOk(f, i)
      PROVE  i \in k..Len(g) /\ ~LineOk(g, i)
  <2>1. i \in k..Len(g) /\ i \in 1..Len(f)
    BY <1>1
  <2> QED BY <1>1, <1>4, <2>1 DEF LineOk
<1>5. ASSUME NEW i \in (k + 1)..Len(f), f[i].prev # f[i - 1].hash
      PROVE  i \in (k + 1)..Len(g) /\ g[i].prev # g[i - 1].hash
  <2>1. i \in (k + 1)..Len(g) /\ i \in 1..Len(f) /\ i - 1 \in 1..Len(f)
    BY <1>1
  <2> QED BY <1>1, <1>5, <2>1
<1>6. ~Intact(g)
  BY <1>2, <1>3, <1>4, <1>5 DEF Intact
<1> QED BY <1>6 DEF g

(* Nor when a torn line is completed by one whose hash is not its own.      *)
LEMMA BrokenMend ==
  ASSUME NEW f \in Seq(Line), NEW x \in Line, ~Intact(f), Shape(f, TRUE),
         x.chained, x.hash # Mac(x.prev, x.ev)
  PROVE  ~Intact([f EXCEPT ![Len(f)] = x])
<1> DEFINE g == [f EXCEPT ![Len(f)] = x]
<1>1. /\ Len(g) = Len(f) /\ Len(f) \in Nat \ {0}
      /\ \A i \in 1..Len(f) : i # Len(f) => g[i] = f[i]
      /\ g[Len(f)] = x /\ ~f[Len(f)].chained
  BY Mended DEF Shape
<1> HIDE DEF g
<1>2. PICK k \in 1..Len(f) : Begins(f, k)
  BY DEF Intact
<1>3. k # Len(f)
  BY <1>1, <1>2 DEF Begins
<1>4. k \in 1..Len(g) /\ Begins(g, k)
  BY <1>1, <1>2, <1>3 DEF Begins
<1>5. Len(g) \in k..Len(g) /\ ~LineOk(g, Len(g))
  BY <1>1, <1>4 DEF LineOk
<1>6. ~Intact(g)
  BY <1>4, <1>5 DEF Intact
<1> QED BY <1>6 DEF g

(* Hashes still grow with a line that links to the head or beyond it.       *)
LEMMA GrowsAppend ==
  ASSUME NEW f \in Seq(Line), NEW x \in Line, NEW h \in Hash, Grows(f),
         x.chained => /\ Below(f, x.prev) /\ Len(x.hash) <= Len(h)
                      /\ Len(x.hash) = Len(x.prev) + 1
                      /\ x.ev # Garbage => x.hash = Mac(x.prev, x.ev),
         Below(f, h)
  PROVE  Grows(Append(f, x)) /\ Below(Append(f, x), h)
<1> DEFINE g == Append(f, x)
<1>1. /\ Len(g) = Len(f) + 1 /\ Len(f) \in Nat
      /\ \A i \in 1..Len(f) : g[i] = f[i]
      /\ g[Len(f) + 1] = x
  BY Appended
<1> HIDE DEF g
<1>i. \A i \in 1..Len(g) : i \in 1..Len(f) \/ i = Len(f) + 1
  BY <1>1
<1>2. Grows(g)
  <2>1. ASSUME NEW i \in 1..Len(g), g[i].chained
        PROVE  /\ g[i].ev # Garbage => g[i].hash = Mac(g[i].prev, g[i].ev)
               /\ Len(g[i].hash) = Len(g[i].prev) + 1
    BY <1>1, <1>i, <2>1 DEF Grows
  <2>2. ASSUME NEW i \in 1..Len(g), NEW j \in 1..Len(g), i < j,
               g[i].chained, g[j].chained
        PROVE  Len(g[i].hash) <= Len(g[j].prev)
    <3>1. CASE j = Len(f) + 1
      BY <1>1, <1>i, <2>2, <3>1 DEF Below
    <3>2. CASE j \in 1..Len(f)
      BY <1>1, <1>i, <2>2, <3>2 DEF Grows
    <3> QED BY <1>i, <3>1, <3>2
  <2> QED BY <2>1, <2>2 DEF Grows
<1>3. Below(g, h)
  BY <1>1 DEF Below
<1> QED BY <1>2, <1>3 DEF g

(* And with a torn line that is completed by one that does.                 *)
LEMMA GrowsMend ==
  ASSUME NEW f \in Seq(Line), f # <<>>, NEW x \in Line, NEW h \in Hash,
         Grows(f), Below(f, h),
         x.chained, Below(f, x.prev), Len(x.hash) <= Len(h),
         Len(x.hash) = Len(x.prev) + 1,
         x.ev # Garbage => x.hash = Mac(x.prev, x.ev)
  PROVE  LET g == [f EXCEPT ![Len(f)] = x] IN Grows(g) /\ Below(g, h)
<1> DEFINE g == [f EXCEPT ![Len(f)] = x]
<1>1. /\ Len(g) = Len(f) /\ Len(f) \in Nat \ {0}
      /\ \A i \in 1..Len(f) : i # Len(f) => g[i] = f[i]
      /\ g[Len(f)] = x
  BY Mended
<1> HIDE DEF g
<1>2. Grows(g)
  <2>1. ASSUME NEW i \in 1..Len(g), g[i].chained
        PROVE  /\ g[i].ev # Garbage => g[i].hash = Mac(g[i].prev, g[i].ev)
               /\ Len(g[i].hash) = Len(g[i].prev) + 1
    <3>1. CASE i = Len(f)
      BY <1>1, <3>1
    <3>2. CASE i # Len(f)
      BY <1>1, <2>1, <3>2 DEF Grows
    <3> QED BY <3>1, <3>2
  <2>2. ASSUME NEW i \in 1..Len(g), NEW j \in 1..Len(g), i < j,
               g[i].chained, g[j].chained
        PROVE  Len(g[i].hash) <= Len(g[j].prev)
    <3>0. i \in 1..Len(f) /\ j \in 1..Len(f) /\ i # Len(f) /\ g[i] = f[i]
      BY <1>1, <2>2
    <3>1. CASE j = Len(f)
      BY <1>1, <2>2, <3>0, <3>1 DEF Below
    <3>2. CASE j # Len(f)
      BY <1>1, <2>2, <3>0, <3>2 DEF Grows
    <3> QED BY <3>1, <3>2
  <2> QED BY <2>1, <2>2 DEF Grows
<1>3. Below(g, h)
  BY <1>1 DEF Below
<1> QED BY <1>2, <1>3 DEF g

-----------------------------------------------------------------------------
(* Changing a file                                                         *)

(* The hash of a line tells its contents, and is longer than the one before *)
(* it.                                                                      *)
LEMMA MacGrows ==
  ASSUME NEW p \in Hash, NEW e \in Nat
  PROVE  /\ Mac(p, e) \in Hash /\ Len(Mac(p, e)) = Len(p) + 1
         /\ \A d \in Nat : Mac(p, d) = Mac(p, e) => d = e
<1>1. /\ Append(p, e) \in Seq(Nat) /\ Len(Append(p, e)) = Len(p) + 1
      /\ Append(p, e)[Len(p) + 1] = e
  BY DEF Hash
<1>2. \A d \in Nat : Append(p, d)[Len(p) + 1] = d
  BY DEF Hash
<1> QED BY <1>1, <1>2 DEF Mac, Hash

(* The types of what a line holds.                                          *)
LEMMA LineHashes ==
  ASSUME NEW x \in Line
  PROVE  /\ x.prev \in Hash /\ x.hash \in Hash /\ x.ev \in Nat
         /\ Len(x.prev) \in Nat /\ Len(x.hash) \in Nat
<1>1. x.prev \in Seq(Nat) /\ x.hash \in Seq(Nat) /\ x.ev \in Nat
  BY DEF Line, Hash
<1> QED BY <1>1 DEF Hash

(* Where a file has a line with hashes, its chain begins, and from there on *)
(* only a torn last line has none.                                          *)
LEMMA ChainBegins ==
  ASSUME NEW f \in Seq(Line), NEW t \in BOOLEAN, Shape(f, t),
         NEW i \in 1..Len(f), f[i].chained
  PROVE  \E k \in 1..i : /\ Begins(f, k)
                          /\ \A j \in k..(Len(f) - 1) : f[j].chained
<1>1. PICK k \in 1..(Len(f) + 1) : \A j \in 1..Len(f) :
        f[j].chained <=> k <= j /\ ~(t /\ j = Len(f))
  BY DEF Shape
<1>l. Len(f) \in Nat
  OBVIOUS
<1>2. k \in 1..i /\ ~(t /\ k = Len(f))
  BY <1>1, <1>l
<1>3. Begins(f, k)
  BY <1>1, <1>2, <1>l DEF Begins
<1>4. \A j \in k..(Len(f) - 1) : f[j].chained
  BY <1>1, <1>2, <1>l
<1> QED BY <1>2, <1>3, <1>4

(* A line whose contents changed has a hash that is not its own.            *)
LEMMA EditBreaks ==
  ASSUME NEW f \in Seq(Line), NEW t \in BOOLEAN, Shape(f, t), Grows(f),
         NEW i \in 1..Len(f), f[i].chained, f[i].ev # Garbage
  PROVE  LET g == [f EXCEPT ![i].ev = Garbage]
         IN  g \in Seq(Line) /\ Shape(g, t) /\ ~Intact(g)
<1> DEFINE g == [f EXCEPT ![i].ev = Garbage]
<1>l. Len(f) \in Nat /\ f[i] \in Line
  OBVIOUS
<1>1. /\ g \in Seq(Line) /\ Len(g) = Len(f)
      /\ \A j \in 1..Len(f) : /\ g[j].chained = f[j].chained
                               /\ g[j].prev = f[j].prev
                               /\ g[j].hash = f[j].hash
      /\ g[i].ev = Garbage
  BY <1>l DEF Line
<1> HIDE DEF g
<1>2. Shape(g, t)
  <2>1. g # <<>>
    BY <1>1, <1>l
  <2> QED BY <1>1, <2>1 DEF Shape
<1>3. PICK k \in 1..i : Begins(g, k)
  BY <1>1, <1>2, ChainBegins
<1>4. ~LineOk(g, i)
  <2>1. f[i].hash = Mac(f[i].prev, f[i].ev)
    BY DEF Grows
  <2>2. f[i].prev \in Hash /\ f[i].ev \in Nat
    BY <1>l DEF Line
  <2>3. Mac(f[i].prev, 0) # Mac(f[i].prev, f[i].ev)
    BY <2>2, MacGrows
  <2> QED BY <1>1, <2>1, <2>3 DEF LineOk
<1>5. k \in 1..Len(g) /\ i \in k..Len(g)
  BY <1>1, <1>l
<1>6. ~Intact(g)
  BY <1>3, <1>4, <1>5 DEF Intact
<1> QED BY <1>1, <1>2, <1>6 DEF g

(* Where a line was taken out, the next one links to a longer hash than the *)
(* line before has.                                                         *)
LEMMA RemoveBreaks ==
  ASSUME NEW f \in Seq(Line), NEW t \in BOOLEAN, Shape(f, t), Grows(f),
         NEW i \in 1..Len(f), 1 < i, i < Len(f), f[i - 1].chained
  PROVE  LET g == SubSeq(f, 1, i - 1) \o SubSeq(f, i + 1, Len(f))
         IN  g \in Seq(Line) /\ Shape(g, t) /\ ~Intact(g)
<1> DEFINE a == SubSeq(f, 1, i - 1)
           b == SubSeq(f, i + 1, Len(f))
           g == a \o b
<1>l. Len(f) \in Nat
  OBVIOUS
<1>a. a \in Seq(Line) /\ Len(a) = i - 1 /\ \A j \in 1..(i - 1) : a[j] = f[j]
  BY <1>l
<1>b. /\ b \in Seq(Line) /\ Len(b) = Len(f) - i
      /\ \A j \in 1..(Len(f) - i) : b[j] = f[i + j]
  BY <1>l
<1> HIDE DEF a, b
<1>1. /\ g \in Seq(Line) /\ Len(g) = Len(f) - 1
      /\ \A j \in 1..(i - 1) : g[j] = f[j]
      /\ \A j \in i..(Len(f) - 1) : g[j] = f[j + 1]
  <2>1. g \in Seq(Line) /\ Len(g) = Len(f) - 1
    BY <1>l, <1>a, <1>b
  <2>2. \A j \in 1..(i - 1) : g[j] = f[j]
    BY <1>l, <1>a, <1>b
  <2>3. ASSUME NEW j \in i..(Len(f) - 1) PROVE g[j] = f[j + 1]
    <3>1. g[j] = b[j - (i - 1)]
      BY <1>l, <1>a, <1>b
    <3>2. j - (i - 1) \in 1..(Len(f) - i)
      BY <1>l
    <3>3. b[j - (i - 1)] = f[i + (j - (i - 1))]
      BY <1>b, <3>2
    <3>4. i + (j - (i - 1)) = j + 1
      BY <1>l
    <3> QED BY <3>1, <3>3, <3>4
  <2> QED BY <2>1, <2>2, <2>3
<1> HIDE DEF g
<1>2. PICK m \in 1..(Len(f) + 1) : \A j \in 1..Len(f) :
        f[j].chained <=> m <= j /\ ~(t /\ j = Len(f))
  BY DEF Shape
<1>3. m <= i - 1
  BY <1>l, <1>2
<1>4. Shape(g, t)
  <2>1. g # <<>>
    BY <1>1, <1>l
  <2>2. ASSUME NEW j \in 1..Len(g)
        PROVE  g[j].chained <=> m <= j /\ ~(t /\ j = Len(g))
    <3>1. CASE j \in 1..(i - 1)
      BY <1>l, <1>1, <1>2, <3>1
    <3>2. CASE j \in i..(Len(f) - 1)
      <4>1. j + 1 \in 1..Len(f) /\ (m <= j + 1 <=> m <= j)
        BY <1>l, <1>3, <3>2
      <4>2. g[j] = f[j + 1] /\ (j + 1 = Len(f) <=> j = Len(g))
        BY <1>l, <1>1, <3>2
      <4>3. f[j + 1].chained <=> m <= j + 1 /\ ~(t /\ j + 1 = Len(f))
        BY <1>2, <4>1
      <4> QED BY <4>1, <4>2, <4>3
    <3> QED BY <1>l, <1>1, <3>1, <3>2
  <2>3. m \in 1..(Len(g) + 1)
    BY <1>l, <1>1, <1>3
  <2> QED BY <2>1, <2>2, <2>3 DEF Shape
<1>5. PICK k \in 1..(i - 1) : Begins(g, k)
  <2>1. i - 1 \in 1..Len(g) /\ g[i - 1].chained
    BY <1>l, <1>1
  <2> QED BY <1>1, <1>4, <2>1, ChainBegins
<1>6. i \in (k + 1)..Len(g) /\ i \in k..Len(g) /\ k \in 1..Len(g)
  BY <1>l, <1>1
<1>7. g[i] = f[i + 1] /\ g[i - 1] = f[i - 1]
  BY <1>l, <1>1
<1>8. ASSUME f[i + 1].chained PROVE f[i + 1].prev # f[i - 1].hash
  <2>1. f[i].chained
    BY <1>l, <1>2, <1>3
  <2>r. /\ i - 1 \in 1..Len(f) /\ i + 1 \in 1..Len(f)
        /\ i - 1 < i /\ i < i + 1
    BY <1>l
  <2>2. /\ Len(f[i - 1].hash) <= Len(f[i].prev)
        /\ Len(f[i].hash) = Len(f[i].prev) + 1
        /\ Len(f[i].hash) <= Len(f[i + 1].prev)
    BY <1>8, <2>1, <2>r DEF Grows
  <2>3. f[i - 1] \in Line /\ f[i] \in Line /\ f[i + 1] \in Line
    BY <2>r
  <2>4. /\ Len(f[i - 1].hash) \in Nat /\ Len(f[i].prev) \in Nat
        /\ Len(f[i + 1].prev) \in Nat
    BY <2>3, LineHashes
  <2> DEFINE u == Len(f[i - 1].hash)
             v == Len(f[i].prev)
             w == Len(f[i + 1].prev)
  <2>5. u <= v /\ v + 1 <= w /\ u \in Nat /\ v \in Nat /\ w \in Nat
    BY <2>2, <2>4
  <2>6. u # w
    <3> HIDE DEF u, v, w
    <3> QED BY <2>5
  <2> QED BY <2>6
<1>9. ~Intact(g)
  BY <1>5, <1>6, <1>7, <1>8 DEF Intact, LineOk
<1> QED BY <1>1, <1>4, <1>9 DEF g, a, b

(* What is left of a file that was cut off has its shape.                   *)
LEMMA TruncateShape ==
  ASSUME NEW f \in Seq(Line), NEW t \in BOOLEAN, Shape(f, t),
         NEW i \in 1..Len(f), f[i].chained
  PROVE  SubSeq(f, 1, i - 1) \in Seq(Line) /\ Shape(SubSeq(f, 1, i - 1), FALSE)
<1> DEFINE g == SubSeq(f, 1, i - 1)
<1>l. Len(f) \in Nat
  OBVIOUS
<1>1. g \in Seq(Line) /\ Len(g) = i - 1 /\ \A j \in 1..(i - 1) : g[j] = f[j]
  BY <1>l
<1> HIDE DEF g
<1>2. PICK m \in 1..(Len(f) + 1) : \A j \in 1..Len(f) :
        f[j].chained <=> m <= j /\ ~(t /\ j = Len(f))
  BY DEF Shape
<1>3. m \in 1..(Len(g) + 1)
  BY <1>l, <1>1, <1>2
<1>4. \A j \in 1..Len(g) : g[j].chained <=> m <= j
  BY <1>l, <1>1, <1>2
<1> QED BY <1>1, <1>3, <1>4 DEF Shape, g

-----------------------------------------------------------------------------
(* The steps                                                               *)

(* What maybe_rotate leaves: the file, or nothing of it but a new archive;  *)
(* archives disappear only where gaps says so.                              *)
LEMMA Rotates ==
  ASSUME TypeOK, NEW f, NEW t, NEW lost, maybe_rotate(f, t, lost)
  PROVE  /\ gaps \cup lost \subseteq gaps'
         /\ gaps' \subseteq gaps \cup lost \cup {"overwritten", "purged"}
         /\ \/ /\ file' = f /\ torn' = t /\ tampered' = tampered
               /\ archives' \subseteq archives
               /\ "purged" \notin gaps' => archives' = archives
            \/ /\ file' = <<>> /\ torn' = FALSE
               /\ tampered' = IF tampered = "no" THEN "no" ELSE "sealed"
               /\ archives' \subseteq archives \cup {[at |-> now, lines |-> f]}
               /\ "purged" \notin gaps' /\ "overwritten" \notin gaps' =>
                    /\ archives' = archives \cup {[at |-> now, lines |-> f]}
                    /\ \A a \in archives : a.at # now
<1>k. ASSUME NEW as PROVE Kept(as) \subseteq as
  BY DEF Kept
<1>1. CASE /\ file' = f /\ torn' = t /\ gaps' = gaps \cup lost
           /\ UNCHANGED <<archives, tampered>>
  BY <1>1
<1>2. CASE Seal(f, lost)
  <2> DEFINE new == [at |-> now, lines |-> f]
             others == {a \in archives : a.at # now}
             as == others \cup {new}
  <2>1. /\ file' = <<>> /\ torn' = FALSE
        /\ tampered' = IF tampered = "no" THEN "no" ELSE "sealed"
        /\ archives' = Kept(as)
        /\ gaps' = gaps
             \cup (lost \cup (IF others # archives THEN {"overwritten"} ELSE {}))
             \cup (IF Kept(as) # as THEN {"purged"} ELSE {})
    BY <1>2 DEF Seal, Purge
  <2>2. archives' \subseteq archives \cup {new}
    BY <1>k, <2>1
  <2>3. /\ gaps \cup lost \subseteq gaps'
        /\ gaps' \subseteq gaps \cup lost \cup {"overwritten", "purged"}
    <3> HIDE DEF as, others
    <3> QED BY <2>1
  <2>4. ASSUME "purged" \notin gaps', "overwritten" \notin gaps'
        PROVE  /\ archives' = archives \cup {new}
               /\ \A a \in archives : a.at # now
    <3>1. others = archives /\ Kept(as) = as
      <4> HIDE DEF as, others
      <4> QED BY <2>1, <2>4
    <3>2. archives' = archives \cup {new}
      BY <2>1, <3>1
    <3> QED BY <3>1, <3>2
  <2> QED BY <2>1, <2>2, <2>3, <2>4
<1>3. CASE /\ file' = f /\ torn' = t /\ Purge(archives, lost)
           /\ UNCHANGED tampered
  BY <1>3, <1>k DEF Purge
<1> QED BY <1>1, <1>2, <1>3 DEF maybe_rotate

(* What append_audit writes before it rotates: a file of the same shape,    *)
(* whose hashes still grow, that verifies no more if it did not before; and *)
(* one line more unless a write failed.                                     *)
LEMMA Appends ==
  ASSUME Log, append_audit
  PROVE  \E f \in Seq(Line), t \in BOOLEAN, lost \in SUBSET {"unwritten"} :
           /\ maybe_rotate(f, t, lost)
           /\ Shape(f, t) /\ (t => "unwritten" \in gaps \cup lost)
           /\ tampered = "no" => Grows(f) /\ Below(f, audit_chain_hash')
           /\ ~Intact(file) => ~Intact(f)
           /\ "unwritten" \notin gaps \cup lost =>
                /\ ~torn
                /\ f = Append(file, Chained(audit_chain_hash, events + 1,
                                            audit_chain_hash'))
<1> DEFINE p == audit_chain_hash
           e == events + 1
           h == audit_chain_hash'
<1>t. /\ file \in Seq(Line) /\ torn \in BOOLEAN /\ p \in Hash /\ e \in Nat
      /\ e # Garbage /\ Shape(file, torn) /\ (torn => "unwritten" \in gaps)
      /\ tampered = "no" => Grows(file) /\ Below(file, p)
      /\ torn => file # <<>>
  BY DEF Log, TypeOK, Shaped, Growing, Shape
<1>h. h = Mac(p, e) /\ h \in Hash /\ Len(h) = Len(p) + 1 /\ h # Mac(p, Garbage)
  BY <1>t, MacGrows DEF append_audit
<1>b. Below(file, p) => Below(file, h)
  <2>1. Len(p) \in Nat /\ Len(p) <= Len(h) /\ Len(h) \in Nat
    BY <1>t, <1>h DEF Hash
  <2>2. ASSUME NEW i \in 1..Len(file) PROVE Len(file[i].hash) \in Nat
    BY <1>t, LineHashes
  <2> QED BY <2>1, <2>2 DEF Below
<1>l. Len(h) <= Len(h)
  BY <1>h DEF Hash
<1> HIDE DEF p, e, h
<1>1. CASE maybe_rotate(Written(p, e), FALSE, {})
  <2>1. CASE torn
    <3> DEFINE x == Chained(p, Garbage, h)
               f == [file EXCEPT ![Len(file)] = x]
    <3>1. /\ x \in Line /\ x.chained /\ x.prev = p /\ x.hash = h
          /\ x.ev = Garbage
      BY <1>t, <1>h DEF Chained, Line
    <3>2. Written(p, e) = f
      BY <1>h, <2>1 DEF Written
    <3> HIDE DEF x
    <3>3. f \in Seq(Line)
      BY <1>t, <2>1, <3>1, Mended
    <3>4. Shape(f, FALSE)
      BY <1>t, <2>1, <3>1, ShapeMend
    <3>5. tampered = "no" => Grows(f) /\ Below(f, h)
      BY <1>t, <1>h, <1>b, <1>l, <2>1, <3>1, GrowsMend
    <3>6. ~Intact(file) => ~Intact(f)
      BY <1>t, <1>h, <2>1, <3>1, BrokenMend
    <3>7. "unwritten" \in gaps
      BY <1>t, <2>1
    <3> HIDE DEF f
    <3> QED BY <1>1, <3>2, <3>3, <3>4, <3>5, <3>6, <3>7 DEF h
  <2>2. CASE ~torn
    <3> DEFINE x == Chained(p, e, h)
               f == Append(file, x)
    <3>1. /\ x \in Line /\ x.chained /\ x.prev = p /\ x.hash = h
          /\ x.ev = e
      BY <1>t, <1>h DEF Chained, Line
    <3>2. Written(p, e) = f
      BY <1>h, <2>2 DEF Written
    <3> HIDE DEF x
    <3>3. f \in Seq(Line)
      BY <1>t, <3>1
    <3>s. Shape(file, FALSE)
      BY <1>t, <2>2
    <3>4. Shape(f, FALSE)
      <4>1. Shape(f, ~x.chained)
        BY <1>t, <3>s, <3>1, ShapeAppend
      <4>2. (~x.chained) = FALSE
        BY <3>1
      <4> QED BY <4>1, <4>2
    <3>5. tampered = "no" => Grows(f) /\ Below(f, h)
      BY <1>t, <1>h, <1>b, <1>l, <3>1, GrowsAppend
    <3>6. ~Intact(file) => ~Intact(f)
      BY <1>t, <3>1, BrokenAppend
    <3>7. f = Append(file, Chained(audit_chain_hash, events + 1,
                                   audit_chain_hash'))
      BY DEF x, p, e, h
    <3> HIDE DEF f
    <3> QED BY <1>1, <2>2, <3>2, <3>3, <3>4, <3>5, <3>6, <3>7 DEF h
  <2> QED BY <1>t, <2>1, <2>2
<1>2. CASE maybe_rotate(file, torn, {"unwritten"})
  BY <1>t, <1>b, <1>2 DEF h
<1>3. CASE maybe_rotate(IF torn THEN file ELSE Append(file, Unchained), TRUE,
                        {"unwritten"})
  <2>1. CASE torn
    <3>1. Shape(file, TRUE) /\ maybe_rotate(file, TRUE, {"unwritten"})
      BY <1>t, <1>3, <2>1
    <3> QED BY <1>t, <1>b, <3>1 DEF h
  <2>2. CASE ~torn
    <3> DEFINE x == Unchained
               f == Append(file, x)
    <3>1. x \in Line /\ ~x.chained
      BY DEF Unchained, Line, GENESIS, Hash
    <3> HIDE DEF x
    <3>2. f \in Seq(Line)
      BY <1>t, <3>1
    <3>3. Shape(f, TRUE)
      <4>1. Shape(f, ~x.chained)
        BY <1>t, <2>2, <3>1, ShapeAppend
      <4>2. (~x.chained) = TRUE
        BY <3>1
      <4> QED BY <4>1, <4>2
    <3>4. tampered = "no" => Grows(f) /\ Below(f, h)
      BY <1>t, <1>h, <1>b, <3>1, GrowsAppend
    <3>5. ~Intact(file) => ~Intact(f)
      BY <1>t, <3>1, BrokenAppend
    <3>6. maybe_rotate(f, TRUE, {"unwritten"})
      BY <1>3, <2>2 DEF x
    <3> HIDE DEF f
    <3> QED BY <3>2, <3>3, <3>4, <3>5, <3>6 DEF h
  <2> QED BY <1>t, <2>1, <2>2
<1>4. \/ maybe_rotate(Written(p, e), FALSE, {})
      \/ maybe_rotate(file, torn, {"unwritten"})
      \/ maybe_rotate(IF torn THEN file ELSE Append(file, Unchained), TRUE,
                      {"unwritten"})
  BY DEF append_audit, p, e
<1> QED BY <1>1, <1>2, <1>3, <1>4

(* The empty file of a fresh start or of a rotation.                        *)
LEMMA EmptyFile ==
  /\ <<>> \in Seq(Line) /\ Shape(<<>>, FALSE) /\ Intact(<<>>)
  /\ Grows(<<>>) /\ \A h : Below(<<>>, h)
<1>1. <<>> \in Seq(Line) /\ Len(<<>>) = 0
  OBVIOUS
<1> QED BY <1>1 DEF Shape, Intact, Grows, Below

(* append_audit keeps what the verdict rests on.                            *)
LEMMA AppendVerdict ==
  Log /\ append_audit
    => (TypeOK /\ Shaped /\ Followed /\ Growing /\ VerdictIsRight)'
<1> SUFFICES ASSUME Log, append_audit
             PROVE  /\ TypeOK' /\ Shaped' /\ Followed' /\ Growing'
                    /\ UntouchedIsIntact' /\ EditsDetected'
  BY DEF VerdictIsRight
<1> DEFINE p == audit_chain_hash
           e == events + 1
           h == audit_chain_hash'
<1>t. TypeOK /\ Followed /\ UntouchedIsIntact /\ EditsDetected /\ Shaped
  BY DEF Log, VerdictIsRight
<1>1. PICK f \in Seq(Line), t \in BOOLEAN, lost \in SUBSET {"unwritten"} :
        /\ maybe_rotate(f, t, lost)
        /\ Shape(f, t) /\ (t => "unwritten" \in gaps \cup lost)
        /\ tampered = "no" => Grows(f) /\ Below(f, h)
        /\ ~Intact(file) => ~Intact(f)
        /\ "unwritten" \notin gaps \cup lost =>
             /\ ~torn /\ f = Append(file, Chained(p, e, h))
  BY Appends
<1>h. h = Mac(p, e) /\ h \in Hash /\ e \in Nat /\ p \in Hash
  BY <1>t, MacGrows DEF append_audit, TypeOK
<1>2. /\ gaps \cup lost \subseteq gaps'
      /\ gaps' \subseteq gaps \cup lost \cup {"overwritten", "purged"}
      /\ archives' \subseteq archives \cup {[at |-> now, lines |-> f]}
      /\ \/ file' = f /\ torn' = t /\ tampered' = tampered
         \/ /\ file' = <<>> /\ torn' = FALSE
            /\ tampered' = IF tampered = "no" THEN "no" ELSE "sealed"
  BY <1>t, <1>1, Rotates
<1>3. TypeOK'
  <2>1. /\ audit_chain_hash' \in Hash /\ events' \in Nat /\ now' \in Nat
    BY <1>t, <1>h DEF append_audit, TypeOK
  <2>2. archives' \subseteq [at : Nat, lines : Seq(Line)]
    BY <1>t, <1>2 DEF TypeOK
  <2>3. gaps' \subseteq {"unwritten", "restarted", "overwritten", "purged"}
    BY <1>t, <1>2 DEF TypeOK
  <2>4. /\ file' \in Seq(Line) /\ torn' \in BOOLEAN
        /\ tampered' \in {"no", "edited", "removed", "truncated", "sealed"}
    BY <1>t, <1>2, EmptyFile DEF TypeOK
  <2> QED BY <2>1, <2>2, <2>3, <2>4 DEF TypeOK
<1>4. CASE file' = f /\ torn' = t /\ tampered' = tampered
  <2>1. Shaped'
    BY <1>1, <1>2, <1>4 DEF Shaped
  <2>2. Growing'
    BY <1>1, <1>4 DEF Growing
  <2>3. EditsDetected'
    BY <1>t, <1>1, <1>4 DEF EditsDetected
  <2>4. ASSUME tampered \in {"no", "sealed"}, "unwritten" \notin gaps'
        PROVE  Intact(f) /\ f[Len(f)].hash = h
    <3> DEFINE x == Chained(p, e, h)
    <3>1. /\ x \in Line /\ x.chained /\ x.prev = p /\ x.hash = h /\ x.ev = e
      BY <1>h DEF Chained, Line
    <3>2. f = Append(file, x) /\ Shape(file, FALSE) /\ Intact(file)
      BY <1>t, <1>1, <1>2, <2>4 DEF UntouchedIsIntact, Shaped, TypeOK
    <3>3. file # <<>> /\ file[Len(file)].chained => p = file[Len(file)].hash
      BY <1>t, <1>2, <2>4 DEF Followed
    <3>f. file \in Seq(Line)
      BY <1>t DEF TypeOK
    <3> HIDE DEF x
    <3>4. Intact(f)
      BY <1>h, <3>1, <3>2, <3>3, <3>f, IntactAppend
    <3>5. f[Len(f)] = x
      BY <3>1, <3>2, <3>f, Appended
    <3> QED BY <3>1, <3>4, <3>5
  <2>5. Followed' /\ UntouchedIsIntact'
    BY <1>4, <2>4 DEF Followed, UntouchedIsIntact
  <2> QED BY <1>3, <2>1, <2>2, <2>3, <2>5
<1>5. CASE /\ file' = <<>> /\ torn' = FALSE
           /\ tampered' = IF tampered = "no" THEN "no" ELSE "sealed"
  BY <1>3, <1>5, EmptyFile
  DEF Shaped, Growing, EditsDetected, Followed, UntouchedIsIntact
<1> QED BY <1>2, <1>4, <1>5

(* append_audit keeps every event and the links between the files.          *)
LEMMA AppendChain == Log /\ append_audit => (NewestIsHead /\ ChainIsKept)'
<1> SUFFICES ASSUME Log, append_audit
             PROVE  NewestIsHead' /\ CrossLinked' /\ NothingLost'
  BY DEF ChainIsKept
<1> DEFINE p == audit_chain_hash
           e == events + 1
           h == audit_chain_hash'
           x == Chained(p, e, h)
<1>t. TypeOK /\ NewestIsHead /\ CrossLinked /\ NothingLost
  BY DEF Log, ChainIsKept
<1>f. file \in Seq(Line) /\ now \in Nat /\ now' = now /\ events' = e
  BY <1>t DEF TypeOK, append_audit
<1>h. h = Mac(p, e) /\ h \in Hash /\ e \in Nat /\ p \in Hash
  BY <1>t, MacGrows DEF append_audit, TypeOK
<1>x. x \in Line /\ x.chained /\ x.prev = p /\ x.hash = h /\ x.ev = e
  BY <1>h DEF Chained, Line
<1>1. PICK f \in Seq(Line), t \in BOOLEAN, lost \in SUBSET {"unwritten"} :
        /\ maybe_rotate(f, t, lost)
        /\ "unwritten" \notin gaps \cup lost => f = Append(file, x)
  BY Appends
<1> HIDE DEF x
<1> DEFINE new == [at |-> now, lines |-> f]
<1>2. gaps \cup lost \subseteq gaps'
  BY <1>t, <1>1, Rotates
<1>3. ASSUME tampered' = "no", "purged" \notin gaps', "overwritten" \notin gaps'
      PROVE  /\ tampered = "no"
             /\ \/ file' = f /\ archives' = archives
                \/ /\ file' = <<>> /\ archives' = archives \cup {new}
                   /\ \A a \in archives : a.at # now
  BY <1>t, <1>1, <1>3, Rotates
<1>4. ASSUME "unwritten" \notin gaps'
      PROVE  /\ f = Append(file, x) /\ f # <<>> /\ Len(f) = Len(file) + 1
             /\ Len(file) \in Nat
             /\ \A i \in 1..Len(file) : f[i] = file[i]
             /\ f[Len(f)] = x
  <2>1. f = Append(file, x)
    BY <1>1, <1>2, <1>4
  <2> QED BY <1>f, <1>x, <2>1, Appended
<1> HIDE DEF p, e, h
<1>5. NothingLost'
  <2> SUFFICES ASSUME gaps' \subseteq {"restarted"}, tampered' = "no",
                      NEW n \in 1..e
               PROVE  \/ \E i \in 1..Len(file') : file'[i].ev = n
                      \/ \E a \in archives' : \E i \in 1..Len(a.lines) :
                           a.lines[i].ev = n
    BY <1>f DEF NothingLost
  <2>1. gaps \subseteq {"restarted"} /\ tampered = "no"
    BY <1>2, <1>3
  <2>2. \/ \E i \in 1..Len(f) : f[i].ev = n
        \/ \E a \in archives : \E i \in 1..Len(a.lines) : a.lines[i].ev = n
    <3>1. CASE n = e
      BY <1>4, <1>x, <3>1
    <3>2. CASE n # e
      <4>1. n \in 1..events
        BY <1>h, <1>t, <3>2 DEF e, TypeOK
      <4>2. \/ \E i \in 1..Len(file) : file[i].ev = n
            \/ \E a \in archives : \E i \in 1..Len(a.lines) :
                 a.lines[i].ev = n
        BY <1>t, <2>1, <4>1 DEF NothingLost
      <4> QED BY <1>4, <4>2
    <3> QED BY <3>1, <3>2
  <2>3. CASE file' = f /\ archives' = archives
    BY <2>2, <2>3
  <2>4. CASE archives' = archives \cup {new}
    <3>1. new \in archives' /\ new.lines = f
      BY <2>4
    <3> QED BY <2>2, <2>4, <3>1
  <2> QED BY <1>3, <2>3, <2>4
<1>6. ASSUME gaps' = {}, tampered' = "no"
      PROVE  /\ \A a \in archives : a.at <= now
             /\ \A a \in archives : (\A b \in archives : b.at <= a.at)
                  => LinksTo(a.lines, f)
             /\ \A a, b \in archives :
                  a.at < b.at /\ ~(\E c \in archives : a.at < c.at /\ c.at < b.at)
                    => LinksTo(a.lines, b.lines)
  <2>1. gaps = {} /\ tampered = "no"
    BY <1>2, <1>3, <1>6
  <2>2. ASSUME NEW a \in archives, \A b \in archives : b.at <= a.at
        PROVE  LinksTo(a.lines, f)
    <3>1. LinksTo(a.lines, file)
      BY <1>t, <2>1, <2>2 DEF CrossLinked
    <3>2. CASE file = <<>>
      <4>1. f[1] = x
        BY <1>4, <1>6, <3>2
      <4>2. a.lines # <<>> /\ a.lines[Len(a.lines)].chained
              => p = a.lines[Len(a.lines)].hash
        BY <1>t, <2>1, <2>2, <3>2 DEF NewestIsHead, p
      <4> QED BY <1>x, <4>1, <4>2 DEF LinksTo
    <3>3. CASE file # <<>>
      <4>1. f[1] = file[1]
        BY <1>f, <1>4, <1>6, <3>3
      <4> QED BY <3>1, <3>3, <4>1 DEF LinksTo
    <3> QED BY <3>2, <3>3
  <2> QED BY <1>t, <2>1, <2>2 DEF NewestIsHead, CrossLinked
<1>7. ASSUME gaps' = {}, tampered' = "no", file' = f, archives' = archives
      PROVE  NewestIsHead' /\ CrossLinked'
  BY <1>4, <1>6, <1>7, <1>f DEF NewestIsHead, CrossLinked
<1>8. ASSUME gaps' = {}, tampered' = "no", file' = <<>>,
             archives' = archives \cup {new}, \A a \in archives : a.at # now
      PROVE  NewestIsHead' /\ CrossLinked'
  <2>1. new.at = now /\ new.lines = f /\ f[Len(f)].hash = h
    BY <1>4, <1>8, <1>x
  <2>2. \A a \in archives : a.at < now /\ a.at \in Nat
    BY <1>t, <1>f, <1>6, <1>8 DEF TypeOK
  <2> HIDE DEF new
  <2>3. \A a \in archives' : (\A b \in archives' : b.at <= a.at) => a = new
    BY <1>f, <1>8, <2>1, <2>2
  <2>4. NewestIsHead'
    <3>1. \A a \in archives' : a.at <= now'
      BY <1>f, <1>8, <2>1, <2>2
    <3> QED BY <2>1, <2>3, <3>1 DEF NewestIsHead, h
  <2>5. ASSUME NEW a \in archives', NEW b \in archives', a.at < b.at,
               ~(\E c \in archives' : a.at < c.at /\ c.at < b.at)
        PROVE  LinksTo(a.lines, b.lines)
    <3>1. a \in archives
      BY <1>f, <1>8, <2>1, <2>2, <2>5
    <3>2. CASE b \in archives
      BY <1>6, <1>8, <2>5, <3>1, <3>2
    <3>3. CASE b = new
      <4>1. \A c \in archives : c.at <= a.at
        BY <1>8, <2>1, <2>2, <2>5, <3>1, <3>3
      <4> QED BY <1>6, <1>8, <2>1, <3>1, <3>3, <4>1
    <3> QED BY <1>8, <3>2, <3>3
  <2>6. \A a \in archives' : LinksTo(a.lines, file')
    BY <1>8 DEF LinksTo
  <2> QED BY <2>4, <2>5, <2>6 DEF CrossLinked
<1>9. NewestIsHead' /\ CrossLinked'
  <2>1. CASE gaps' = {} /\ tampered' = "no"
    BY <1>3, <1>7, <1>8, <2>1
  <2>2. CASE ~(gaps' = {} /\ tampered' = "no")
    BY <2>2 DEF NewestIsHead, CrossLinked
  <2> QED BY <2>1, <2>2
<1> QED BY <1>5, <1>9

(* A restart finds the head again: the hash of the last line that has one.  *)
LEMMA RestartKeeps == Log /\ init_audit_chain => Log'
<1> SUFFICES ASSUME Log, init_audit_chain PROVE Log'
  OBVIOUS
<1> DEFINE h == audit_chain_hash'
<1>t. /\ TypeOK /\ Shaped /\ Followed /\ Growing /\ NewestIsHead
      /\ UntouchedIsIntact /\ EditsDetected /\ CrossLinked /\ NothingLost
  BY DEF Log, VerdictIsRight, ChainIsKept
<1>u. UNCHANGED <<file, torn, archives, now, events, tampered>>
  BY DEF init_audit_chain
<1>f. file \in Seq(Line) /\ Len(file) \in Nat
  BY <1>t DEF TypeOK
<1>1. IsTail(file, h) /\ h \in {GENESIS} \cup {file[i].hash : i \in 1..Len(file)}
  BY DEF init_audit_chain
<1>2. h \in Hash
  <2>1. GENESIS \in Hash
    BY DEF GENESIS, Hash
  <2>2. \A i \in 1..Len(file) : file[i].hash \in Hash
    BY <1>f, LineHashes
  <2> QED BY <1>1, <2>1, <2>2
<1>3. gaps \subseteq gaps' /\ gaps' \subseteq gaps \cup {"restarted"}
  BY DEF init_audit_chain
<1>4. gaps' = {} => archives = {} \/ \E i \in 1..Len(file) : file[i].chained
  BY DEF init_audit_chain
<1> HIDE DEF h
<1>5. TypeOK'
  BY <1>t, <1>u, <1>2, <1>3 DEF TypeOK, h
<1>6. Shaped' /\ UntouchedIsIntact' /\ EditsDetected'
  BY <1>t, <1>u, <1>3 DEF Shaped, UntouchedIsIntact, EditsDetected
<1>7. Followed'
  <2>1. ASSUME file # <<>>, file[Len(file)].chained
        PROVE  h = file[Len(file)].hash
    <3>1. Len(file) \in 1..Len(file)
      BY <1>f, <2>1
    <3> QED BY <1>1, <1>f, <2>1, <3>1 DEF IsTail
  <2> QED BY <1>u, <2>1 DEF Followed, h
<1>8. Growing'
  <2>1. ASSUME tampered = "no", NEW i \in 1..Len(file), file[i].chained
        PROVE  Len(file[i].hash) <= Len(h)
    <3>1. PICK k \in 1..Len(file) : /\ file[k].chained /\ h = file[k].hash
                                    /\ \A j \in (k + 1)..Len(file) :
                                         ~file[j].chained
      BY <1>1, <2>1 DEF IsTail
    <3>2. i <= k
      BY <1>f, <2>1, <3>1
    <3>3. /\ Len(file[i].hash) \in Nat /\ Len(file[k].prev) \in Nat
          /\ Len(file[k].hash) \in Nat
      BY <1>f, LineHashes
    <3>4. CASE i = k
      BY <3>1, <3>3, <3>4
    <3>5. CASE i < k
      BY <1>t, <2>1, <3>1, <3>3, <3>5 DEF Growing, Grows
    <3> QED BY <3>2, <3>4, <3>5
  <2> QED BY <1>t, <1>u, <2>1 DEF Growing, Below, h
<1>9. NewestIsHead'
  <2> SUFFICES ASSUME gaps' = {}, tampered = "no"
               PROVE  NewestIsHead'
    BY <1>u DEF NewestIsHead
  <2>1. gaps = {}
    BY <1>3
  <2>2. CASE archives = {}
    BY <1>u, <2>2 DEF NewestIsHead
  <2>3. CASE \E i \in 1..Len(file) : file[i].chained
    <3>1. file # <<>>
      BY <2>3
    <3> QED BY <1>t, <1>u, <2>1, <3>1 DEF NewestIsHead
  <2> QED BY <1>4, <2>2, <2>3
<1>10. CrossLinked' /\ NothingLost'
  <2>1. CrossLinked'
    <3>1. gaps' = {} => gaps = {}
      BY <1>3
    <3> QED BY <1>t, <1>u, <3>1 DEF CrossLinked
  <2>2. NothingLost'
    <3>1. gaps' \subseteq {"restarted"} => gaps \subseteq {"restarted"}
      BY <1>3
    <3> QED BY <1>t, <1>u, <3>1 DEF NothingLost
  <2> QED BY <2>1, <2>2
<1> QED BY <1>5, <1>6, <1>7, <1>8, <1>9, <1>10
  DEF Log, VerdictIsRight, ChainIsKept

(* Time passes.                                                             *)
LEMMA TickKeeps == Log /\ Tick => Log'
<1> SUFFICES ASSUME Log, Tick PROVE Log'
  OBVIOUS
<1>t. /\ TypeOK /\ Shaped /\ Followed /\ Growing /\ NewestIsHead
      /\ UntouchedIsIntact /\ EditsDetected /\ CrossLinked /\ NothingLost
  BY DEF Log, VerdictIsRight, ChainIsKept
<1>u. /\ UNCHANGED <<file, torn, archives, audit_chain_hash, events, gaps,
                     tampered>>
      /\ now \in Nat /\ now' = now + 1
  BY <1>t DEF Tick, TypeOK
<1>1. TypeOK'
  BY <1>t, <1>u DEF TypeOK
<1>2. Shaped' /\ Followed' /\ Growing'
  BY <1>t, <1>u DEF Shaped, Followed, Growing
<1>3. NewestIsHead'
  <2>1. \A a \in archives : a.at \in Nat
    BY <1>t DEF TypeOK
  <2> QED BY <1>t, <1>u, <2>1 DEF NewestIsHead
<1>4. VerdictIsRight'
  BY <1>t, <1>u DEF VerdictIsRight, UntouchedIsIntact, EditsDetected
<1>5. CrossLinked' /\ NothingLost'
  BY <1>t, <1>u DEF CrossLinked, NothingLost
<1> QED BY <1>1, <1>2, <1>3, <1>4, <1>5 DEF Log, ChainIsKept

(* Whatever somebody does to the file once, edits are seen.                 *)
LEMMA TamperKeeps ==
  ASSUME Log, NEW i \in 1..Len(file),
         EditLine(i) \/ RemoveLine(i) \/ Truncate(i - 1)
  PROVE  Log'
<1>t. /\ TypeOK /\ Shaped /\ Growing /\ file \in Seq(Line) /\ torn \in BOOLEAN
      /\ Shape(file, torn)
  BY DEF Log, TypeOK, Shaped
<1>1. /\ tampered = "no" /\ Grows(file)
      /\ UNCHANGED <<archives, audit_chain_hash, now, events, gaps>>
  BY <1>t DEF EditLine, RemoveLine, Truncate, Tamper, Growing
<1>2. /\ file' \in Seq(Line) /\ torn' \in BOOLEAN /\ (torn' => torn)
      /\ Shape(file', torn')
      /\ \/ tampered' \in {"edited", "removed"} /\ ~Intact(file')
         \/ tampered' = "truncated"
  <2>1. CASE EditLine(i)
    BY <1>t, <1>1, <2>1, EditBreaks DEF EditLine, Tamper
  <2>2. CASE RemoveLine(i)
    BY <1>t, <1>1, <2>2, RemoveBreaks DEF RemoveLine, Tamper
  <2>3. CASE Truncate(i - 1)
    <3>1. (i - 1) + 1 = i
      BY <1>t
    <3>2. /\ file[i].chained /\ file' = SubSeq(file, 1, i - 1)
          /\ torn' = FALSE /\ tampered' = "truncated"
      BY <2>3, <3>1 DEF Truncate, Tamper
    <3> QED BY <1>t, <3>2, TruncateShape
  <2> QED BY <2>1, <2>2, <2>3
<1>3. TypeOK'
  BY <1>t, <1>1, <1>2 DEF TypeOK
<1>4. Shaped'
  BY <1>t, <1>1, <1>2 DEF Shaped
<1>5. Followed' /\ Growing' /\ NewestIsHead' /\ CrossLinked' /\ NothingLost'
  BY <1>2 DEF Followed, Growing, NewestIsHead, CrossLinked, NothingLost
<1>6. VerdictIsRight'
  BY <1>2 DEF VerdictIsRight, UntouchedIsIntact, EditsDetected
<1> QED BY <1>3, <1>4, <1>5, <1>6 DEF Log, ChainIsKept

(* Log holds in the log that an older version left.                         *)
LEMMA InitLog == Init => Log
<1> SUFFICES ASSUME Init PROVE Log
  OBVIOUS
<1>n. LegacyLines \in Nat
  BY AuditAssumption
<1>u. Unchained \in Line /\ ~Unchained.chained
  BY DEF Unchained, Line, GENESIS, Hash
<1>1. /\ file \in Seq(Line) /\ Len(file) = LegacyLines
      /\ \A i \in 1..Len(file) : ~file[i].chained
  BY <1>n, <1>u DEF Init
<1>g. GENESIS \in Hash
  BY DEF GENESIS, Hash
<1>2. TypeOK
  BY <1>1, <1>g DEF Init, TypeOK
<1>3. Shaped
  <2>1. Len(file) + 1 \in 1..(Len(file) + 1)
    BY <1>n, <1>1
  <2>2. \A j \in 1..Len(file) : ~(Len(file) + 1 <= j)
    BY <1>n, <1>1
  <2> QED BY <1>1, <2>1, <2>2 DEF Shaped, Shape, Init
<1>4. Followed
  <2>1. file # <<>> => Len(file) \in 1..Len(file)
    BY <1>1, <1>n
  <2> QED BY <1>1, <2>1 DEF Followed
<1>5. Growing
  BY <1>1 DEF Growing, Grows, Below
<1>6. NewestIsHead /\ CrossLinked /\ NothingLost
  BY DEF Init, NewestIsHead, CrossLinked, NothingLost
<1>7. Intact(file)
  BY <1>1 DEF Intact, Begins
<1>8. VerdictIsRight
  BY <1>7 DEF Init, VerdictIsRight, UntouchedIsIntact, EditsDetected
<1> QED BY <1>2, <1>3, <1>4, <1>5, <1>6, <1>8 DEF Log, ChainIsKept

(* Log is inductive.                                                        *)
LEMMA NextLog == Log /\ [Next]_vars => Log'
<1> SUFFICES ASSUME Log, [Next]_vars PROVE Log'
  OBVIOUS
<1>1. CASE append_audit
  BY <1>1, AppendVerdict, AppendChain DEF Log
<1>2. CASE init_audit_chain
  BY <1>2, RestartKeeps
<1>3. CASE Tick
  BY <1>3, TickKeeps
<1>4. CASE \E i \in 1..Len(file) : EditLine(i) \/ RemoveLine(i) \/ Truncate(i - 1)
  BY <1>4, TamperKeeps
<1>5. CASE UNCHANGED vars
  BY <1>5 DEF vars, Log, TypeOK, Shaped, Followed, Growing, NewestIsHead,
    VerdictIsRight, UntouchedIsIntact, EditsDetected, ChainIsKept,
    CrossLinked, NothingLost
<1> QED BY <1>1, <1>2, <1>3, <1>4, <1>5 DEF Next

-----------------------------------------------------------------------------
(* Throughout every behaviour the log has its types: no operation addresses *)
(* a line that is not there.                                                *)
THEOREM LogTypesAlways == Spec => []TypeOK
<1>1. Log => TypeOK
  BY DEF Log
<1> QED BY <1>1, InitLog, NextLog, PTL DEF Spec

(* Throughout every behaviour verify_audit_chain is right about the active  *)
(* file: it accepts one that nobody touched and to which every line could   *)
(* be written, and rejects one of which a line was edited or taken out.     *)
THEOREM VerdictAlways == Spec => []VerdictIsRight
<1>1. Log => VerdictIsRight
  BY DEF Log
<1> QED BY <1>1, InitLog, NextLog, PTL DEF Spec

(* Throughout every behaviour archives and active file hold every event and *)
(* are one chain, but for the interruptions that gaps names.                *)
THEOREM ChainAlways == Spec => []ChainIsKept
<1>1. Log => ChainIsKept
  BY DEF Log
<1> QED BY <1>1, InitLog, NextLog, PTL DEF Spec
=============================================================================
