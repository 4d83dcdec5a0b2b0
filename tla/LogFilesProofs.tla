--------------------------- MODULE LogFilesProofs ---------------------------
(***************************************************************************)
(* Proofs about LogFiles.tla, for every number of windows, rotations and   *)
(* failures.                                                               *)
(***************************************************************************)
EXTENDS LogFiles, FiniteSetTheorems, TLAPS

Record == [window: Nat, n: {1, 2}]
LineType == {Unreadable} \cup {Line(r) : r \in Record}
FileType == [lines: Seq(LineType), torn: BOOLEAN]

\* The n-th record of window w, and how many of them a log gets.
Rec(w, n) == [window |-> w, n |-> n]
Count == [detail |-> 2, ip |-> 1]

LEMMA Lines ==
  /\ Unreadable \in LineType
  /\ \A r \in Record : Line(r) \in LineType
  /\ \A r : Line(r) # Unreadable /\ Line(r).record = r
  /\ \A l \in LineType : l # Unreadable => l = Line(l.record) /\ l.record \in Record
<1>1. \A r : Line(r).record = r
  BY DEF Line
<1>2. \A r : Line(r) # Unreadable
  <2> SUFFICES ASSUME NEW r, Line(r) = Unreadable PROVE FALSE
    OBVIOUS
  <2>1. DOMAIN Line(r) = {"record"} /\ DOMAIN Unreadable = {"unreadable"}
    BY DEF Line, Unreadable
  <2> QED BY <2>1
<1>3. /\ Unreadable \in LineType
      /\ \A r \in Record : Line(r) \in LineType
  BY DEF LineType
<1>4. \A l \in LineType : l # Unreadable => l = Line(l.record) /\ l.record \in Record
  BY <1>1 DEF LineType
<1> QED BY <1>1, <1>2, <1>3, <1>4

LEMMA Records ==
  /\ \A w \in Nat, n \in {1, 2} : Rec(w, n) \in Record
  /\ \A w, n : Rec(w, n).window = w /\ Rec(w, n).n = n
  /\ \A r \in Record : r = Rec(r.window, r.n) /\ r.window \in Nat /\ r.n \in {1, 2}
BY DEF Rec, Record

LEMMA RecordsShape ==
  ASSUME NEW path \in Path, NEW w \in Nat
  PROVE  /\ RecordsIn(path, w) \in Seq(Record)
         /\ Len(RecordsIn(path, w)) = Count[path]
         /\ Count[path] \in {1, 2}
         /\ \A n \in 1 .. Count[path] : RecordsIn(path, w)[n] = Rec(w, n)
<1>1. Rec(w, 1) \in Record /\ Rec(w, 2) \in Record
  BY Records
<1>2. CASE path = "detail"
  <2>1. RecordsIn(path, w) = <<Rec(w, 1), Rec(w, 2)>> /\ Count[path] = 2
    BY <1>2 DEF RecordsIn, Rec, Count
  <2>2. PICK a, b : a = Rec(w, 1) /\ b = Rec(w, 2)
    OBVIOUS
  <2>3. /\ <<a, b>> \in Seq(Record) /\ Len(<<a, b>>) = 2
        /\ <<a, b>>[1] = a /\ <<a, b>>[2] = b
    BY <1>1, <2>2
  <2>4. \A n \in 1 .. 2 : n = 1 \/ n = 2
    OBVIOUS
  <2> QED BY <2>1, <2>2, <2>3, <2>4
<1>3. CASE path = "ip"
  <2>1. RecordsIn(path, w) = <<Rec(w, 1)>> /\ Count[path] = 1
    BY <1>3 DEF RecordsIn, Rec, Count
  <2>2. PICK a : a = Rec(w, 1)
    OBVIOUS
  <2>3. <<a>> \in Seq(Record) /\ Len(<<a>>) = 1 /\ <<a>>[1] = a
    BY <1>1, <2>2
  <2>4. \A n \in 1 .. 1 : n = 1
    OBVIOUS
  <2> QED BY <2>1, <2>2, <2>3, <2>4
<1> QED BY <1>2, <1>3 DEF Path

-----------------------------------------------------------------------------
(* What an append adds to a file: one line per record that was written to  *)
(* its end, the first of them unreadable if the file ended in a torn line. *)
Adds(old, new, records) ==
  /\ new \in FileType
  /\ Len(new.lines) = Len(old.lines) + Len(records)
  /\ \A i \in 1 .. Len(old.lines) : new.lines[i] = old.lines[i]
  /\ \A n \in 1 .. Len(records) :
       new.lines[Len(old.lines) + n] = IF n = 1 /\ old.torn THEN Unreadable
                                       ELSE Line(records[n])

LEMMA FileShape ==
  ASSUME NEW file \in FileType
  PROVE  file.lines \in Seq(LineType) /\ file.torn \in BOOLEAN
         /\ Len(file.lines) \in Nat
         /\ file = [lines |-> file.lines, torn |-> file.torn]
<1>1. file.lines \in Seq(LineType) /\ file.torn \in BOOLEAN
      /\ file = [lines |-> file.lines, torn |-> file.torn]
  BY DEF FileType
<1> QED BY <1>1

IsConcat(c, a, b) == c = a \o b

LEMMA Concatenated ==
  ASSUME NEW S, NEW a \in Seq(S), NEW b \in Seq(S), NEW c, IsConcat(c, a, b)
  PROVE  /\ c \in Seq(S) /\ Len(c) = Len(a) + Len(b)
         /\ \A i \in 1 .. Len(a) : c[i] = a[i]
         /\ \A n \in 1 .. Len(b) : c[Len(a) + n] = b[n]
BY DEF IsConcat

LEMMA ExtendedAdds ==
  ASSUME NEW file \in FileType, NEW records \in Seq(Record), NEW torn \in BOOLEAN
  PROVE  /\ Adds(file, Extended(file, records, torn), records)
         /\ records # <<>> => Extended(file, records, torn).torn = torn
         /\ records = <<>> => Extended(file, records, torn).torn = (file.torn \/ torn)
<1>1. PICK L, t : L = file.lines /\ t = file.torn
  OBVIOUS
<1>2. L \in Seq(LineType) /\ t \in BOOLEAN /\ Len(L) \in Nat /\ Len(records) \in Nat
  BY <1>1, FileShape
<1>3. CASE records = <<>>
  <2>1. Extended(file, records, torn) = [file EXCEPT !.torn = file.torn \/ torn]
    BY <1>3 DEF Extended
  <2>2. Extended(file, records, torn) = [lines |-> L, torn |-> t \/ torn]
    BY <1>1, <2>1, FileShape
  <2>3. PICK new : new = Extended(file, records, torn)
    OBVIOUS
  <2>4. new.lines = L /\ new.torn = (t \/ torn) /\ new \in FileType
    BY <1>2, <2>2, <2>3 DEF FileType
  <2>5. Len(records) = 0
    BY <1>3
  <2>6. Adds(file, new, records)
    BY <1>1, <1>2, <2>4, <2>5 DEF Adds
  <2> QED BY <1>1, <1>3, <2>3, <2>4, <2>6
<1>4. CASE records # <<>>
  <2> DEFINE added == IF t THEN <<Unreadable>> \o LinesOf(Tail(records)) ELSE LinesOf(records)
  <2>1. Extended(file, records, torn) = [lines |-> L \o added, torn |-> torn]
    BY <1>1, <1>4 DEF Extended
  <2>2. Len(records) >= 1
    BY <1>4
  <2>3. /\ added \in Seq(LineType) /\ Len(added) = Len(records)
        /\ \A n \in 1 .. Len(records) :
             added[n] = IF n = 1 /\ t THEN Unreadable ELSE Line(records[n])
    <3>1. ASSUME NEW rs \in Seq(Record)
          PROVE  /\ LinesOf(rs) \in Seq(LineType) /\ Len(LinesOf(rs)) = Len(rs)
                 /\ \A n \in 1 .. Len(rs) : LinesOf(rs)[n] = Line(rs[n])
      <4>1. \A n \in 1 .. Len(rs) : Line(rs[n]) \in LineType
        BY Lines
      <4>2. LinesOf(rs) = [n \in 1 .. Len(rs) |-> Line(rs[n])]
        BY DEF LinesOf
      <4> QED BY <4>1, <4>2
    <3>2. CASE ~t
      BY <3>1, <3>2
    <3>3. CASE t
      <4>1. PICK rest : rest = Tail(records)
        OBVIOUS
      <4>2. /\ rest \in Seq(Record) /\ Len(rest) = Len(records) - 1
            /\ \A n \in 1 .. Len(rest) : rest[n] = records[n + 1]
        BY <1>4, <4>1
      <4>3. PICK ls : ls = LinesOf(rest)
        OBVIOUS
      <4>4. /\ ls \in Seq(LineType) /\ Len(ls) = Len(records) - 1
            /\ \A n \in 1 .. Len(ls) : ls[n] = Line(records[n + 1])
        BY <3>1, <4>2, <4>3
      <4>5. PICK one : one = <<Unreadable>>
        OBVIOUS
      <4>6. one \in Seq(LineType) /\ Len(one) = 1 /\ one[1] = Unreadable
        BY <4>5, Lines
      <4>7. added = one \o ls
        BY <3>3, <4>1, <4>3, <4>5
      <4> HIDE DEF added
      <4>12. /\ added \in Seq(LineType) /\ Len(added) = Len(one) + Len(ls)
             /\ \A i \in 1 .. Len(one) : added[i] = one[i]
             /\ \A n \in 1 .. Len(ls) : added[Len(one) + n] = ls[n]
        <5>1. IsConcat(added, one, ls)
          BY <4>7 DEF IsConcat
        <5>2. one \in Seq(LineType) /\ ls \in Seq(LineType)
          BY <4>4, <4>6
        <5> QED BY <5>1, <5>2, Concatenated
      <4>8. added \in Seq(LineType) /\ Len(added) = Len(records)
        BY <1>2, <4>4, <4>6, <4>12
      <4>9. \A n \in 1 .. Len(records) : n # 1 =>
              n - 1 \in 1 .. Len(ls) /\ (n - 1) + 1 = n /\ added[n] = ls[n - 1]
        <5> SUFFICES ASSUME NEW n \in 1 .. Len(records), n # 1
                     PROVE  n - 1 \in 1 .. Len(ls) /\ (n - 1) + 1 = n /\ added[n] = ls[n - 1]
          OBVIOUS
        <5>1. n - 1 \in 1 .. Len(ls) /\ (n - 1) + 1 = n /\ 1 + (n - 1) = n
          BY <1>2, <4>4
        <5>2. added[1 + (n - 1)] = ls[n - 1]
          BY <4>6, <4>12, <5>1
        <5> QED BY <5>1, <5>2
      <4>10. added[1] = Unreadable
        BY <4>6, <4>12
      <4>11. \A n \in 1 .. Len(records) : n # 1 => added[n] = Line(records[n])
        BY <4>4, <4>9
      <4> QED BY <3>3, <4>8, <4>10, <4>11
    <3> QED BY <3>2, <3>3
  <2> HIDE DEF added
  <2>4. PICK new, all : new = Extended(file, records, torn) /\ all = L \o added
    OBVIOUS
  <2>5. /\ all \in Seq(LineType) /\ Len(all) = Len(L) + Len(records)
        /\ \A i \in 1 .. Len(L) : all[i] = L[i]
        /\ \A n \in 1 .. Len(records) : all[Len(L) + n] = added[n]
    <3>1. IsConcat(all, L, added)
      BY <2>4 DEF IsConcat
    <3>2. /\ all \in Seq(LineType) /\ Len(all) = Len(L) + Len(added)
          /\ \A i \in 1 .. Len(L) : all[i] = L[i]
          /\ \A n \in 1 .. Len(added) : all[Len(L) + n] = added[n]
      BY <1>2, <2>3, <3>1, Concatenated
    <3> QED BY <2>3, <3>2
  <2>6. new = [lines |-> all, torn |-> torn]
    BY <2>1, <2>4
  <2>7. new.lines = all /\ new.torn = torn /\ new \in FileType
    BY <2>5, <2>6 DEF FileType
  <2>8. Adds(file, new, records)
    BY <1>1, <2>3, <2>5, <2>7 DEF Adds
  <2> QED BY <1>4, <2>4, <2>7, <2>8
<1> QED BY <1>3, <1>4

-----------------------------------------------------------------------------
(* One log: f are its generations, r the windows at its rotations.  Every  *)
(* readable line is of a window up to `latest`; the lines are in window    *)
(* order and all different; unreadable and torn ones are counted by the    *)
(* failures fl; and a renamed file has nothing later than its renaming.    *)
At(f, g, i) == f[g].lines[i]
IsPlace(f, g, i) == g \in 1 .. Len(f) /\ i \in 1 .. Len(f[g].lines)
Readable(f, g, i) == IsPlace(f, g, i) /\ At(f, g, i) # Unreadable
WindowAt(f, g, i) == At(f, g, i).record.window

Recent(f, latest) == \A g, i : Readable(f, g, i) => WindowAt(f, g, i) <= latest
Ordered(f) ==
  \A g, i, h, j : Readable(f, g, i) /\ Readable(f, h, j) /\ (g < h \/ (g = h /\ i < j)) =>
    WindowAt(f, g, i) <= WindowAt(f, h, j)
Distinct(f) ==
  \A g, i, h, j :
    Readable(f, g, i) /\ Readable(f, h, j) /\ At(f, g, i) = At(f, h, j) => g = h /\ i = j

AllPlaces(f) == UNION {{<<g, i>> : i \in DOMAIN f[g].lines} : g \in DOMAIN f}
Damaged(f) == {p \in AllPlaces(f) : f[p[1]].lines[p[2]] = Unreadable}
Torn(f) == {g \in DOMAIN f : f[g].torn}
Bounded(f, fl) ==
  /\ IsFiniteSet(Damaged(f)) /\ IsFiniteSet(Torn(f))
  /\ Cardinality(Damaged(f)) + Cardinality(Torn(f)) <= fl

LeftAlone(f, r, w) ==
  \A g \in 1 .. Len(r) :
    r[g] <= w /\ \A i : Readable(f, g, i) => WindowAt(f, g, i) <= r[g]

LogInv(f, r, latest, w, fl) ==
  /\ f \in Seq(FileType) /\ r \in Seq(Nat) /\ Len(f) = Len(r) + 1
  /\ Recent(f, latest) /\ Ordered(f) /\ Distinct(f)
  /\ Bounded(f, fl) /\ LeftAlone(f, r, w)

\* What a writer with generation h open finds: at most one rotation since,
\* the file that has the name now is empty.
AfterHandle(f, r, h, w) ==
  /\ h \in 1 .. Len(f)
  /\ \A g \in 1 .. Len(f) : g > h => f[g] = EmptyFile
  /\ \A g \in 1 .. Len(r) : g >= h => r[g] = w

\* f2 is f after k records of window w, and maybe a part of one more, were
\* written to generation h.
Grows(f, f2, h, k, w, torn) ==
  /\ f2 \in Seq(FileType) /\ Len(f2) = Len(f) /\ h \in 1 .. Len(f)
  /\ \A g \in 1 .. Len(f) : g # h => f2[g] = f[g]
  /\ Len(f2[h].lines) = Len(f[h].lines) + k
  /\ \A i \in 1 .. Len(f[h].lines) : f2[h].lines[i] = f[h].lines[i]
  /\ \A n \in 1 .. k : f2[h].lines[Len(f[h].lines) + n] =
       IF n = 1 /\ f[h].torn THEN Unreadable ELSE Line(Rec(w, n))
  /\ k # 0 => f2[h].torn = torn
  /\ k = 0 => f2[h].torn = (f[h].torn \/ torn)

\* One of the lines that were added.
Added(f, h, k, w, g, i, line) ==
  /\ g = h /\ i \in Nat /\ i > Len(f[h].lines) /\ i - Len(f[h].lines) \in 1 .. k
  /\ line = Line(Rec(w, i - Len(f[h].lines)))

\* The old lines are where they were, and every other one was added.
KeepsAndAdds(f, f2, h, k, w) ==
  /\ \A g, i : IsPlace(f, g, i) => IsPlace(f2, g, i) /\ At(f2, g, i) = At(f, g, i)
  /\ \A g, i : Readable(f, g, i) =>
       Readable(f2, g, i) /\ WindowAt(f2, g, i) = WindowAt(f, g, i)
  /\ \A g, i : Readable(f2, g, i) /\ ~Readable(f, g, i) =>
       Added(f, h, k, w, g, i, At(f2, g, i)) /\ WindowAt(f2, g, i) = w

LEMMA FilesShape ==
  ASSUME NEW f \in Seq(FileType)
  PROVE  /\ Len(f) \in Nat /\ DOMAIN f = 1 .. Len(f)
         /\ \A g \in 1 .. Len(f) :
              /\ f[g] \in FileType /\ f[g].lines \in Seq(LineType) /\ f[g].torn \in BOOLEAN
              /\ Len(f[g].lines) \in Nat /\ DOMAIN f[g].lines = 1 .. Len(f[g].lines)
         /\ \A g, i : Readable(f, g, i) =>
              /\ At(f, g, i).record \in Record
              /\ At(f, g, i) = Line(At(f, g, i).record)
              /\ WindowAt(f, g, i) \in Nat /\ g \in Nat /\ i \in Nat
<1>1. Len(f) \in Nat /\ DOMAIN f = 1 .. Len(f) /\ \A g \in 1 .. Len(f) : f[g] \in FileType
  OBVIOUS
<1>2. \A g \in 1 .. Len(f) : f[g].lines \in Seq(LineType) /\ f[g].torn \in BOOLEAN
  BY <1>1, FileShape
<1>3. \A g \in 1 .. Len(f) :
        /\ Len(f[g].lines) \in Nat /\ DOMAIN f[g].lines = 1 .. Len(f[g].lines)
        /\ \A i \in 1 .. Len(f[g].lines) : f[g].lines[i] \in LineType
  BY <1>2
<1>4. ASSUME NEW g, NEW i, Readable(f, g, i)
      PROVE  /\ At(f, g, i).record \in Record
             /\ At(f, g, i) = Line(At(f, g, i).record)
             /\ WindowAt(f, g, i) \in Nat /\ g \in Nat /\ i \in Nat
  <2>1. g \in Nat /\ i \in Nat /\ At(f, g, i) \in LineType /\ At(f, g, i) # Unreadable
    BY <1>1, <1>3, <1>4 DEF Readable, IsPlace, At
  <2>2. At(f, g, i).record \in Record /\ At(f, g, i) = Line(At(f, g, i).record)
    BY <2>1, Lines
  <2>3. WindowAt(f, g, i) \in Nat
    BY <2>2, Records DEF WindowAt
  <2> QED BY <2>1, <2>2, <2>3
<1> QED BY <1>1, <1>2, <1>3, <1>4

\* A readable line of a log that was written to is an old one or a new one.
LEMMA LinesOfGrown ==
  ASSUME NEW f \in Seq(FileType), NEW f2, NEW h, NEW k \in Nat, NEW w \in Nat,
         NEW torn, Grows(f, f2, h, k, w, torn)
  PROVE  KeepsAndAdds(f, f2, h, k, w)
<1>1. /\ Len(f) \in Nat
      /\ \A g \in 1 .. Len(f) : Len(f[g].lines) \in Nat
  BY FilesShape
<1>2. ASSUME NEW g, NEW i, IsPlace(f, g, i)
      PROVE  IsPlace(f2, g, i) /\ At(f2, g, i) = At(f, g, i)
  <2>1. CASE g = h
    BY <1>1, <1>2, <2>1 DEF Grows, IsPlace, At
  <2>2. CASE g # h
    BY <1>1, <1>2, <2>2 DEF Grows, IsPlace, At
  <2> QED BY <2>1, <2>2
<1>3. ASSUME NEW g, NEW i, Readable(f, g, i)
      PROVE  Readable(f2, g, i) /\ WindowAt(f2, g, i) = WindowAt(f, g, i)
  BY <1>2, <1>3 DEF Readable, WindowAt
<1>4. ASSUME NEW g, NEW i, Readable(f2, g, i), ~Readable(f, g, i)
      PROVE  Added(f, h, k, w, g, i, At(f2, g, i)) /\ WindowAt(f2, g, i) = w
  <2>1. ~IsPlace(f, g, i)
    BY <1>2, <1>4 DEF Readable
  <2>2. g = h
    BY <1>1, <1>4, <2>1 DEF Readable, IsPlace, Grows
  <2>3. PICK l : l = Len(f[h].lines)
    OBVIOUS
  <2>4. /\ l \in Nat /\ i \in 1 .. l + k /\ i \notin 1 .. l
    BY <1>1, <1>4, <2>1, <2>2, <2>3 DEF Readable, IsPlace, Grows
  <2>5. i > l /\ i - l \in 1 .. k /\ l + (i - l) = i
    BY <2>4
  <2>6. f2[h].lines[l + (i - l)]
          = IF i - l = 1 /\ f[h].torn THEN Unreadable ELSE Line(Rec(w, i - l))
    BY <2>3, <2>5 DEF Grows
  <2>7. At(f2, g, i) = Line(Rec(w, i - l))
    BY <1>4, <2>2, <2>5, <2>6 DEF Readable, At
  <2>8. WindowAt(f2, g, i) = w
    BY <2>7, Lines, Records DEF WindowAt
  <2> QED BY <2>2, <2>3, <2>4, <2>5, <2>7, <2>8 DEF Added
<1> QED BY <1>2, <1>3, <1>4 DEF KeepsAndAdds

LEMMA GrownInOrder ==
  ASSUME NEW f \in Seq(FileType), NEW f2, NEW h, NEW k \in Nat, NEW w \in Nat,
         NEW torn, NEW r \in Seq(Nat),
         Grows(f, f2, h, k, w, torn), AfterHandle(f, r, h, w),
         Recent(f, w - 1), Ordered(f), Distinct(f), LeftAlone(f, r, w)
  PROVE  Recent(f2, w) /\ Ordered(f2) /\ Distinct(f2) /\ LeftAlone(f2, r, w)
<1> DEFINE New(g, i) == Readable(f2, g, i) /\ ~Readable(f, g, i)
<1>0. /\ \A g, i : IsPlace(f, g, i) => IsPlace(f2, g, i) /\ At(f2, g, i) = At(f, g, i)
      /\ \A g, i : Readable(f, g, i) =>
           Readable(f2, g, i) /\ WindowAt(f2, g, i) = WindowAt(f, g, i)
      /\ \A g, i : New(g, i) =>
           Added(f, h, k, w, g, i, At(f2, g, i)) /\ WindowAt(f2, g, i) = w
  <2>1. KeepsAndAdds(f, f2, h, k, w)
    BY LinesOfGrown
  <2> QED BY <2>1 DEF KeepsAndAdds
<1>5. \A g, i : Readable(f2, g, i) => Readable(f, g, i) \/ New(g, i)
  OBVIOUS
<1> HIDE DEF New
<1>1. \A g, i : Readable(f, g, i) =>
        /\ Readable(f2, g, i) /\ WindowAt(f2, g, i) = WindowAt(f, g, i)
        /\ At(f2, g, i) = At(f, g, i)
        /\ WindowAt(f, g, i) \in Nat /\ WindowAt(f, g, i) <= w - 1
        /\ g \in 1 .. Len(f) /\ i \in 1 .. Len(f[g].lines)
  <2>1. \A g, i : Readable(f, g, i) => WindowAt(f, g, i) \in Nat
    BY FilesShape
  <2>2. \A g, i : Readable(f, g, i) => WindowAt(f, g, i) <= w - 1
    BY DEF Recent
  <2>3. \A g, i : Readable(f, g, i) =>
          IsPlace(f, g, i) /\ g \in 1 .. Len(f) /\ i \in 1 .. Len(f[g].lines)
    BY DEF Readable, IsPlace
  <2> QED BY <1>0, <2>1, <2>2, <2>3
<1>2. \A g, i : New(g, i) =>
        /\ g = h /\ i > Len(f[h].lines) /\ i \in Nat /\ WindowAt(f2, g, i) = w
        /\ i - Len(f[h].lines) \in Nat
        /\ At(f2, g, i) = Line(Rec(w, i - Len(f[h].lines)))
  BY <1>0 DEF Added
<1>3. Len(f) \in Nat /\ h \in 1 .. Len(f) /\ Len(f[h].lines) \in Nat
  BY FilesShape DEF Grows
<1>4. \A g, i : Readable(f, g, i) => g <= h
  <2> SUFFICES ASSUME NEW g, NEW i, Readable(f, g, i), g > h PROVE FALSE
    BY <1>1, <1>3
  <2>1. f[g] = EmptyFile /\ i \in 1 .. Len(f[g].lines)
    BY <1>1, <1>3 DEF AfterHandle
  <2>2. EmptyFile.lines = <<>>
    BY DEF EmptyFile
  <2>3. Len(f[g].lines) = 0
    BY <2>1, <2>2
  <2> QED BY <2>1, <2>3
<1>8. Recent(f2, w)
  BY <1>1, <1>2, <1>5 DEF Recent
<1>9. Ordered(f2)
  <2> SUFFICES ASSUME NEW g, NEW i, NEW g2, NEW j, Readable(f2, g, i), Readable(f2, g2, j),
                      g < g2 \/ (g = g2 /\ i < j)
               PROVE  WindowAt(f2, g, i) <= WindowAt(f2, g2, j)
    BY DEF Ordered
  <2>1. CASE New(g2, j)
    BY <1>2, <1>8, <2>1 DEF Recent
  <2>2. CASE Readable(f, g2, j)
    <3>1. ~New(g, i)
      <4> SUFFICES ASSUME New(g, i) PROVE FALSE
        OBVIOUS
      <4>1. g = h /\ i > Len(f[h].lines) /\ g2 <= h /\ i \in Nat
        BY <1>2, <1>4, <2>2
      <4>2. g2 \in 1 .. Len(f) /\ j \in 1 .. Len(f[g2].lines)
        BY <1>1, <2>2
      <4>3. g2 = h /\ i < j
        BY <1>3, <4>1, <4>2
      <4> QED BY <1>3, <4>1, <4>2, <4>3
    <3> QED BY <1>1, <1>5, <2>2, <3>1 DEF Ordered
  <2> QED BY <1>5, <2>1, <2>2
<1>10. Distinct(f2)
  <2>1. \A g, i, g2, j : New(g, i) /\ Readable(f, g2, j) => At(f2, g, i) # At(f2, g2, j)
    <3> SUFFICES ASSUME NEW g, NEW i, NEW g2, NEW j, New(g, i), Readable(f, g2, j),
                        At(f2, g, i) = At(f2, g2, j)
                 PROVE  FALSE
      OBVIOUS
    <3>1. WindowAt(f2, g, i) = WindowAt(f2, g2, j)
      BY DEF WindowAt
    <3>2. WindowAt(f2, g, i) = w /\ WindowAt(f2, g2, j) \in Nat /\ WindowAt(f2, g2, j) <= w - 1
      BY <1>1, <1>2
    <3> QED BY <3>1, <3>2
  <2>2. \A g, i, g2, j : New(g, i) /\ New(g2, j) /\ At(f2, g, i) = At(f2, g2, j) =>
          g = g2 /\ i = j
    <3> SUFFICES ASSUME NEW g, NEW i, NEW g2, NEW j, New(g, i), New(g2, j),
                        At(f2, g, i) = At(f2, g2, j)
                 PROVE  g = g2 /\ i = j
      OBVIOUS
    <3>1. PICK a, b : a = i - Len(f[h].lines) /\ b = j - Len(f[h].lines)
      OBVIOUS
    <3>2. Line(Rec(w, a)) = Line(Rec(w, b)) /\ g = h /\ g2 = h
      BY <1>2, <3>1
    <3>3. a = b
      BY <3>2, Lines, Records
    <3>4. i \in Nat /\ j \in Nat
      BY <1>2
    <3> QED BY <1>3, <3>1, <3>2, <3>3, <3>4
  <2> SUFFICES ASSUME NEW g, NEW i, NEW g2, NEW j, Readable(f2, g, i), Readable(f2, g2, j),
                      At(f2, g, i) = At(f2, g2, j)
               PROVE  g = g2 /\ i = j
    BY DEF Distinct
  <2>3. CASE New(g, i)
    BY <1>5, <2>1, <2>2, <2>3
  <2>4. CASE New(g2, j)
    BY <1>5, <2>1, <2>2, <2>4
  <2>5. CASE Readable(f, g, i) /\ Readable(f, g2, j)
    BY <1>1, <2>5 DEF Distinct
  <2> QED BY <1>5, <2>3, <2>4, <2>5
<1>11. LeftAlone(f2, r, w)
  <2> SUFFICES ASSUME NEW g \in 1 .. Len(r)
               PROVE  /\ r[g] <= w
                      /\ \A i : Readable(f2, g, i) => WindowAt(f2, g, i) <= r[g]
    BY DEF LeftAlone
  <2>1. r[g] <= w
    BY DEF LeftAlone
  <2>2. ASSUME NEW i, Readable(f2, g, i) PROVE WindowAt(f2, g, i) <= r[g]
    <3>1. CASE Readable(f, g, i)
      BY <1>1, <3>1 DEF LeftAlone
    <3>2. CASE New(g, i)
      <4>1. g = h /\ WindowAt(f2, g, i) = w
        BY <1>2, <3>2
      <4>2. r[g] = w
        BY <1>3, <4>1 DEF AfterHandle
      <4> QED BY <4>1, <4>2
    <3> QED BY <1>5, <2>2, <3>1, <3>2
  <2> QED BY <2>1, <2>2
<1> QED BY <1>8, <1>9, <1>10, <1>11

LEMMA DamagedPlaces ==
  ASSUME NEW f \in Seq(FileType)
  PROVE  \A p : p \in Damaged(f) <=>
           \E g, i : p = <<g, i>> /\ IsPlace(f, g, i) /\ At(f, g, i) = Unreadable
<1>1. /\ DOMAIN f = 1 .. Len(f)
      /\ \A g \in 1 .. Len(f) : DOMAIN f[g].lines = 1 .. Len(f[g].lines)
  BY FilesShape
<1>2. \A p : p \in AllPlaces(f) <=> \E g, i : p = <<g, i>> /\ IsPlace(f, g, i)
  BY <1>1 DEF AllPlaces, IsPlace
<1>3. \A g, i : <<g, i>>[1] = g /\ <<g, i>>[2] = i
  OBVIOUS
<1> QED BY <1>2, <1>3 DEF Damaged, At

LEMMA AtMostOneMore ==
  ASSUME NEW S, NEW T, NEW x, IsFiniteSet(S), T \subseteq S \cup {x}
  PROVE  /\ IsFiniteSet(T) /\ Cardinality(S) \in Nat /\ Cardinality(T) \in Nat
         /\ Cardinality(T) <= Cardinality(S) + 1
         /\ T \subseteq S => Cardinality(T) <= Cardinality(S)
<1>1. /\ IsFiniteSet(S \cup {x})
      /\ Cardinality(S \cup {x}) = Cardinality(S) \/ Cardinality(S \cup {x}) = Cardinality(S) + 1
  BY FS_AddElement
<1>2. IsFiniteSet(T) /\ Cardinality(T) <= Cardinality(S \cup {x})
  BY <1>1, FS_Subset
<1>3. T \subseteq S => Cardinality(T) <= Cardinality(S)
  BY FS_Subset
<1>4. Cardinality(S) \in Nat /\ Cardinality(T) \in Nat
  BY <1>2, FS_CardinalityType
<1> QED BY <1>1, <1>2, <1>3, <1>4

\* A write damages a line only where the end was torn before, and a failed
\* one leaves at most one torn end.
LEMMA GrownDamage ==
  ASSUME NEW f \in Seq(FileType), NEW f2, NEW h, NEW k \in Nat, NEW w \in Nat,
         NEW torn \in BOOLEAN, NEW fl \in Nat, NEW fl2 \in Nat,
         Grows(f, f2, h, k, w, torn), Bounded(f, fl),
         fl <= fl2, torn => fl + 1 <= fl2
  PROVE  Bounded(f2, fl2)
<1>1. /\ f2 \in Seq(FileType) /\ Len(f2) = Len(f) /\ h \in 1 .. Len(f)
      /\ Len(f) \in Nat /\ Len(f[h].lines) \in Nat
  BY FilesShape DEF Grows
<1>2. PICK d, t, d2, t2, p : /\ d = Damaged(f) /\ t = Torn(f) /\ d2 = Damaged(f2) /\ t2 = Torn(f2)
                             /\ p = <<h, Len(f[h].lines) + 1>>
  OBVIOUS
<1>3. /\ IsFiniteSet(d) /\ IsFiniteSet(t) /\ Cardinality(d) + Cardinality(t) <= fl
  BY <1>2 DEF Bounded
<1>4. d2 \subseteq d \cup {p} /\ (k = 0 \/ ~f[h].torn => d2 \subseteq d)
  <2> SUFFICES ASSUME NEW q \in d2, q \notin d
               PROVE  q = p /\ k # 0 /\ f[h].torn
    OBVIOUS
  <2>1. PICK g, i : q = <<g, i>> /\ IsPlace(f2, g, i) /\ At(f2, g, i) = Unreadable
    BY <1>1, <1>2, DamagedPlaces
  <2>2. ~IsPlace(f, g, i)
    <3> SUFFICES ASSUME IsPlace(f, g, i) PROVE FALSE
      OBVIOUS
    <3>1. KeepsAndAdds(f, f2, h, k, w)
      BY LinesOfGrown
    <3>2. At(f, g, i) = Unreadable
      BY <2>1, <3>1 DEF KeepsAndAdds
    <3> QED BY <1>2, <2>1, <3>2, DamagedPlaces
  <2>3. PICK l : l = Len(f[h].lines)
    OBVIOUS
  <2>4. g = h /\ i \in 1 .. l + k /\ i \notin 1 .. l
    BY <1>1, <2>1, <2>2, <2>3 DEF IsPlace, Grows
  <2>5. i - l \in 1 .. k /\ l + (i - l) = i /\ l \in Nat /\ i \in Nat
    BY <1>1, <2>3, <2>4
  <2>6. f2[h].lines[l + (i - l)]
          = IF i - l = 1 /\ f[h].torn THEN Unreadable ELSE Line(Rec(w, i - l))
    BY <2>3, <2>5 DEF Grows
  <2>7. i - l = 1 /\ f[h].torn
    BY <2>1, <2>4, <2>5, <2>6, Lines DEF At
  <2>8. i = l + 1 /\ k # 0
    BY <2>5, <2>7
  <2> QED BY <1>2, <2>1, <2>3, <2>4, <2>7, <2>8
<1>5. /\ t2 \subseteq t \cup {h} /\ (~torn => t2 \subseteq t)
      /\ k # 0 /\ ~torn => h \notin t2
      /\ h \in t <=> f[h].torn
  <2>1. \A g : g \in t <=> g \in 1 .. Len(f) /\ f[g].torn
    BY <1>2, FilesShape DEF Torn
  <2>2. \A g : g \in t2 <=> g \in 1 .. Len(f) /\ f2[g].torn
    BY <1>1, <1>2, FilesShape DEF Torn
  <2>3. \A g \in 1 .. Len(f) : g # h => f2[g] = f[g]
    BY DEF Grows
  <2>4. (k # 0 => f2[h].torn = torn) /\ (k = 0 => f2[h].torn = (f[h].torn \/ torn))
    BY DEF Grows
  <2>5. ASSUME NEW g \in t2, g # h PROVE g \in t
    BY <2>1, <2>2, <2>3, <2>5
  <2>6. ~torn => (h \in t2 => h \in t)
    BY <1>1, <2>1, <2>2, <2>4
  <2>7. k # 0 /\ ~torn => h \notin t2
    BY <2>2, <2>4
  <2> QED BY <1>1, <2>1, <2>5, <2>6, <2>7
<1>6. /\ IsFiniteSet(d2) /\ Cardinality(d) \in Nat /\ Cardinality(d2) \in Nat
      /\ Cardinality(d2) <= Cardinality(d) + 1
      /\ k = 0 \/ ~f[h].torn => Cardinality(d2) <= Cardinality(d)
  BY <1>3, <1>4, AtMostOneMore
<1>7. /\ IsFiniteSet(t2) /\ Cardinality(t) \in Nat /\ Cardinality(t2) \in Nat
      /\ Cardinality(t2) <= Cardinality(t) + 1
      /\ ~torn => Cardinality(t2) <= Cardinality(t)
  BY <1>3, <1>5, AtMostOneMore
<1>8. CASE k = 0 \/ ~f[h].torn
  <2>1. Cardinality(d2) + Cardinality(t2) <= fl2
    <3>1. CASE torn
      BY <1>3, <1>6, <1>7, <1>8, <3>1
    <3>2. CASE ~torn
      BY <1>3, <1>6, <1>7, <1>8, <3>2
    <3> QED BY <3>1, <3>2
  <2> QED BY <1>2, <1>6, <1>7, <2>1 DEF Bounded
<1>9. CASE k # 0 /\ f[h].torn
  <2>1. /\ h \in t /\ IsFiniteSet(t \ {h}) /\ Cardinality(t \ {h}) = Cardinality(t) - 1
    BY <1>3, <1>5, <1>9, FS_RemoveElement
  <2>2. PICK rest : rest = t \ {h}
    OBVIOUS
  <2>3. t2 \subseteq rest \cup {h} /\ (~torn => t2 \subseteq rest)
    BY <1>5, <1>9, <2>2
  <2>4. /\ Cardinality(t2) <= Cardinality(rest) + 1
        /\ ~torn => Cardinality(t2) <= Cardinality(rest)
    BY <2>1, <2>2, <2>3, AtMostOneMore
  <2>5. Cardinality(rest) = Cardinality(t) - 1
    BY <2>1, <2>2
  <2>6. Cardinality(d2) + Cardinality(t2) <= fl2
    <3>1. CASE torn
      BY <1>3, <1>6, <1>7, <2>4, <2>5, <3>1
    <3>2. CASE ~torn
      BY <1>3, <1>6, <1>7, <2>4, <2>5, <3>2
    <3> QED BY <3>1, <3>2
  <2> QED BY <1>2, <1>6, <1>7, <2>6 DEF Bounded
<1> QED BY <1>8, <1>9

LEMMA Grown ==
  ASSUME NEW f \in Seq(FileType), NEW f2, NEW h, NEW k \in Nat, NEW w \in Nat,
         NEW torn \in BOOLEAN, NEW fl \in Nat, NEW fl2 \in Nat, NEW r,
         Grows(f, f2, h, k, w, torn), AfterHandle(f, r, h, w),
         LogInv(f, r, w - 1, w, fl), fl <= fl2, torn => fl + 1 <= fl2
  PROVE  LogInv(f2, r, w, w, fl2)
<1>1. /\ r \in Seq(Nat) /\ Len(f) = Len(r) + 1
      /\ Recent(f, w - 1) /\ Ordered(f) /\ Distinct(f)
      /\ Bounded(f, fl) /\ LeftAlone(f, r, w)
  BY DEF LogInv
<1>2. f2 \in Seq(FileType) /\ Len(f2) = Len(r) + 1
  BY <1>1 DEF Grows
<1>3. Recent(f2, w) /\ Ordered(f2) /\ Distinct(f2) /\ LeftAlone(f2, r, w)
  BY <1>1, GrownInOrder
<1>4. Bounded(f2, fl2)
  BY <1>1, GrownDamage
<1> QED BY <1>1, <1>2, <1>3, <1>4 DEF LogInv

LEMMA Later ==
  ASSUME NEW f, NEW r, NEW latest \in Nat, NEW w \in Nat, NEW fl \in Nat,
         NEW latest2 \in Nat, NEW w2 \in Nat, NEW fl2 \in Nat,
         LogInv(f, r, latest, w, fl), latest <= latest2, w <= w2, fl <= fl2
  PROVE  LogInv(f, r, latest2, w2, fl2)
<1>1. f \in Seq(FileType) /\ r \in Seq(Nat)
  BY DEF LogInv
<1>2. Recent(f, latest2)
  <2>1. Recent(f, latest) /\ \A g, i : Readable(f, g, i) => WindowAt(f, g, i) \in Nat
    BY <1>1, FilesShape DEF LogInv
  <2> QED BY <2>1 DEF Recent
<1>3. Bounded(f, fl2)
  <2>1. Bounded(f, fl)
    BY DEF LogInv
  <2>2. Cardinality(Damaged(f)) \in Nat /\ Cardinality(Torn(f)) \in Nat
    BY <2>1, FS_CardinalityType DEF Bounded
  <2> QED BY <2>1, <2>2 DEF Bounded
<1>4. LeftAlone(f, r, w2)
  <2>1. LeftAlone(f, r, w) /\ \A g \in 1 .. Len(r) : r[g] \in Nat
    BY <1>1 DEF LogInv
  <2> QED BY <2>1 DEF LeftAlone
<1> QED BY <1>2, <1>3, <1>4 DEF LogInv

Appends(s, e, t, n) == t = Append(s, e) /\ n = Len(s) + 1

LEMMA Appended1 ==
  ASSUME NEW S, NEW s \in Seq(S), NEW e \in S, NEW t, NEW n, Appends(s, e, t, n)
  PROVE  /\ t \in Seq(S) /\ n \in Nat /\ Len(t) = n /\ Len(s) = n - 1
         /\ \A i \in 1 .. Len(s) : t[i] = s[i]
         /\ t[n] = e
BY DEF Appends

LEMMA EmptyFileShape == EmptyFile \in FileType /\ EmptyFile.torn = FALSE /\ Len(EmptyFile.lines) = 0
<1>1. PICK e : e = <<>>
  OBVIOUS
<1>2. e \in Seq(LineType) /\ Len(e) = 0
  BY <1>1
<1>3. EmptyFile = [lines |-> e, torn |-> FALSE]
  BY <1>1 DEF EmptyFile
<1> QED BY <1>2, <1>3 DEF FileType

\* A rotation moves no line.
SameLines(f, f2) ==
  /\ \A g, i : IsPlace(f2, g, i) <=> IsPlace(f, g, i)
  /\ \A g, i : IsPlace(f, g, i) => At(f2, g, i) = At(f, g, i)

LEMMA RotatedKeeps ==
  ASSUME NEW f \in Seq(FileType), NEW f2, NEW n, Appends(f, EmptyFile, f2, n)
  PROVE  SameLines(f, f2) /\ f2 \in Seq(FileType) /\ Torn(f2) = Torn(f)
<1>1. /\ f2 \in Seq(FileType) /\ n \in Nat /\ Len(f2) = n /\ Len(f) = n - 1
      /\ \A g \in 1 .. Len(f) : f2[g] = f[g]
      /\ f2[n] = EmptyFile
  BY EmptyFileShape, Appended1
<1>2. Len(f) \in Nat /\ DOMAIN f = 1 .. Len(f) /\ DOMAIN f2 = 1 .. n
  BY <1>1, FilesShape
<1>3. ASSUME NEW g, NEW i
      PROVE  IsPlace(f2, g, i) <=> IsPlace(f, g, i)
  <2>1. ASSUME IsPlace(f, g, i) PROVE IsPlace(f2, g, i)
    BY <1>1, <1>2, <2>1 DEF IsPlace
  <2>2. ASSUME IsPlace(f2, g, i) PROVE IsPlace(f, g, i)
    <3>1. g \in 1 .. n /\ i \in 1 .. Len(f2[g].lines)
      BY <1>1, <2>2 DEF IsPlace
    <3>2. g # n
      BY <1>1, <3>1, EmptyFileShape
    <3>3. g \in 1 .. Len(f)
      BY <1>1, <1>2, <3>1, <3>2
    <3> QED BY <1>1, <3>1, <3>3 DEF IsPlace
  <2> QED BY <2>1, <2>2
<1>4. ASSUME NEW g, NEW i, IsPlace(f, g, i)
      PROVE  At(f2, g, i) = At(f, g, i)
  BY <1>1, <1>4 DEF IsPlace, At
<1>5. Torn(f2) = Torn(f)
  <2>1. \A g : g \in Torn(f) <=> g \in 1 .. Len(f) /\ f[g].torn
    BY <1>2 DEF Torn
  <2>2. \A g : g \in Torn(f2) <=> g \in 1 .. n /\ f2[g].torn
    BY <1>2 DEF Torn
  <2>3. \A g \in 1 .. n : g # n => g \in 1 .. Len(f)
    BY <1>1, <1>2
  <2>4. \A g \in 1 .. Len(f) : g \in 1 .. n
    BY <1>1, <1>2
  <2>5. ~f2[n].torn
    BY <1>1, EmptyFileShape
  <2>6. \A g : g \in Torn(f2) <=> g \in Torn(f)
    BY <1>1, <2>1, <2>2, <2>3, <2>4, <2>5
  <2> QED BY <2>6
<1> QED BY <1>1, <1>3, <1>4, <1>5 DEF SameLines

LEMMA Rotated ==
  ASSUME NEW f, NEW r, NEW latest \in Nat, NEW w \in Nat, NEW fl \in Nat, NEW f2, NEW r2,
         NEW n, NEW m,
         LogInv(f, r, latest, w, fl), latest <= w,
         Appends(f, EmptyFile, f2, n), Appends(r, w, r2, m)
  PROVE  LogInv(f2, r2, latest, w, fl)
<1>1. f \in Seq(FileType) /\ r \in Seq(Nat) /\ Len(f) = Len(r) + 1
  BY DEF LogInv
<1>2. SameLines(f, f2) /\ f2 \in Seq(FileType) /\ Torn(f2) = Torn(f)
  BY <1>1, RotatedKeeps
<1>3. n \in Nat /\ Len(f2) = n /\ Len(f) = n - 1
  BY <1>1, EmptyFileShape, Appended1
<1>4. /\ r2 \in Seq(Nat) /\ m \in Nat /\ Len(r2) = m /\ Len(r) = m - 1
      /\ \A g \in 1 .. Len(r) : r2[g] = r[g]
      /\ r2[m] = w
  BY <1>1 DEF Appends
<1>5. \A g, i : /\ Readable(f2, g, i) <=> Readable(f, g, i)
                /\ Readable(f, g, i) => /\ At(f2, g, i) = At(f, g, i)
                                        /\ WindowAt(f2, g, i) = WindowAt(f, g, i)
  BY <1>2 DEF SameLines, Readable, WindowAt
<1>6. Recent(f2, latest) /\ Ordered(f2) /\ Distinct(f2)
  <2>1. Recent(f2, latest)
    BY <1>5 DEF LogInv, Recent
  <2>2. Ordered(f2)
    BY <1>5 DEF LogInv, Ordered
  <2>3. Distinct(f2)
    BY <1>5 DEF LogInv, Distinct
  <2> QED BY <2>1, <2>2, <2>3
<1>7. Bounded(f2, fl)
  <2>1. \A p : p \in Damaged(f2) <=> p \in Damaged(f)
    <3>1. \A p : p \in Damaged(f) <=>
            \E g, i : p = <<g, i>> /\ IsPlace(f, g, i) /\ At(f, g, i) = Unreadable
      BY <1>1, DamagedPlaces
    <3>2. \A p : p \in Damaged(f2) <=>
            \E g, i : p = <<g, i>> /\ IsPlace(f2, g, i) /\ At(f2, g, i) = Unreadable
      BY <1>2, DamagedPlaces
    <3>3. \A g, i : IsPlace(f2, g, i) /\ At(f2, g, i) = Unreadable
                      <=> IsPlace(f, g, i) /\ At(f, g, i) = Unreadable
      BY <1>2 DEF SameLines
    <3> QED BY <3>1, <3>2, <3>3
  <2>2. Damaged(f2) = Damaged(f)
    BY <2>1
  <2> QED BY <1>2, <2>2 DEF Bounded, LogInv
<1>8. LeftAlone(f2, r2, w)
  <2> SUFFICES ASSUME NEW g \in 1 .. Len(r2)
               PROVE  /\ r2[g] <= w
                      /\ \A i : Readable(f2, g, i) => WindowAt(f2, g, i) <= r2[g]
    BY DEF LeftAlone
  <2>1. CASE g = m
    <3>1. r2[g] = w
      BY <1>4, <2>1
    <3>2. \A i : Readable(f2, g, i) => WindowAt(f2, g, i) \in Nat /\ WindowAt(f2, g, i) <= latest
      BY <1>2, <1>6, FilesShape DEF Recent
    <3> QED BY <3>1, <3>2
  <2>2. CASE g # m
    <3>1. g \in 1 .. Len(r)
      BY <1>1, <1>4, <2>2
    <3>2. r2[g] = r[g]
      BY <1>4, <3>1
    <3>3. LeftAlone(f, r, w)
      BY DEF LogInv
    <3> QED BY <1>5, <3>1, <3>2, <3>3 DEF LeftAlone
  <2> QED BY <2>1, <2>2
<1>9. Len(f2) = Len(r2) + 1
  BY <1>1, <1>3, <1>4
<1> QED BY <1>2, <1>4, <1>6, <1>7, <1>8, <1>9 DEF LogInv

\* A writer that had a file open when it was rotated.
LEMMA RotatedUnder ==
  ASSUME NEW f \in Seq(FileType), NEW r \in Seq(Nat), NEW w \in Nat, NEW f2, NEW r2,
         NEW n, NEW m, NEW h, Len(f) = Len(r) + 1, f[Len(f)] # EmptyFile,
         AfterHandle(f, r, h, w), Appends(f, EmptyFile, f2, n), Appends(r, w, r2, m)
  PROVE  AfterHandle(f2, r2, h, w)
<1>1. /\ n \in Nat /\ Len(f2) = n /\ Len(f) = n - 1
      /\ \A g \in 1 .. Len(f) : f2[g] = f[g]
      /\ f2[n] = EmptyFile
  BY EmptyFileShape, Appended1
<1>2. /\ r2 \in Seq(Nat) /\ m \in Nat /\ Len(r2) = m /\ Len(r) = m - 1
      /\ \A g \in 1 .. Len(r) : r2[g] = r[g]
      /\ r2[m] = w
  BY DEF Appends
<1>3. h \in 1 .. Len(f) /\ Len(f) \in Nat
  BY FilesShape DEF AfterHandle
<1>4. h = Len(f)
  BY <1>3 DEF AfterHandle
<1>5. h \in 1 .. Len(f2)
  BY <1>1, <1>3
<1>6. ASSUME NEW g \in 1 .. Len(f2), g > h PROVE f2[g] = EmptyFile
  <2>1. g = n
    BY <1>1, <1>3, <1>4, <1>6
  <2> QED BY <1>1, <2>1
<1>7. ASSUME NEW g \in 1 .. Len(r2), g >= h PROVE r2[g] = w
  <2>1. g = m
    BY <1>1, <1>2, <1>3, <1>4, <1>7
  <2> QED BY <1>2, <2>1
<1> QED BY <1>5, <1>6, <1>7 DEF AfterHandle

-----------------------------------------------------------------------------
(* A window in a log: all its lines together from the end that its append  *)
(* found, the first unreadable if that end was torn.  The second record of *)
(* a window in the endpoint log is never the one that meets a torn line.   *)
WholeIn(f, path, w, found) ==
  \A n \in 1 .. Count[path] :
    /\ IsPlace(f, found.at, found.from + n)
    /\ At(f, found.at, found.from + n) =
         IF n = 1 /\ found.torn THEN Unreadable ELSE Line(Rec(w, n))
FoundAt(f, h, found) ==
  found.at = h /\ found.from = Len(f[h].lines) /\ found.torn = f[h].torn
Second(f, w) == \E g, i : IsPlace(f, g, i) /\ At(f, g, i) = Line(Rec(w, 2))

Keeps(f, f2) ==
  /\ f \in Seq(FileType) /\ f2 \in Seq(FileType)
  /\ \A g, i : IsPlace(f, g, i) => IsPlace(f2, g, i) /\ At(f2, g, i) = At(f, g, i)

LEMMA StillWhole ==
  ASSUME NEW f, NEW f2, NEW path, NEW w, NEW found,
         Keeps(f, f2), WholeIn(f, path, w, found)
  PROVE  WholeIn(f2, path, w, found)
BY DEF Keeps, WholeIn

LEMMA StillSecond ==
  ASSUME NEW f, NEW f2, NEW w, Keeps(f, f2), Second(f, w)
  PROVE  Second(f2, w)
BY DEF Keeps, Second

LEMMA WrittenWhole ==
  ASSUME NEW f \in Seq(FileType), NEW f2, NEW h, NEW w \in Nat, NEW torn,
         NEW path \in Path, NEW found,
         Grows(f, f2, h, Count[path], w, torn), FoundAt(f, h, found)
  PROVE  /\ WholeIn(f2, path, w, found)
         /\ path = "detail" => Second(f2, w)
<1>1. PICK c, l : c = Count[path] /\ l = Len(f[h].lines)
  OBVIOUS
<1>2. c \in {1, 2}
  BY <1>1, RecordsShape
<1>3. /\ Len(f) \in Nat /\ h \in 1 .. Len(f) /\ Len(f2) = Len(f) /\ l \in Nat
      /\ Len(f2[h].lines) = l + c
      /\ \A n \in 1 .. c : f2[h].lines[l + n] =
           IF n = 1 /\ f[h].torn THEN Unreadable ELSE Line(Rec(w, n))
  BY <1>1, FilesShape DEF Grows
<1>4. \A n \in 1 .. c : IsPlace(f2, h, l + n)
  BY <1>2, <1>3 DEF IsPlace
<1>5. WholeIn(f2, path, w, found)
  <2>1. found.at = h /\ found.from = l /\ found.torn = f[h].torn
    BY <1>1 DEF FoundAt
  <2> QED BY <1>1, <1>3, <1>4, <2>1 DEF WholeIn, At
<1>6. ASSUME path = "detail" PROVE Second(f2, w)
  <2>1. c = 2
    BY <1>1, <1>6 DEF Count
  <2>2. At(f2, h, l + 2) = Line(Rec(w, 2)) /\ IsPlace(f2, h, l + 2)
    BY <1>3, <1>4, <2>1 DEF At
  <2> QED BY <2>2 DEF Second
<1> QED BY <1>5, <1>6

IsExtended(new, file, records, torn) == new = Extended(file, records, torn)
Replaces(f, f2, h, new) == f2 = [f EXCEPT ![h] = new]

LEMMA ExtendedGrows ==
  ASSUME NEW f \in Seq(FileType), NEW f2, NEW h \in 1 .. Len(f), NEW new, NEW w,
         NEW records \in Seq(Record), NEW torn \in BOOLEAN,
         \A n \in 1 .. Len(records) : records[n] = Rec(w, n),
         IsExtended(new, f[h], records, torn), Replaces(f, f2, h, new)
  PROVE  Grows(f, f2, h, Len(records), w, torn)
<1>1. f[h] \in FileType /\ f[h].torn \in BOOLEAN /\ Len(f) \in Nat /\ Len(records) \in Nat
  BY FilesShape
<1>2. /\ Adds(f[h], new, records)
      /\ records # <<>> => new.torn = torn
      /\ records = <<>> => new.torn = (f[h].torn \/ torn)
  BY <1>1, ExtendedAdds DEF IsExtended
<1>3. /\ f2 \in Seq(FileType) /\ Len(f2) = Len(f) /\ f2[h] = new
      /\ \A g \in 1 .. Len(f) : g # h => f2[g] = f[g]
  <2>1. new \in FileType
    BY <1>2 DEF Adds
  <2> QED BY <2>1 DEF Replaces
<1>4. records = <<>> <=> Len(records) = 0
  OBVIOUS
<1>5. \A n \in 1 .. Len(records) : new.lines[Len(f[h].lines) + n] =
        IF n = 1 /\ f[h].torn THEN Unreadable ELSE Line(Rec(w, n))
  BY <1>2 DEF Adds
<1>6. /\ Len(new.lines) = Len(f[h].lines) + Len(records)
      /\ \A i \in 1 .. Len(f[h].lines) : new.lines[i] = f[h].lines[i]
  BY <1>2 DEF Adds
<1> QED BY <1>2, <1>3, <1>4, <1>5, <1>6 DEF Grows

-----------------------------------------------------------------------------
(* The inductive invariant.  While a window is not yet in a log, the log   *)
(* ends with an earlier one; the per-IP log has only windows whose second  *)
(* record is in the endpoint log.                                          *)
ToWrite == [detail |-> {"open_detail", "write_detail"},
            ip |-> {"open_detail", "write_detail", "open_ip", "write_ip"}]
Latest(path) == IF pc \in ToWrite[path] THEN window - 1 ELSE window

TypeInv ==
  /\ files \in [Path -> Seq(FileType)] /\ rotated \in [Path -> Seq(Nat)]
  /\ pc \in {"down", "recv", "open_detail", "write_detail", "open_ip", "write_ip"}
  /\ window \in Nat /\ window <= MaxWindows
  /\ failures \in Nat /\ acked \subseteq 1 .. window
  /\ pc \in ToWrite["ip"] => window > 0 /\ window \notin acked

OpenedInv ==
  opened \in [Path -> [1 .. MaxWindows -> [at : Nat, from : Nat, torn : BOOLEAN]]]
LogsInv ==
  \A path \in Path : LogInv(files[path], rotated[path], Latest(path), window, failures)
HandleInv ==
  \A path \in Path :
    pc = WriteAt[path] => AfterHandle(files[path], rotated[path], handle, window)
FoundInv ==
  \A path \in Path :
    pc = WriteAt[path] => FoundAt(files[path], handle, opened[path][window])
FollowedInv ==
  \A g, i : Readable(files["ip"], g, i) =>
    Second(files["detail"], WindowAt(files["ip"], g, i))
BetweenInv ==
  pc \in {"open_ip", "write_ip"} =>
    /\ Second(files["detail"], window)
    /\ WholeIn(files["detail"], "detail", window, opened["detail"][window])
AckedInv ==
  \A path \in Path, w \in acked : WholeIn(files[path], path, w, opened[path][w])

IInv ==
  /\ TypeInv /\ OpenedInv /\ LogsInv /\ HandleInv /\ FoundInv
  /\ FollowedInv /\ BetweenInv /\ AckedInv

LEMMA Constants ==
  /\ Path = {"detail", "ip"}
  /\ OpenAt["detail"] = "open_detail" /\ OpenAt["ip"] = "open_ip"
  /\ WriteAt["detail"] = "write_detail" /\ WriteAt["ip"] = "write_ip"
  /\ ToWrite["detail"] = {"open_detail", "write_detail"}
  /\ ToWrite["ip"] = {"open_detail", "write_detail", "open_ip", "write_ip"}
BY DEF Path, OpenAt, WriteAt, ToWrite

LEMMA LatestFacts ==
  ASSUME TypeInv
  PROVE  \A path \in Path : Latest(path) \in Nat /\ Latest(path) <= window
<1>1. ASSUME NEW path \in Path PROVE pc \in ToWrite[path] => window > 0
  BY Constants DEF TypeInv
<1> QED BY <1>1 DEF Latest, TypeInv

LEMMA LatestNext ==
  ASSUME TypeInv'
  PROVE  \A path \in Path : Latest(path)' \in Nat
<1>1. window' \in Nat /\ (pc' \in ToWrite["ip"] => window' > 0)
  BY DEF TypeInv
<1>2. ASSUME NEW path \in Path PROVE pc' \in ToWrite[path] => window' > 0
  BY <1>1, Constants
<1>3. ASSUME NEW path \in Path PROVE Latest(path)' = IF pc' \in ToWrite[path] THEN window' - 1 ELSE window'
  BY DEF Latest, ToWrite
<1>4. ASSUME NEW path \in Path PROVE Latest(path)' \in Nat
  <2>1. CASE pc' \in ToWrite[path]
    BY <1>1, <1>2, <1>3, <2>1
  <2>2. CASE pc' \notin ToWrite[path]
    BY <1>1, <1>3, <2>2
  <2> QED BY <2>1, <2>2
<1> QED BY <1>4

LEMMA FoundType ==
  ASSUME NEW path, files[path] \in Seq(FileType), Len(files[path]) > 0
  PROVE  Found(path) \in [at : Nat, from : Nat, torn : BOOLEAN]
<1>1. PICK f : f = files[path]
  OBVIOUS
<1>2. Len(f) \in Nat /\ Len(f) \in 1 .. Len(f)
  BY <1>1
<1>3. Len(f[Len(f)].lines) \in Nat /\ f[Len(f)].torn \in BOOLEAN
  BY <1>1, <1>2, FilesShape
<1> QED BY <1>1, <1>2, <1>3 DEF Found, Last

LEMMA InitHolds == Init => IInv
<1> SUFFICES ASSUME Init PROVE IInv
  OBVIOUS
<1>1. PICK f, r : f = <<EmptyFile>> /\ r = <<>>
  OBVIOUS
<1>2. files = [path \in Path |-> f] /\ rotated = [path \in Path |-> r]
  BY <1>1 DEF Init
<1>3. /\ f \in Seq(FileType) /\ Len(f) = 1 /\ f[1] = EmptyFile
      /\ r \in Seq(Nat) /\ Len(r) = 0
  BY <1>1, EmptyFileShape
<1>4. \A path \in Path : files[path] = f /\ rotated[path] = r
  BY <1>2
<1>5. pc = "down" /\ window = 0 /\ failures = 0 /\ acked = {}
  BY DEF Init
<1>6. TypeInv
  <2>1. window <= MaxWindows
    BY <1>5, LogFilesAssumption
  <2> QED BY <1>2, <1>3, <1>5, <2>1, Constants DEF TypeInv
<1>12. OpenedInv
  <2>1. ASSUME NEW path \in Path
        PROVE  Found(path) \in [at : Nat, from : Nat, torn : BOOLEAN]
    BY <1>3, <1>4, FoundType
  <2> QED BY <2>1 DEF Init, OpenedInv
<1>7. \A g, i : ~IsPlace(f, g, i)
  <2> SUFFICES ASSUME NEW g, NEW i, IsPlace(f, g, i) PROVE FALSE
    OBVIOUS
  <2>1. g = 1 /\ i \in 1 .. Len(f[g].lines)
    BY <1>3 DEF IsPlace
  <2> QED BY <1>3, <2>1, EmptyFileShape
<1>8. LogInv(f, r, 0, 0, 0)
  <2>1. Recent(f, 0) /\ Ordered(f) /\ Distinct(f)
    BY <1>7 DEF Recent, Ordered, Distinct, Readable
  <2>2. Damaged(f) = {}
    BY <1>3, <1>7, DamagedPlaces
  <2>3. Torn(f) = {}
    BY <1>3, EmptyFileShape, FilesShape DEF Torn
  <2>4. Bounded(f, 0)
    BY <2>2, <2>3, FS_EmptySet DEF Bounded
  <2>5. LeftAlone(f, r, 0)
    BY <1>3 DEF LeftAlone
  <2> QED BY <1>3, <2>1, <2>4, <2>5 DEF LogInv
<1>9. LogsInv
  <2>1. \A path \in Path : Latest(path) = 0
    BY <1>5, Constants DEF Latest
  <2> QED BY <1>4, <1>5, <1>8, <2>1 DEF LogsInv
<1>10. HandleInv /\ FoundInv /\ BetweenInv /\ AckedInv
  BY <1>5, Constants DEF HandleInv, FoundInv, BetweenInv, AckedInv
<1>11. FollowedInv
  BY <1>4, <1>7, Constants DEF FollowedInv, Readable
<1> QED BY <1>6, <1>9, <1>10, <1>11, <1>12 DEF IInv

\* Steps that leave the logs alone, and those that write or rotate one: what
\* was whole stays whole.
LEMMA KeepsItself == ASSUME NEW f \in Seq(FileType) PROVE Keeps(f, f)
BY DEF Keeps

\* What the appends of acknowledged windows found is not looked up again.
SameFound ==
  \A path \in Path, w \in acked : opened'[path][w] = opened[path][w]

LEMMA AckedStays ==
  ASSUME AckedInv, acked' = acked, SameFound,
         \A path \in Path : Keeps(files[path], files'[path])
  PROVE  AckedInv'
<1> SUFFICES ASSUME NEW path \in Path, NEW w \in acked
             PROVE  WholeIn(files'[path], path, w, opened'[path][w])
  BY DEF AckedInv
<1>1. WholeIn(files[path], path, w, opened[path][w]) /\ opened'[path][w] = opened[path][w]
  BY DEF AckedInv, SameFound
<1>2. Keeps(files[path], files'[path])
  OBVIOUS
<1> QED BY <1>1, <1>2, StillWhole

\* A step that changes only the writer's place, with no window lost.
LEMMA QuietStep ==
  ASSUME IInv, TypeInv', files' = files, rotated' = rotated, acked' = acked,
         failures' \in Nat, failures <= failures', window <= window',
         \A path \in Path : Latest(path) <= Latest(path)',
         OpenedInv', SameFound, HandleInv', FoundInv', BetweenInv'
  PROVE  IInv'
<1>1. /\ TypeInv /\ window \in Nat /\ window' \in Nat /\ failures \in Nat
      /\ \A path \in Path : files[path] \in Seq(FileType)
  BY DEF IInv, TypeInv
<1>2. LogsInv'
  <2> SUFFICES ASSUME NEW path \in Path
               PROVE  LogInv(files[path], rotated[path], Latest(path)', window', failures')
    BY DEF LogsInv
  <2>1. PICK f, r, a, b : /\ f = files[path] /\ r = rotated[path]
                          /\ a = Latest(path) /\ b = Latest(path)'
    OBVIOUS
  <2>2. a \in Nat /\ b \in Nat /\ a <= b
    <3>1. Latest(path)' \in Nat
      BY LatestNext
    <3> QED BY <1>1, <2>1, <3>1, LatestFacts
  <2>3. LogInv(f, r, a, window, failures)
    BY <2>1 DEF IInv, LogsInv
  <2>4. LogInv(f, r, b, window', failures')
    BY <1>1, <2>2, <2>3, Later
  <2> QED BY <2>1, <2>4
<1>3. FollowedInv'
  BY DEF IInv, FollowedInv
<1>4. AckedInv'
  BY <1>1, KeepsItself, AckedStays DEF IInv
<1> QED BY <1>2, <1>3, <1>4 DEF IInv

LEMMA StartStep == IInv /\ Start => IInv'
<1> SUFFICES ASSUME IInv, Start PROVE IInv'
  OBVIOUS
<1>1. /\ pc = "down" /\ pc' = "recv" /\ files' = files /\ window' = window
      /\ acked' = acked /\ failures' = failures /\ rotated' = rotated /\ opened' = opened
  BY DEF Start
<1>2. TypeInv /\ window \in Nat /\ failures \in Nat
  BY DEF IInv, TypeInv
<1>3. TypeInv'
  BY <1>1, <1>2, Constants DEF TypeInv
<1>4. \A path \in Path : Latest(path) <= Latest(path)'
  BY <1>1, <1>2, Constants DEF Latest
<1>5. HandleInv' /\ FoundInv' /\ BetweenInv' /\ SameFound /\ OpenedInv'
  BY <1>1, Constants DEF HandleInv, FoundInv, BetweenInv, SameFound, OpenedInv, IInv
<1> QED BY <1>1, <1>2, <1>3, <1>4, <1>5, QuietStep

LEMMA TakeWindowStep == IInv /\ TakeWindow => IInv'
<1> SUFFICES ASSUME IInv, TakeWindow PROVE IInv'
  OBVIOUS
<1>1. /\ pc = "recv" /\ pc' = "open_detail" /\ files' = files /\ window' = window + 1
      /\ acked' = acked /\ failures' = failures /\ rotated' = rotated /\ opened' = opened
      /\ window < MaxWindows
  BY DEF TakeWindow
<1>2. TypeInv /\ window \in Nat /\ failures \in Nat
  BY DEF IInv, TypeInv
<1>3. TypeInv'
  <2>1. acked \subseteq 1 .. window + 1 /\ window + 1 \notin acked
    BY <1>2 DEF TypeInv
  <2>2. window + 1 <= MaxWindows
    BY <1>1, <1>2, LogFilesAssumption
  <2> QED BY <1>1, <1>2, <2>1, <2>2, Constants DEF TypeInv
<1>4. \A path \in Path : Latest(path) <= Latest(path)'
  BY <1>1, <1>2, Constants DEF Latest
<1>5. HandleInv' /\ FoundInv' /\ BetweenInv' /\ SameFound /\ OpenedInv'
  BY <1>1, Constants DEF HandleInv, FoundInv, BetweenInv, SameFound, OpenedInv, IInv
<1> QED BY <1>1, <1>2, <1>3, <1>4, <1>5, QuietStep

LEMMA StoppedStep == IInv /\ Stopped => IInv'
<1> SUFFICES ASSUME IInv, Stopped PROVE IInv'
  OBVIOUS
<1>1. /\ pc' = "down" /\ files' = files /\ window' = window
      /\ acked' = acked /\ failures' = failures + 1 /\ rotated' = rotated /\ opened' = opened
  BY DEF Stopped
<1>2. TypeInv /\ window \in Nat /\ failures \in Nat
  BY DEF IInv, TypeInv
<1>3. TypeInv'
  BY <1>1, <1>2, Constants DEF TypeInv
<1>4. \A path \in Path : Latest(path) <= Latest(path)'
  <2>1. \A path \in Path : Latest(path)' = window
    BY <1>1, Constants DEF Latest
  <2> QED BY <1>2, <2>1, LatestFacts
<1>5. HandleInv' /\ FoundInv' /\ BetweenInv' /\ SameFound /\ OpenedInv'
  BY <1>1, Constants DEF HandleInv, FoundInv, BetweenInv, SameFound, OpenedInv, IInv
<1>6. failures' \in Nat /\ failures <= failures' /\ window <= window'
  BY <1>1, <1>2
<1> QED BY <1>1, <1>3, <1>4, <1>5, <1>6, QuietStep

LEMMA OpenStep == ASSUME NEW path \in Path PROVE IInv /\ Open(path) => IInv'
<1> SUFFICES ASSUME IInv, Open(path) PROVE IInv'
  OBVIOUS
<1>1. /\ pc = OpenAt[path] /\ pc' = WriteAt[path] /\ handle' = Len(files[path])
      /\ files' = files /\ window' = window
      /\ acked' = acked /\ failures' = failures /\ rotated' = rotated
      /\ opened' = [opened EXCEPT ![path][window] = Found(path)]
  BY DEF Open
<1>2. TypeInv /\ window \in Nat /\ failures \in Nat
  BY DEF IInv, TypeInv
<1>9. window \in 1 .. MaxWindows /\ window \notin acked
  BY <1>1, <1>2, LogFilesAssumption, Constants DEF TypeInv
<1>10. opened \in [Path -> [1 .. MaxWindows -> [at : Nat, from : Nat, torn : BOOLEAN]]]
  BY DEF IInv, OpenedInv
<1>11. /\ opened'[path][window] = Found(path)
       /\ \A p \in Path, w \in 1 .. MaxWindows :
            ~(p = path /\ w = window) => opened'[p][w] = opened[p][w]
  BY <1>1, <1>9, <1>10
<1>12. OpenedInv'
  <2>1. files[path] \in Seq(FileType) /\ rotated[path] \in Seq(Nat)
          /\ Len(files[path]) = Len(rotated[path]) + 1
    BY DEF IInv, LogsInv, LogInv
  <2>2. Found(path) \in [at : Nat, from : Nat, torn : BOOLEAN]
    BY <2>1, FoundType
  <2> QED BY <1>1, <1>9, <1>10, <2>2 DEF OpenedInv
<1>3. TypeInv'
  BY <1>1, <1>2, Constants DEF TypeInv
<1>13. SameFound
  <2>1. acked \subseteq 1 .. MaxWindows
    BY <1>2, LogFilesAssumption DEF TypeInv
  <2> QED BY <1>9, <1>11, <2>1 DEF SameFound
<1>14. FoundInv'
  <2> SUFFICES ASSUME NEW p \in Path, pc' = WriteAt[p]
               PROVE  FoundAt(files[p], handle', opened'[p][window])
    BY <1>1 DEF FoundInv
  <2>1. p = path
    BY <1>1, Constants
  <2> QED BY <1>1, <1>11, <2>1 DEF FoundAt, Found, Last
<1>4. \A p \in Path : Latest(p) = Latest(p)' /\ Latest(p) \in Nat
  BY <1>1, <1>2, LatestFacts, Constants DEF Latest
<1>5. HandleInv'
  <2> SUFFICES ASSUME NEW p \in Path, pc' = WriteAt[p]
               PROVE  AfterHandle(files[p], rotated[p], handle', window)
    BY <1>1 DEF HandleInv
  <2>1. p = path
    BY <1>1, Constants
  <2>2. /\ files[p] \in Seq(FileType) /\ rotated[p] \in Seq(Nat)
        /\ Len(files[p]) = Len(rotated[p]) + 1
    BY DEF IInv, LogsInv, LogInv
  <2>3. PICK f, r : f = files[p] /\ r = rotated[p]
    OBVIOUS
  <2>4. AfterHandle(f, r, Len(f), window)
    BY <2>2, <2>3 DEF AfterHandle
  <2> QED BY <1>1, <2>1, <2>3, <2>4
<1>6. BetweenInv'
  <2> SUFFICES ASSUME pc' \in {"open_ip", "write_ip"}
               PROVE  /\ Second(files["detail"], window)
                      /\ WholeIn(files["detail"], "detail", window, opened'["detail"][window])
    BY <1>1 DEF BetweenInv
  <2>1. path = "ip" /\ pc = "open_ip"
    BY <1>1, Constants
  <2>2. opened'["detail"][window] = opened["detail"][window]
    BY <1>9, <1>11, <2>1, Constants
  <2> QED BY <2>1, <2>2 DEF IInv, BetweenInv
<1>7. failures' \in Nat /\ failures <= failures' /\ window <= window'
  BY <1>1, <1>2
<1>8. \A p \in Path : Latest(p) <= Latest(p)'
  BY <1>4
<1> QED BY <1>1, <1>3, <1>5, <1>6, <1>7, <1>8, <1>12, <1>13, <1>14, QuietStep

LEMMA GrownKeeps ==
  ASSUME NEW f \in Seq(FileType), NEW f2, NEW h, NEW k \in Nat, NEW w \in Nat,
         NEW torn, Grows(f, f2, h, k, w, torn)
  PROVE  Keeps(f, f2)
<1>1. KeepsAndAdds(f, f2, h, k, w)
  BY LinesOfGrown
<1>2. f2 \in Seq(FileType)
  BY DEF Grows
<1> QED BY <1>1, <1>2 DEF Keeps, KeepsAndAdds

LEMMA RotateStep == ASSUME NEW path \in Path PROVE IInv /\ Rotate(path) => IInv'
<1> SUFFICES ASSUME IInv, Rotate(path) PROVE IInv'
  OBVIOUS
<1>1. /\ files' = [files EXCEPT ![path] = Append(@, EmptyFile)]
      /\ rotated' = [rotated EXCEPT ![path] = Append(@, window)]
      /\ pc' = pc /\ window' = window /\ handle' = handle /\ acked' = acked
      /\ failures' = failures /\ opened' = opened
      /\ Last(files[path]) # EmptyFile
  BY DEF Rotate
<1>2. /\ TypeInv /\ window \in Nat /\ failures \in Nat
      /\ files \in [Path -> Seq(FileType)] /\ rotated \in [Path -> Seq(Nat)]
  BY DEF IInv, TypeInv
<1>3. PICK f, r, f2, r2, n, m :
        /\ f = files[path] /\ r = rotated[path] /\ f2 = files'[path] /\ r2 = rotated'[path]
        /\ n = Len(f) + 1 /\ m = Len(r) + 1
  OBVIOUS
<1>4. Appends(f, EmptyFile, f2, n) /\ Appends(r, window, r2, m)
  BY <1>1, <1>2, <1>3 DEF Appends
<1>5. f \in Seq(FileType) /\ r \in Seq(Nat) /\ f2 \in Seq(FileType) /\ r2 \in Seq(Nat)
  BY <1>2, <1>3, <1>4, EmptyFileShape DEF Appends
<1>6. \A p \in Path : p # path => files'[p] = files[p] /\ rotated'[p] = rotated[p]
  BY <1>1, <1>2
<1>7. files' \in [Path -> Seq(FileType)] /\ rotated' \in [Path -> Seq(Nat)]
  BY <1>1, <1>2, <1>3, <1>5
<1>8. TypeInv'
  BY <1>1, <1>2, <1>7 DEF TypeInv
<1>9. SameLines(f, f2)
  BY <1>4, <1>5, RotatedKeeps
<1>10. \A p \in Path : Keeps(files[p], files'[p])
  <2> SUFFICES ASSUME NEW p \in Path PROVE Keeps(files[p], files'[p])
    OBVIOUS
  <2>1. CASE p = path
    BY <1>3, <1>5, <1>9, <2>1 DEF Keeps, SameLines
  <2>2. CASE p # path
    BY <1>2, <1>6, <2>2, KeepsItself
  <2> QED BY <2>1, <2>2
<1>11. LogsInv'
  <2> SUFFICES ASSUME NEW p \in Path
               PROVE  LogInv(files'[p], rotated'[p], Latest(p), window, failures)
    BY <1>1 DEF LogsInv, Latest
  <2>1. LogInv(files[p], rotated[p], Latest(p), window, failures)
    BY DEF IInv, LogsInv
  <2>2. PICK a : a = Latest(p)
    OBVIOUS
  <2>3. a \in Nat /\ a <= window
    BY <1>2, <2>2, LatestFacts
  <2>4. CASE p = path
    <3>1. LogInv(f, r, a, window, failures)
      BY <1>3, <2>1, <2>2, <2>4
    <3>2. LogInv(f2, r2, a, window, failures)
      BY <1>2, <1>4, <2>3, <3>1, Rotated
    <3> QED BY <1>3, <2>2, <2>4, <3>2
  <2>5. CASE p # path
    BY <1>6, <2>1, <2>5
  <2> QED BY <2>4, <2>5
<1>12. HandleInv'
  <2> SUFFICES ASSUME NEW p \in Path, pc = WriteAt[p]
               PROVE  AfterHandle(files'[p], rotated'[p], handle, window)
    BY <1>1 DEF HandleInv
  <2>1. AfterHandle(files[p], rotated[p], handle, window)
    BY DEF IInv, HandleInv
  <2>2. CASE p = path
    <3>1. AfterHandle(f, r, handle, window)
      BY <1>3, <2>1, <2>2
    <3>2. Len(f) = Len(r) + 1
      BY <1>3 DEF IInv, LogsInv, LogInv
    <3>3. f[Len(f)] # EmptyFile
      BY <1>1, <1>3 DEF Last
    <3>4. AfterHandle(f2, r2, handle, window)
      BY <1>2, <1>4, <1>5, <3>1, <3>2, <3>3, RotatedUnder
    <3> QED BY <1>3, <2>2, <3>4
  <2>3. CASE p # path
    BY <1>6, <2>1, <2>3
  <2> QED BY <2>2, <2>3
<1>13. FollowedInv'
  <2> SUFFICES ASSUME NEW g, NEW i, Readable(files'["ip"], g, i)
               PROVE  Second(files'["detail"], WindowAt(files'["ip"], g, i))
    BY DEF FollowedInv
  <2>1. Readable(files["ip"], g, i) /\ WindowAt(files'["ip"], g, i) = WindowAt(files["ip"], g, i)
    <3>1. CASE path = "ip"
      BY <1>3, <1>9, <3>1 DEF SameLines, Readable, WindowAt
    <3>2. CASE path # "ip"
      BY <1>6, <3>2, Constants
    <3> QED BY <3>1, <3>2
  <2>2. Second(files["detail"], WindowAt(files["ip"], g, i))
    BY <2>1 DEF IInv, FollowedInv
  <2>3. Keeps(files["detail"], files'["detail"])
    BY <1>10, Constants
  <2> QED BY <2>1, <2>2, <2>3, StillSecond
<1>14. BetweenInv'
  <2> SUFFICES ASSUME pc \in {"open_ip", "write_ip"}
               PROVE  /\ Second(files'["detail"], window)
                      /\ WholeIn(files'["detail"], "detail", window, opened["detail"][window])
    BY <1>1 DEF BetweenInv
  <2>1. /\ Second(files["detail"], window)
        /\ WholeIn(files["detail"], "detail", window, opened["detail"][window])
    BY DEF IInv, BetweenInv
  <2>2. Keeps(files["detail"], files'["detail"]) /\ "detail" \in Path
    BY <1>10, Constants
  <2>3. Second(files'["detail"], window)
    BY <2>1, <2>2, StillSecond
  <2>4. WholeIn(files'["detail"], "detail", window, opened["detail"][window])
    BY <2>1, <2>2, StillWhole
  <2> QED BY <2>3, <2>4
<1>15. AckedInv'
  <2>1. SameFound
    BY <1>1 DEF SameFound
  <2> QED BY <1>1, <1>10, <2>1, AckedStays DEF IInv
<1>17. OpenedInv'
  BY <1>1 DEF IInv, OpenedInv
<1>16. FoundInv'
  <2> SUFFICES ASSUME NEW p \in Path, pc = WriteAt[p]
               PROVE  FoundAt(files'[p], handle, opened[p][window])
    BY <1>1 DEF FoundInv
  <2>1. FoundAt(files[p], handle, opened[p][window]) /\ handle \in 1 .. Len(files[p])
    <3>1. AfterHandle(files[p], rotated[p], handle, window)
      BY DEF IInv, HandleInv
    <3> QED BY <3>1 DEF IInv, FoundInv, AfterHandle
  <2>2. files'[p][handle] = files[p][handle]
    <3>1. CASE p = path
      <4>1. \A g \in 1 .. Len(f) : f2[g] = f[g]
        BY <1>4, <1>5, EmptyFileShape, Appended1
      <4> QED BY <1>3, <2>1, <3>1, <4>1
    <3>2. CASE p # path
      BY <1>6, <3>2
    <3> QED BY <3>1, <3>2
  <2> QED BY <2>1, <2>2 DEF FoundAt
<1> QED BY <1>8, <1>11, <1>12, <1>13, <1>14, <1>15, <1>16, <1>17 DEF IInv

\* What a write does to the log it goes to, cut or not.
Wrote(path, k, torn) ==
  /\ pc = WriteAt[path] /\ files' \in [Path -> Seq(FileType)]
  /\ Grows(files[path], files'[path], handle, k, window, torn)
  /\ \A p \in Path : p # path => files'[p] = files[p]
  /\ rotated' = rotated /\ window' = window
  /\ failures' \in Nat /\ failures <= failures' /\ (torn => failures + 1 <= failures')

LEMMA WroteStep ==
  ASSUME NEW path \in Path, NEW k \in Nat, NEW torn \in BOOLEAN, IInv, Wrote(path, k, torn)
  PROVE  /\ LogInv(files'[path], rotated[path], window, window, failures')
         /\ \A p \in Path : Keeps(files[p], files'[p])
         /\ \A p \in Path : p # path =>
              LogInv(files'[p], rotated[p], Latest(p), window, failures')
         /\ FollowedInv'
<1>1. /\ TypeInv /\ window \in Nat /\ failures \in Nat /\ failures' \in Nat
      /\ files \in [Path -> Seq(FileType)]
  BY DEF IInv, TypeInv, Wrote
<1>2. PICK f, r, f2 : f = files[path] /\ r = rotated[path] /\ f2 = files'[path]
  OBVIOUS
<1>3. /\ f \in Seq(FileType) /\ Grows(f, f2, handle, k, window, torn)
      /\ failures <= failures' /\ (torn => failures + 1 <= failures')
      /\ pc = WriteAt[path] /\ \A p \in Path : p # path => files'[p] = files[p]
  BY <1>1, <1>2 DEF Wrote
<1>4. Latest(path) = window - 1
  BY <1>3, Constants DEF Latest
<1>5. AfterHandle(f, r, handle, window) /\ LogInv(f, r, window - 1, window, failures)
  BY <1>2, <1>3, <1>4 DEF IInv, HandleInv, LogsInv
<1>6. LogInv(f2, r, window, window, failures')
  BY <1>1, <1>3, <1>5, Grown
<1>7. ASSUME NEW p \in Path PROVE Keeps(files[p], files'[p])
  <2>1. CASE p = path
    BY <1>1, <1>2, <1>3, <2>1, GrownKeeps
  <2>2. CASE p # path
    BY <1>1, <1>3, <2>2, KeepsItself
  <2> QED BY <2>1, <2>2
<1>8. ASSUME NEW p \in Path, p # path
      PROVE  LogInv(files'[p], rotated[p], Latest(p), window, failures')
  <2>1. PICK a, q, s : a = Latest(p) /\ q = files[p] /\ s = rotated[p]
    OBVIOUS
  <2>2. a \in Nat /\ a <= a /\ window <= window
    BY <1>1, <2>1, LatestFacts
  <2>3. LogInv(q, s, a, window, failures)
    BY <2>1 DEF IInv, LogsInv
  <2>4. LogInv(q, s, a, window, failures')
    BY <1>1, <1>3, <2>2, <2>3, Later
  <2> QED BY <1>3, <1>8, <2>1, <2>4
<1>9. FollowedInv'
  <2> SUFFICES ASSUME NEW g, NEW i, Readable(files'["ip"], g, i)
               PROVE  Second(files'["detail"], WindowAt(files'["ip"], g, i))
    BY DEF FollowedInv
  <2>1. \/ /\ Readable(files["ip"], g, i)
           /\ WindowAt(files'["ip"], g, i) = WindowAt(files["ip"], g, i)
        \/ path = "ip" /\ WindowAt(files'["ip"], g, i) = window
    <3>1. CASE path = "ip"
      <4>1. KeepsAndAdds(f, f2, handle, k, window)
        BY <1>1, <1>3, LinesOfGrown
      <4>2. Readable(f2, g, i) => \/ Readable(f, g, i) /\ WindowAt(f2, g, i) = WindowAt(f, g, i)
                                  \/ WindowAt(f2, g, i) = window
        BY <4>1 DEF KeepsAndAdds
      <4> QED BY <1>2, <3>1, <4>2
    <3>2. CASE path # "ip"
      BY <1>3, <3>2, Constants
    <3> QED BY <3>1, <3>2
  <2>2. Keeps(files["detail"], files'["detail"])
    BY <1>7, Constants
  <2>3. CASE /\ Readable(files["ip"], g, i)
             /\ WindowAt(files'["ip"], g, i) = WindowAt(files["ip"], g, i)
    <3>1. Second(files["detail"], WindowAt(files["ip"], g, i))
      BY <2>3 DEF IInv, FollowedInv
    <3> QED BY <2>2, <2>3, <3>1, StillSecond
  <2>4. CASE path = "ip" /\ WindowAt(files'["ip"], g, i) = window
    <3>1. pc = "write_ip"
      BY <1>3, <2>4, Constants
    <3>2. Second(files["detail"], window)
      BY <3>1 DEF IInv, BetweenInv
    <3> QED BY <2>2, <2>4, <3>2, StillSecond
  <2> QED BY <2>1, <2>3, <2>4
<1> QED BY <1>2, <1>6, <1>7, <1>8, <1>9

LEMMA WriteStep == ASSUME NEW path \in Path PROVE IInv /\ Write(path) => IInv'
<1> SUFFICES ASSUME IInv, Write(path) PROVE IInv'
  OBVIOUS
<1>1. PICK records : records = RecordsIn(path, window)
  OBVIOUS
<1>2. /\ pc = WriteAt[path] /\ window' = window /\ failures' = failures /\ rotated' = rotated
      /\ opened' = opened
      /\ pc' = IF path = "detail" THEN "open_ip" ELSE "recv"
      /\ acked' = IF path = "ip" THEN acked \cup {window} ELSE acked
      /\ files' = [files EXCEPT ![path][handle] = Appended(@, records)]
  BY <1>1 DEF Write
<1>3. /\ TypeInv /\ window \in Nat /\ failures \in Nat /\ acked \subseteq 1 .. window
      /\ files \in [Path -> Seq(FileType)] /\ rotated \in [Path -> Seq(Nat)]
  BY DEF IInv, TypeInv
<1>4. /\ records \in Seq(Record) /\ Len(records) = Count[path] /\ Count[path] \in {1, 2}
      /\ \A n \in 1 .. Len(records) : records[n] = Rec(window, n)
  BY <1>1, <1>3, RecordsShape
<1>5. PICK f, r, f2, new : /\ f = files[path] /\ r = rotated[path] /\ f2 = files'[path]
                           /\ new = Extended(f[handle], records, FALSE)
  OBVIOUS
<1>6. f \in Seq(FileType) /\ handle \in 1 .. Len(f)
  <2>1. AfterHandle(f, r, handle, window)
    BY <1>2, <1>5 DEF IInv, HandleInv
  <2> QED BY <1>3, <1>5, <2>1 DEF AfterHandle
<1>7. Grows(f, f2, handle, Len(records), window, FALSE)
  <2>1. records # <<>>
    BY <1>4
  <2>2. Appended(f[handle], records) = new
    BY <1>5, <2>1 DEF Appended
  <2>3. Replaces(f, f2, handle, new)
    BY <1>2, <1>3, <1>5, <1>6, <2>2 DEF Replaces
  <2>4. IsExtended(new, f[handle], records, FALSE)
    BY <1>5 DEF IsExtended
  <2> QED BY <1>4, <1>6, <2>3, <2>4, ExtendedGrows
<1>8. \A p \in Path : p # path => files'[p] = files[p]
  BY <1>2, <1>3
<1>9. files' \in [Path -> Seq(FileType)]
  <2>1. f2 \in Seq(FileType)
    BY <1>7 DEF Grows
  <2>2. files' = [files EXCEPT ![path] = f2]
    BY <1>2, <1>3, <1>5
  <2> QED BY <1>3, <2>1, <2>2
<1>10. Wrote(path, Count[path], FALSE)
  <2>1. PICK c, no : c = Count[path] /\ no = FALSE
    OBVIOUS
  <2>2. Grows(f, f2, handle, c, window, no)
    BY <1>4, <1>7, <2>1
  <2>3. failures' \in Nat /\ failures <= failures' /\ ~no
    BY <1>2, <1>3, <2>1
  <2>4. Wrote(path, c, no)
    BY <1>2, <1>5, <1>8, <1>9, <2>2, <2>3 DEF Wrote
  <2> QED BY <2>1, <2>4
<1>11. Count[path] \in Nat
  BY <1>4
<1>12. /\ LogInv(f2, r, window, window, failures')
       /\ \A p \in Path : Keeps(files[p], files'[p])
       /\ \A p \in Path : p # path => LogInv(files'[p], rotated[p], Latest(p), window, failures')
       /\ FollowedInv'
  BY <1>5, <1>10, <1>11, WroteStep
<1>13. TypeInv'
  <2>1. window > 0 /\ window \notin acked
    BY <1>2, <1>3, Constants DEF TypeInv
  <2>2. acked' \subseteq 1 .. window
    BY <1>2, <1>3, <2>1
  <2>3. pc' = "recv" \/ (pc' = "open_ip" /\ acked' = acked)
    BY <1>2, Constants
  <2> QED BY <1>2, <1>3, <1>9, <2>1, <2>2, <2>3, Constants DEF TypeInv
<1>14. LogsInv'
  <2> SUFFICES ASSUME NEW p \in Path
               PROVE  LogInv(files'[p], rotated[p], Latest(p)', window, failures')
    BY <1>2 DEF LogsInv
  <2>1. CASE p = path
    <3>1. Latest(p)' = window
      BY <1>2, <2>1, Constants DEF Latest
    <3> QED BY <1>5, <1>12, <2>1, <3>1
  <2>2. CASE p # path
    <3>1. Latest(p)' = Latest(p)
      BY <1>2, <2>2, Constants DEF Latest
    <3> QED BY <1>12, <2>2, <3>1
  <2> QED BY <2>1, <2>2
<1>15. HandleInv' /\ FoundInv' /\ OpenedInv'
  BY <1>2, Constants DEF HandleInv, FoundInv, OpenedInv, IInv
<1>16. /\ WholeIn(f2, path, window, opened[path][window])
       /\ path = "detail" => Second(f2, window)
  <2>1. FoundAt(f, handle, opened[path][window])
    BY <1>2, <1>5 DEF IInv, FoundInv
  <2>2. Grows(f, f2, handle, Count[path], window, FALSE)
    BY <1>4, <1>7
  <2> QED BY <1>3, <1>6, <2>1, <2>2, WrittenWhole
<1>17. BetweenInv'
  <2> SUFFICES ASSUME pc' \in {"open_ip", "write_ip"}
               PROVE  /\ Second(files'["detail"], window)
                      /\ WholeIn(files'["detail"], "detail", window, opened["detail"][window])
    BY <1>2 DEF BetweenInv
  <2>1. path = "detail"
    BY <1>2, Constants
  <2> QED BY <1>5, <1>16, <2>1
<1>18. AckedInv'
  <2> SUFFICES ASSUME NEW p \in Path, NEW w \in acked'
               PROVE  WholeIn(files'[p], p, w, opened[p][w])
    BY <1>2 DEF AckedInv
  <2>1. CASE w \in acked
    <3>1. WholeIn(files[p], p, w, opened[p][w])
      BY <2>1 DEF IInv, AckedInv
    <3>2. Keeps(files[p], files'[p])
      BY <1>12
    <3> QED BY <3>1, <3>2, StillWhole
  <2>2. CASE w \notin acked
    <3>1. path = "ip" /\ w = window
      BY <1>2, <2>2
    <3>2. CASE p = "ip"
      BY <1>5, <1>16, <3>1, <3>2
    <3>3. CASE p = "detail"
      <4>1. WholeIn(files["detail"], "detail", window, opened["detail"][window])
        BY <1>2, <3>1, Constants DEF IInv, BetweenInv
      <4>2. Keeps(files["detail"], files'["detail"]) /\ "detail" \in Path
        BY <1>12, Constants
      <4> QED BY <3>1, <3>3, <4>1, <4>2, StillWhole
    <3> QED BY <3>2, <3>3, Constants
  <2> QED BY <2>1, <2>2
<1> QED BY <1>12, <1>13, <1>14, <1>15, <1>17, <1>18 DEF IInv

LEMMA WriteCutStep == ASSUME NEW path \in Path PROVE IInv /\ WriteCut(path) => IInv'
<1> SUFFICES ASSUME IInv, WriteCut(path) PROVE IInv'
  OBVIOUS
<1>1. PICK all : all = RecordsIn(path, window)
  OBVIOUS
<1>2. /\ pc = WriteAt[path] /\ window' = window /\ failures' = failures + 1
      /\ rotated' = rotated /\ pc' = "down" /\ acked' = acked /\ opened' = opened
      /\ \E file \in PartlyAppended(files[path][handle], all) :
           files' = [files EXCEPT ![path][handle] = file]
  BY <1>1 DEF WriteCut
<1>3. /\ TypeInv /\ window \in Nat /\ failures \in Nat /\ acked \subseteq 1 .. window
      /\ files \in [Path -> Seq(FileType)] /\ rotated \in [Path -> Seq(Nat)]
  BY DEF IInv, TypeInv
<1>4. /\ all \in Seq(Record) /\ Len(all) \in {1, 2}
      /\ \A n \in 1 .. Len(all) : all[n] = Rec(window, n)
  BY <1>1, <1>3, RecordsShape
<1>5. PICK f, r, f2 : f = files[path] /\ r = rotated[path] /\ f2 = files'[path]
  OBVIOUS
<1>6. PICK new : /\ new \in PartlyAppended(f[handle], all)
                 /\ files' = [files EXCEPT ![path][handle] = new]
  BY <1>2, <1>5
<1>7. PICK k \in 0 .. Len(all) - 1, torn \in BOOLEAN :
        new = Extended(f[handle], SubSeq(all, 1, k), torn)
  BY <1>6 DEF PartlyAppended
<1>8. PICK records : records = SubSeq(all, 1, k)
  OBVIOUS
<1>9. /\ records \in Seq(Record) /\ Len(records) = k /\ k \in Nat
      /\ \A n \in 1 .. Len(records) : records[n] = Rec(window, n)
  BY <1>4, <1>7, <1>8
<1>10. f \in Seq(FileType) /\ handle \in 1 .. Len(f)
  <2>1. AfterHandle(f, r, handle, window)
    BY <1>2, <1>5 DEF IInv, HandleInv
  <2> QED BY <1>3, <1>5, <2>1 DEF AfterHandle
<1>11. Grows(f, f2, handle, k, window, torn)
  <2>1. Replaces(f, f2, handle, new)
    BY <1>3, <1>5, <1>6, <1>10 DEF Replaces
  <2>2. IsExtended(new, f[handle], records, torn)
    BY <1>7, <1>8 DEF IsExtended
  <2>3. Grows(f, f2, handle, Len(records), window, torn)
    BY <1>9, <1>10, <2>1, <2>2, ExtendedGrows
  <2> QED BY <1>9, <2>3
<1>12. \A p \in Path : p # path => files'[p] = files[p]
  BY <1>3, <1>6
<1>13. files' \in [Path -> Seq(FileType)]
  <2>1. f2 \in Seq(FileType)
    BY <1>11 DEF Grows
  <2>2. files' = [files EXCEPT ![path] = f2]
    BY <1>3, <1>5, <1>6
  <2> QED BY <1>3, <2>1, <2>2
<1>14. failures' \in Nat /\ failures <= failures' /\ failures + 1 <= failures'
  BY <1>2, <1>3
<1>15. Wrote(path, k, torn)
  BY <1>2, <1>5, <1>11, <1>12, <1>13, <1>14 DEF Wrote
<1>16. /\ LogInv(f2, r, window, window, failures')
       /\ \A p \in Path : Keeps(files[p], files'[p])
       /\ \A p \in Path : p # path => LogInv(files'[p], rotated[p], Latest(p), window, failures')
       /\ FollowedInv'
  BY <1>5, <1>9, <1>15, WroteStep
<1>17. TypeInv'
  BY <1>2, <1>3, <1>13, <1>14, Constants DEF TypeInv
<1>18. LogsInv'
  <2> SUFFICES ASSUME NEW p \in Path
               PROVE  LogInv(files'[p], rotated[p], window, window, failures')
    <3>1. \A p \in Path : Latest(p)' = window
      BY <1>2, Constants DEF Latest
    <3> QED BY <1>2, <3>1 DEF LogsInv
  <2>1. CASE p = path
    BY <1>5, <1>16, <2>1
  <2>2. CASE p # path
    <3>1. PICK g, s, a : g = files'[p] /\ s = rotated[p] /\ a = Latest(p)
      OBVIOUS
    <3>2. LogInv(g, s, a, window, failures')
      BY <1>16, <2>2, <3>1
    <3>3. a \in Nat /\ a <= window /\ window <= window /\ failures' <= failures'
      BY <1>3, <1>14, <3>1, LatestFacts
    <3>4. LogInv(g, s, window, window, failures')
      BY <1>3, <1>14, <3>2, <3>3, Later
    <3> QED BY <3>1, <3>4
  <2> QED BY <2>1, <2>2
<1>19. HandleInv' /\ FoundInv' /\ BetweenInv' /\ SameFound /\ OpenedInv'
  BY <1>2, Constants DEF HandleInv, FoundInv, BetweenInv, SameFound, OpenedInv, IInv
<1>20. AckedInv'
  BY <1>2, <1>16, <1>19, AckedStays DEF IInv
<1> QED BY <1>16, <1>17, <1>18, <1>19, <1>20 DEF IInv

(* Every step of the writer, of a failure and of the log rotation keeps    *)
(* the logs as IInv describes them (output.rs:13-28, 106-131).             *)
THEOREM LogsStaySound == Spec => []IInv
<1>1. Init => IInv
  BY InitHolds
<1>2. IInv /\ [Next]_vars => IInv'
  <2> SUFFICES ASSUME IInv, [Next]_vars PROVE IInv'
    OBVIOUS
  <2>1. CASE Start
    BY <2>1, StartStep
  <2>2. CASE TakeWindow
    BY <2>2, TakeWindowStep
  <2>3. CASE Stopped
    BY <2>3, StoppedStep
  <2>4. ASSUME NEW path \in Path, Open(path) PROVE IInv'
    BY <2>4, OpenStep
  <2>5. ASSUME NEW path \in Path, Write(path) PROVE IInv'
    BY <2>5, WriteStep
  <2>6. ASSUME NEW path \in Path, WriteCut(path) PROVE IInv'
    BY <2>6, WriteCutStep
  <2>7. ASSUME NEW path \in Path, Rotate(path) PROVE IInv'
    BY <2>7, RotateStep
  <2>8. CASE UNCHANGED vars
    <3>1. /\ files' = files /\ pc' = pc /\ window' = window /\ handle' = handle
          /\ acked' = acked /\ failures' = failures /\ rotated' = rotated /\ opened' = opened
      BY <2>8 DEF vars
    <3> QED BY <3>1 DEF IInv, TypeInv, OpenedInv, LogsInv, Latest, HandleInv, FoundInv, FollowedInv,
                        BetweenInv, AckedInv
  <2> QED BY <2>1, <2>2, <2>3, <2>4, <2>5, <2>6, <2>7, <2>8 DEF Next
<1> QED BY <1>1, <1>2, PTL DEF Spec

(* A window whose append returned Ok is where its append found the end of  *)
(* the file with the name, whole and in order, whatever fails, restarts or *)
(* is rotated later; its first record is lost only to a line that was torn *)
(* already (output.rs:106-131).                                            *)
THEOREM AckedWhole == Spec => []AckedWindowsAreWhole
<1>1. ASSUME IInv PROVE AckedWindowsAreWhole
  <2> SUFFICES ASSUME NEW path \in Path, NEW w \in acked
               PROVE  LET records == RecordsIn(path, w)
                          found == opened[path][w]
                          lines == files[path][found.at].lines IN
                      \A n \in DOMAIN records :
                        /\ found.from + n \in DOMAIN lines
                        /\ lines[found.from + n] =
                             IF n = 1 /\ found.torn THEN Unreadable ELSE Line(records[n])
    BY Zenon DEF AckedWindowsAreWhole
  <2>1. w \in Nat /\ files[path] \in Seq(FileType) /\ WholeIn(files[path], path, w, opened[path][w])
    BY <1>1 DEF IInv, TypeInv, AckedInv
  <2>2. PICK f, records, c, found :
          /\ f = files[path] /\ records = RecordsIn(path, w) /\ c = Count[path]
          /\ found = opened[path][w]
    OBVIOUS
  <2>3. /\ Len(records) = c /\ DOMAIN records = 1 .. c
        /\ \A n \in 1 .. c : records[n] = Rec(w, n)
    BY <2>1, <2>2, RecordsShape
  <2>4. \A n \in 1 .. c :
          /\ IsPlace(f, found.at, found.from + n)
          /\ At(f, found.at, found.from + n) =
               IF n = 1 /\ found.torn THEN Unreadable ELSE Line(Rec(w, n))
    BY <2>1, <2>2 DEF WholeIn
  <2>5. \A g \in 1 .. Len(f) : DOMAIN f[g].lines = 1 .. Len(f[g].lines)
    BY <2>1, <2>2, FilesShape
  <2>6. ASSUME NEW n \in DOMAIN records
        PROVE  /\ found.from + n \in DOMAIN f[found.at].lines
               /\ f[found.at].lines[found.from + n] =
                    IF n = 1 /\ found.torn THEN Unreadable ELSE Line(records[n])
    BY <2>3, <2>4, <2>5 DEF IsPlace, At
  <2> QED BY <2>2, <2>6
<1> QED BY LogsStaySound, <1>1, PTL

LEMMA PlacesAreAll == ASSUME NEW path PROVE Places(path) = AllPlaces(files[path])
BY DEF Places, AllPlaces

LEMMA PlaceOf ==
  ASSUME TypeInv, NEW path \in Path
  PROVE  \A p : p \in Places(path) <=> \E g, i : p = <<g, i>> /\ IsPlace(files[path], g, i)
<1>1. PICK f : f = files[path]
  OBVIOUS
<1>2. f \in Seq(FileType)
  BY <1>1 DEF TypeInv
<1>3. /\ DOMAIN f = 1 .. Len(f)
      /\ \A g \in 1 .. Len(f) : DOMAIN f[g].lines = 1 .. Len(f[g].lines)
  BY <1>2, FilesShape
<1>4. \A p : p \in AllPlaces(f) <=> \E g, i : p = <<g, i>> /\ IsPlace(f, g, i)
  BY <1>3 DEF AllPlaces, IsPlace
<1> QED BY <1>1, <1>4, PlacesAreAll

(* Rotation by rename and create: a renamed file gets nothing of a window  *)
(* that arrives after the renaming (output.rs:120-131).                    *)
THEOREM RotatedAlone == Spec => []RotatedFilesAreLeftAlone
<1>1. ASSUME IInv PROVE RotatedFilesAreLeftAlone
  <2> SUFFICES ASSUME NEW path \in Path, NEW p \in Places(path),
                      p[1] <= Len(rotated[path]), LineAt(path, p) # Unreadable
               PROVE  LineAt(path, p).record.window <= rotated[path][p[1]]
    BY DEF RotatedFilesAreLeftAlone
  <2>1. PICK f, r : f = files[path] /\ r = rotated[path]
    OBVIOUS
  <2>2. f \in Seq(FileType) /\ r \in Seq(Nat) /\ LeftAlone(f, r, window)
    BY <1>1, <2>1 DEF IInv, LogsInv, LogInv
  <2>3. PICK g, i : p = <<g, i>> /\ IsPlace(f, g, i)
    BY <1>1, <2>1, PlaceOf DEF IInv
  <2>4. p[1] = g /\ p[2] = i
    BY <2>3
  <2>5. LineAt(path, p) = At(f, g, i)
    BY <2>1, <2>4 DEF LineAt, At
  <2>6. Readable(f, g, i) /\ g \in 1 .. Len(r)
    BY <2>1, <2>2, <2>3, <2>4, <2>5 DEF Readable, IsPlace
  <2>7. WindowAt(f, g, i) <= r[g]
    BY <2>2, <2>6 DEF LeftAlone
  <2> QED BY <2>1, <2>4, <2>5, <2>7 DEF WindowAt
<1> QED BY LogsStaySound, <1>1, PTL

(* A failure costs a log at most one line, and what can be read of a log   *)
(* is in the order of the windows (output.rs:111-118).                     *)
THEOREM Damage == Spec => []DamageIsBounded
<1>1. ASSUME IInv PROVE DamageIsBounded
  <2> SUFFICES ASSUME NEW path \in Path
               PROVE  /\ Cardinality({p \in Places(path) : LineAt(path, p) = Unreadable})
                           + Cardinality({g \in DOMAIN files[path] : files[path][g].torn})
                             <= failures
                      /\ \A p, q \in {x \in Places(path) : LineAt(path, x) # Unreadable} :
                           p[1] < q[1] \/ (p[1] = q[1] /\ p[2] < q[2]) =>
                             LineAt(path, p).record.window <= LineAt(path, q).record.window
    BY Zenon DEF DamageIsBounded
  <2>1. PICK f : f = files[path]
    OBVIOUS
  <2>2. f \in Seq(FileType) /\ Bounded(f, failures) /\ Ordered(f)
    BY <1>1, <2>1 DEF IInv, LogsInv, LogInv
  <2>3. {p \in Places(path) : LineAt(path, p) = Unreadable} = Damaged(f)
    BY <2>1, PlacesAreAll DEF Damaged, LineAt
  <2>4. {g \in DOMAIN files[path] : files[path][g].torn} = Torn(f)
    BY <2>1 DEF Torn
  <2>5. ASSUME NEW p \in Places(path), NEW q \in Places(path),
               LineAt(path, p) # Unreadable, LineAt(path, q) # Unreadable,
               p[1] < q[1] \/ (p[1] = q[1] /\ p[2] < q[2])
        PROVE  LineAt(path, p).record.window <= LineAt(path, q).record.window
    <3>1. PICK g, i : p = <<g, i>> /\ IsPlace(f, g, i)
      BY <1>1, <2>1, PlaceOf DEF IInv
    <3>2. PICK h, j : q = <<h, j>> /\ IsPlace(f, h, j)
      BY <1>1, <2>1, PlaceOf DEF IInv
    <3>3. p[1] = g /\ p[2] = i /\ q[1] = h /\ q[2] = j
      BY <3>1, <3>2
    <3>4. LineAt(path, p) = At(f, g, i) /\ LineAt(path, q) = At(f, h, j)
      BY <2>1, <3>3 DEF LineAt, At
    <3>5. Readable(f, g, i) /\ Readable(f, h, j) /\ (g < h \/ (g = h /\ i < j))
      BY <2>5, <3>1, <3>2, <3>3, <3>4 DEF Readable
    <3>6. WindowAt(f, g, i) <= WindowAt(f, h, j)
      BY <2>2, <3>5 DEF Ordered
    <3> QED BY <3>4, <3>6 DEF WindowAt
  <2> QED BY <2>2, <2>3, <2>4, <2>5 DEF Bounded
<1> QED BY LogsStaySound, <1>1, PTL

(* No record is in a log twice, and the per-IP log has no window that the  *)
(* endpoint log has not to its second record (output.rs:106-109).          *)
THEOREM AppearOnce == Spec => []RecordsAppearOnce
<1>1. ASSUME IInv PROVE RecordsAppearOnce
  <2>1. ASSUME NEW path \in Path, NEW record
        PROVE  Cardinality(PlacesOf(path, record)) <= 1
    <3>1. PICK f : f = files[path]
      OBVIOUS
    <3>2. Distinct(f)
      BY <1>1, <3>1 DEF IInv, LogsInv, LogInv
    <3>3. ASSUME NEW p \in PlacesOf(path, record), NEW q \in PlacesOf(path, record)
          PROVE  p = q
      <4>1. p \in Places(path) /\ q \in Places(path)
            /\ LineAt(path, p) = Line(record) /\ LineAt(path, q) = Line(record)
        BY DEF PlacesOf
      <4>2. PICK g, i : p = <<g, i>> /\ IsPlace(f, g, i)
        BY <1>1, <3>1, <4>1, PlaceOf DEF IInv
      <4>3. PICK h, j : q = <<h, j>> /\ IsPlace(f, h, j)
        BY <1>1, <3>1, <4>1, PlaceOf DEF IInv
      <4>4. At(f, g, i) = Line(record) /\ At(f, h, j) = Line(record)
        BY <3>1, <4>1, <4>2, <4>3 DEF LineAt, At
      <4>5. Readable(f, g, i) /\ Readable(f, h, j)
        BY <4>2, <4>3, <4>4, Lines DEF Readable
      <4>6. g = h /\ i = j
        BY <3>2, <4>4, <4>5 DEF Distinct
      <4> QED BY <4>2, <4>3, <4>6
    <3>4. CASE PlacesOf(path, record) = {}
      BY <3>4, FS_EmptySet
    <3>5. ASSUME NEW p \in PlacesOf(path, record) PROVE PlacesOf(path, record) = {p}
      BY <3>3
    <3>6. \A p : Cardinality({p}) = 1
      BY FS_Singleton
    <3> QED BY <3>4, <3>5, <3>6
  <2>2. ASSUME NEW w \in 1 .. window, PlacesOf("ip", RecordsIn("ip", w)[1]) # {}
        PROVE  PlacesOf("detail", RecordsIn("detail", w)[2]) # {}
    <3>1. /\ "ip" \in Path /\ "detail" \in Path /\ w \in Nat /\ TypeInv
          /\ files["ip"] \in Seq(FileType)
      BY <1>1, Constants DEF IInv, TypeInv
    <3>2. RecordsIn("ip", w)[1] = Rec(w, 1) /\ RecordsIn("detail", w)[2] = Rec(w, 2)
      <4>1. Count["ip"] = 1 /\ Count["detail"] = 2
        BY DEF Count
      <4>2. \A path \in Path : \A n \in 1 .. Count[path] : RecordsIn(path, w)[n] = Rec(w, n)
        BY <3>1, RecordsShape
      <4>3. RecordsIn("ip", w)[1] = Rec(w, 1)
        BY <3>1, <4>1, <4>2
      <4>4. RecordsIn("detail", w)[2] = Rec(w, 2)
        BY <3>1, <4>1, <4>2
      <4> QED BY <4>3, <4>4
    <3>3. PICK p \in Places("ip") : LineAt("ip", p) = Line(Rec(w, 1))
      BY <2>2, <3>2 DEF PlacesOf
    <3>4. PICK g, i : p = <<g, i>> /\ IsPlace(files["ip"], g, i)
      BY <3>1, PlaceOf
    <3>5. At(files["ip"], g, i) = Line(Rec(w, 1))
      BY <3>3, <3>4 DEF LineAt, At
    <3>6. Readable(files["ip"], g, i)
      BY <3>4, <3>5, Lines DEF Readable
    <3>7. WindowAt(files["ip"], g, i) = w
      BY <3>5, Lines, Records DEF WindowAt
    <3>8. Second(files["detail"], w)
      BY <1>1, <3>6, <3>7 DEF IInv, FollowedInv
    <3>9. PICK h, j : IsPlace(files["detail"], h, j) /\ At(files["detail"], h, j) = Line(Rec(w, 2))
      BY <3>8 DEF Second
    <3>10. <<h, j>> \in Places("detail")
      BY <3>1, <3>9, PlaceOf
    <3>11. LineAt("detail", <<h, j>>) = Line(Rec(w, 2))
      BY <3>9 DEF LineAt, At
    <3> QED BY <3>2, <3>10, <3>11 DEF PlacesOf
  <2> QED BY <2>1, <2>2 DEF RecordsAppearOnce
<1> QED BY LogsStaySound, <1>1, PTL
=============================================================================
