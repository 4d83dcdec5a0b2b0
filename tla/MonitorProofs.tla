--------------------------- MODULE MonitorProofs ---------------------------
(***************************************************************************)
(* Proofs about Monitor.tla, for every traffic, every capacity of the two  *)
(* queues and every set of faults: what is in the two logs at any moment,  *)
(* and what the exit of the process says about them.                       *)
(***************************************************************************)
EXTENDS Monitor, FiniteSetTheorems, TLAPS

(* A set of numbers that holds 0 and goes on holds them all.               *)
LEMMA AllNumbers ==
  ASSUME NEW T, 0 \in T, \A n \in Nat : n \in T => n + 1 \in T
  PROVE  \A n \in Nat : n \in T
<1> SUFFICES ASSUME Nat \ T # {} PROVE FALSE
  OBVIOUS
<1>1. \E x \in Nat \ T : \A y \in Nat \ T : ~ (<<y, x>> \in OpToRel(<, Nat))
  BY WFMin, NatLessThanWellFounded
<1>2. PICK x \in Nat \ T : \A y \in Nat \ T : ~ (y < x)
  BY <1>1 DEF OpToRel
<1>3. x - 1 \in Nat /\ x - 1 < x /\ (x - 1) + 1 = x
  BY <1>2
<1> QED BY <1>2, <1>3

-----------------------------------------------------------------------------
(* Sequences of anything: a log, a window and the events are sequences     *)
(* whatever their elements are.                                            *)

IsSequence(s) == s \in Seq({s[i] : i \in DOMAIN s})

LEMMA SequenceOf ==
  ASSUME NEW S, NEW s \in Seq(S)
  PROVE  IsSequence(s)
BY DEF IsSequence

LEMMA SequenceFacts ==
  ASSUME NEW s, IsSequence(s)
  PROVE  /\ Len(s) \in Nat
         /\ DOMAIN s = 1 .. Len(s)
         /\ s = [i \in 1 .. Len(s) |-> s[i]]
         /\ s = <<>> <=> Len(s) = 0
BY DEF IsSequence

LEMMA FunctionIsSequence ==
  ASSUME NEW s, NEW n \in Nat, DOMAIN s = 1 .. n, s = [i \in 1 .. n |-> s[i]]
  PROVE  IsSequence(s) /\ Len(s) = n
<1>1. s \in Seq({s[i] : i \in DOMAIN s})
  OBVIOUS
<1> QED BY <1>1 DEF IsSequence

LEMMA EqualSequences ==
  ASSUME NEW s, NEW t, IsSequence(s), IsSequence(t), Len(s) = Len(t),
         \A i \in 1 .. Len(s) : s[i] = t[i]
  PROVE  s = t
BY SequenceFacts

LEMMA AppendSequence ==
  ASSUME NEW s, IsSequence(s), NEW e
  PROVE  /\ IsSequence(Append(s, e))
         /\ Len(Append(s, e)) = Len(s) + 1
         /\ \A i \in 1 .. Len(s) : Append(s, e)[i] = s[i]
         /\ Append(s, e)[Len(s) + 1] = e
<1> DEFINE X == {s[i] : i \in DOMAIN s} \cup {e}
<1>1. s \in Seq(X) /\ e \in X
  BY DEF IsSequence
<1> HIDE DEF X
<1>2. Append(s, e) \in Seq(X)
  BY <1>1
<1>3. IsSequence(Append(s, e))
  BY <1>2, SequenceOf
<1> QED BY <1>1, <1>2, <1>3

LEMMA ConcatSequence ==
  ASSUME NEW s, NEW t, IsSequence(s), IsSequence(t)
  PROVE  /\ IsSequence(s \o t)
         /\ Len(s \o t) = Len(s) + Len(t)
         /\ \A i \in 1 .. Len(s) : (s \o t)[i] = s[i]
         /\ \A i \in 1 .. Len(t) : (s \o t)[Len(s) + i] = t[i]
<1> DEFINE X == {s[i] : i \in DOMAIN s} \cup {t[i] : i \in DOMAIN t}
<1>1. s \in Seq(X) /\ t \in Seq(X)
  BY DEF IsSequence
<1> HIDE DEF X
<1>2. s \o t \in Seq(X)
  BY <1>1
<1>3. IsSequence(s \o t)
  BY <1>2, SequenceOf
<1> QED BY <1>1, <1>2, <1>3

LEMMA SubSequence ==
  ASSUME NEW s, IsSequence(s), NEW n \in 0 .. Len(s)
  PROVE  /\ IsSequence(SubSeq(s, 1, n))
         /\ Len(SubSeq(s, 1, n)) = n
         /\ \A i \in 1 .. n : SubSeq(s, 1, n)[i] = s[i]
<1> DEFINE X == {s[i] : i \in DOMAIN s}
<1>1. s \in Seq(X)
  BY DEF IsSequence
<1> HIDE DEF X
<1>2. SubSeq(s, 1, n) \in Seq(X)
  BY <1>1
<1>3. IsSequence(SubSeq(s, 1, n))
  BY <1>2, SequenceOf
<1> QED BY <1>1, <1>2, <1>3

LEMMA TailSequence ==
  ASSUME NEW s, IsSequence(s), s # <<>>
  PROVE  /\ IsSequence(Tail(s))
         /\ Len(Tail(s)) = Len(s) - 1
         /\ Head(s) = s[1]
         /\ \A i \in 1 .. Len(Tail(s)) : Tail(s)[i] = s[i + 1]
<1> DEFINE X == {s[i] : i \in DOMAIN s}
<1>1. s \in Seq(X)
  BY DEF IsSequence
<1> HIDE DEF X
<1>2. Tail(s) \in Seq(X)
  BY <1>1
<1>3. IsSequence(Tail(s))
  BY <1>2, SequenceOf
<1> QED BY <1>1, <1>2, <1>3

LEMMA EmptySequence == IsSequence(<<>>) /\ Len(<<>>) = 0
BY DEF IsSequence

(* The beginning of a sequence, one element longer.                        *)
LEMMA BeginningGrows ==
  ASSUME NEW s, IsSequence(s), NEW n \in 0 .. Len(s) - 1
  PROVE  SubSeq(s, 1, n + 1) = Append(SubSeq(s, 1, n), s[n + 1])
<1>1. Len(s) \in Nat /\ n \in 0 .. Len(s) /\ n + 1 \in 0 .. Len(s) /\ n \in Nat
  BY SequenceFacts
<1>2. /\ IsSequence(SubSeq(s, 1, n)) /\ Len(SubSeq(s, 1, n)) = n
      /\ \A i \in 1 .. n : SubSeq(s, 1, n)[i] = s[i]
  BY <1>1, SubSequence
<1>3. /\ IsSequence(SubSeq(s, 1, n + 1)) /\ Len(SubSeq(s, 1, n + 1)) = n + 1
      /\ \A i \in 1 .. n + 1 : SubSeq(s, 1, n + 1)[i] = s[i]
  BY <1>1, SubSequence
<1> DEFINE a == SubSeq(s, 1, n)  b == SubSeq(s, 1, n + 1)
<1> HIDE DEF a, b
<1>4. /\ IsSequence(Append(a, s[n + 1])) /\ Len(Append(a, s[n + 1])) = n + 1
      /\ \A i \in 1 .. n : Append(a, s[n + 1])[i] = s[i]
      /\ Append(a, s[n + 1])[n + 1] = s[n + 1]
  BY <1>2, AppendSequence DEF a
<1>5. IsSequence(b) /\ Len(b) = n + 1 /\ \A i \in 1 .. n + 1 : b[i] = s[i]
  BY <1>3 DEF b
<1>6. \A i \in 1 .. n + 1 : b[i] = Append(a, s[n + 1])[i]
  BY <1>1, <1>4, <1>5
<1> QED BY <1>4, <1>5, <1>6, EqualSequences DEF a, b

(* Beginnings do not see what is appended.                                 *)
LEMMA BeginningStays ==
  ASSUME NEW s, IsSequence(s), NEW e, NEW n \in 0 .. Len(s)
  PROVE  SubSeq(Append(s, e), 1, n) = SubSeq(s, 1, n)
<1>1. /\ Len(s) \in Nat /\ n \in Nat
      /\ IsSequence(Append(s, e)) /\ Len(Append(s, e)) = Len(s) + 1
      /\ \A i \in 1 .. Len(s) : Append(s, e)[i] = s[i]
  BY SequenceFacts, AppendSequence
<1> DEFINE t == Append(s, e)  a == SubSeq(s, 1, n)  b == SubSeq(t, 1, n)
<1> HIDE DEF t
<1>2. IsSequence(a) /\ Len(a) = n /\ \A i \in 1 .. n : a[i] = s[i]
  BY SubSequence
<1>3. IsSequence(b) /\ Len(b) = n /\ \A i \in 1 .. n : b[i] = t[i]
  <2>1. IsSequence(t) /\ n \in 0 .. Len(t)
    BY <1>1 DEF t
  <2> QED BY <2>1, SubSequence
<1> HIDE DEF a, b
<1>4. \A i \in 1 .. n : a[i] = b[i]
  BY <1>1, <1>2, <1>3 DEF t
<1>5. a = b
  BY <1>2, <1>3, <1>4, EqualSequences
<1> QED BY <1>5 DEF a, b, t

LEMMA WholeSequence ==
  ASSUME NEW s, IsSequence(s)
  PROVE  SubSeq(s, 1, Len(s)) = s
<1>1. Len(s) \in 0 .. Len(s)
  BY SequenceFacts
<1> DEFINE a == SubSeq(s, 1, Len(s))
<1>2. IsSequence(a) /\ Len(a) = Len(s) /\ \A i \in 1 .. Len(s) : a[i] = s[i]
  BY <1>1, SubSequence
<1> HIDE DEF a
<1>3. a = s
  BY <1>2, EqualSequences
<1> QED BY <1>3 DEF a

-----------------------------------------------------------------------------
(* The sequential run, one event at a time: nothing is assumed of what an  *)
(* event does to it.                                                       *)

Fresh == [agg |-> NewAggregator({}), windows |-> <<>>]

RunsOver(run, events, n) ==
  run = [i \in 0 .. n |-> IF i = 0 THEN Fresh ELSE Account(run[i - 1], events[i])]

LEMMA RunExists ==
  ASSUME NEW events
  PROVE  \A n \in Nat : \E run : RunsOver(run, events, n)
<1> DEFINE T == {n \in Nat : \E run : RunsOver(run, events, n)}
<1>1. 0 \in T
  <2> DEFINE f == [i \in 0 .. 0 |-> Fresh]
  <2>1. RunsOver(f, events, 0)
    <3>1. \A i \in 0 .. 0 : i = 0
      OBVIOUS
    <3>2. f = [i \in 0 .. 0 |-> IF i = 0 THEN Fresh ELSE Account(f[i - 1], events[i])]
      BY <3>1, Zenon
    <3> QED BY <3>2 DEF RunsOver
  <2> QED BY <2>1
<1>2. ASSUME NEW n \in Nat, n \in T PROVE n + 1 \in T
  <2>1. PICK f : RunsOver(f, events, n)
    BY <1>2
  <2> DEFINE g == [i \in 0 .. n + 1 |-> IF i = 0 THEN Fresh ELSE Account(f[i - 1], events[i])]
  <2>2. \A i \in 0 .. n : g[i] = f[i]
    <3> SUFFICES ASSUME NEW i \in 0 .. n PROVE g[i] = f[i]
      OBVIOUS
    <3>1. f[i] = IF i = 0 THEN Fresh ELSE Account(f[i - 1], events[i])
      BY <2>1 DEF RunsOver
    <3>2. i \in 0 .. n + 1
      OBVIOUS
    <3> QED BY <3>1, <3>2
  <2>3. \A i \in 0 .. n + 1 :
          g[i] = IF i = 0 THEN Fresh ELSE Account(g[i - 1], events[i])
    <3> SUFFICES ASSUME NEW i \in 0 .. n + 1
                 PROVE  g[i] = IF i = 0 THEN Fresh ELSE Account(g[i - 1], events[i])
      OBVIOUS
    <3>1. CASE i = 0
      BY <3>1
    <3>2. CASE i # 0
      <4>1. i - 1 \in 0 .. n
        BY <3>2
      <4>2. g[i - 1] = f[i - 1]
        BY <2>2, <4>1
      <4>3. g[i] = Account(f[i - 1], events[i])
        BY <3>2
      <4> HIDE DEF g
      <4> QED BY <3>2, <4>2, <4>3
    <3> QED BY <3>1, <3>2
  <2>4. DOMAIN g = 0 .. n + 1 /\ g = [i \in 0 .. n + 1 |-> g[i]]
    OBVIOUS
  <2> HIDE DEF g
  <2>5. RunsOver(g, events, n + 1)
    BY <2>3, <2>4 DEF RunsOver
  <2> QED BY <2>5
<1> HIDE DEF T
<1>3. \A n \in Nat : n \in T
  BY <1>1, <1>2, AllNumbers
<1> QED BY <1>3 DEF T

LEMMA RunsAgree ==
  ASSUME NEW e1, NEW e2, NEW f, NEW g,
         NEW n1 \in Nat, NEW n2 \in Nat, NEW n \in Nat, n <= n1, n <= n2,
         RunsOver(f, e1, n1), RunsOver(g, e2, n2),
         \A i \in 1 .. n : e1[i] = e2[i]
  PROVE  f[n] = g[n]
<1> DEFINE T == {i \in Nat : i <= n => f[i] = g[i]}
<1>0. /\ \A i \in 0 .. n1 : f[i] = IF i = 0 THEN Fresh ELSE Account(f[i - 1], e1[i])
      /\ \A i \in 0 .. n2 : g[i] = IF i = 0 THEN Fresh ELSE Account(g[i - 1], e2[i])
  BY DEF RunsOver
<1>1. 0 \in T
  BY <1>0
<1>2. ASSUME NEW i \in Nat, i \in T PROVE i + 1 \in T
  <2> SUFFICES ASSUME i + 1 <= n PROVE f[i + 1] = g[i + 1]
    OBVIOUS
  <2>1. i + 1 \in 0 .. n1 /\ i + 1 \in 0 .. n2 /\ i + 1 \in 1 .. n /\ i + 1 # 0 /\ (i + 1) - 1 = i
    OBVIOUS
  <2>2. f[i + 1] = Account(f[i], e1[i + 1]) /\ g[i + 1] = Account(g[i], e2[i + 1])
    BY <1>0, <2>1
  <2>3. f[i] = g[i]
    BY <1>2
  <2>4. e1[i + 1] = e2[i + 1]
    BY <2>1
  <2> QED BY <2>2, <2>3, <2>4
<1> HIDE DEF T
<1>3. n \in T
  BY <1>1, <1>2, AllNumbers
<1> QED BY <1>3 DEF T

LEMMA AfterIsARun ==
  ASSUME NEW events, IsSequence(events)
  PROVE  \E run : RunsOver(run, events, Len(events)) /\ AfterEvents(events) = run[Len(events)]
<1>1. Len(events) \in Nat
  BY SequenceFacts
<1>2. PICK r : RunsOver(r, events, Len(events))
  BY <1>1, RunExists
<1> DEFINE chosen == CHOOSE run : RunsOver(run, events, Len(events))
<1>3. RunsOver(chosen, events, Len(events))
  BY <1>2
<1>4. AfterEvents(events) = chosen[Len(events)]
  BY Zenon DEF AfterEvents, RunsOver, Fresh
<1> QED BY <1>3, <1>4

LEMMA AfterNone == AfterEvents(<<>>) = Fresh
<1>1. PICK run : RunsOver(run, <<>>, 0) /\ AfterEvents(<<>>) = run[0]
  BY EmptySequence, AfterIsARun
<1> QED BY <1>1 DEF RunsOver

LEMMA AfterOneMore ==
  ASSUME NEW events, IsSequence(events), NEW e
  PROVE  AfterEvents(Append(events, e)) = Account(AfterEvents(events), e)
<1> DEFINE more == Append(events, e)  n == Len(events)
<1>1. /\ n \in Nat /\ IsSequence(more) /\ Len(more) = n + 1
      /\ \A i \in 1 .. n : more[i] = events[i]
      /\ more[n + 1] = e
  BY SequenceFacts, AppendSequence
<1> HIDE DEF more
<1>2. PICK f : RunsOver(f, events, n) /\ AfterEvents(events) = f[n]
  BY AfterIsARun
<1>3. PICK g : RunsOver(g, more, n + 1) /\ AfterEvents(more) = g[n + 1]
  BY <1>1, AfterIsARun
<1> HIDE DEF n
<1>4. f[n] = g[n]
  <2>1. PICK m : m = n + 1
    OBVIOUS
  <2>2. m \in Nat /\ n <= n /\ n <= m /\ RunsOver(g, more, m)
    BY <1>1, <1>3, <2>1
  <2>3. \A i \in 1 .. n : events[i] = more[i]
    BY <1>1
  <2> QED BY <1>1, <1>2, <2>2, <2>3, RunsAgree
<1>5. g[n + 1] = Account(g[n], more[n + 1])
  BY <1>1, <1>3 DEF RunsOver
<1> QED BY <1>1, <1>2, <1>3, <1>4, <1>5 DEF more

-----------------------------------------------------------------------------
(* The contents of a log: the windows one after the other.                 *)

FlattensTo(flat, ws, n) ==
  flat = [i \in 1 .. n |-> IF i = 1 THEN ws[i] ELSE flat[i - 1] \o ws[i]]

LEMMA FlatExists ==
  ASSUME NEW ws
  PROVE  \A n \in Nat : \E flat : FlattensTo(flat, ws, n)
<1> DEFINE T == {n \in Nat : \E flat : FlattensTo(flat, ws, n)}
<1>1. 0 \in T
  <2> DEFINE f == [i \in 1 .. 0 |-> ws[i]]
  <2>1. f = [i \in 1 .. 0 |-> IF i = 1 THEN ws[i] ELSE f[i - 1] \o ws[i]]
    OBVIOUS
  <2> QED BY <2>1 DEF FlattensTo
<1>2. ASSUME NEW n \in Nat, n \in T PROVE n + 1 \in T
  <2>1. PICK f : FlattensTo(f, ws, n)
    BY <1>2
  <2> DEFINE g == [i \in 1 .. n + 1 |-> IF i = 1 THEN ws[i] ELSE f[i - 1] \o ws[i]]
  <2>2. \A i \in 1 .. n : g[i] = f[i]
    <3> SUFFICES ASSUME NEW i \in 1 .. n PROVE g[i] = f[i]
      OBVIOUS
    <3>1. f[i] = IF i = 1 THEN ws[i] ELSE f[i - 1] \o ws[i]
      BY <2>1, Zenon DEF FlattensTo
    <3>2. i \in 1 .. n + 1
      OBVIOUS
    <3> QED BY <3>1, <3>2, Zenon
  <2>3. \A i \in 1 .. n + 1 : g[i] = IF i = 1 THEN ws[i] ELSE g[i - 1] \o ws[i]
    <3> SUFFICES ASSUME NEW i \in 1 .. n + 1
                 PROVE  g[i] = IF i = 1 THEN ws[i] ELSE g[i - 1] \o ws[i]
      OBVIOUS
    <3>1. CASE i = 1
      BY <3>1
    <3>2. CASE i # 1
      <4>0. i - 1 \in 1 .. n
        BY <3>2
      <4>1. i - 1 \in 1 .. n /\ g[i] = f[i - 1] \o ws[i]
        BY <3>2, <4>0, Zenon
      <4>2. g[i - 1] = f[i - 1]
        BY <2>2, <4>1
      <4> HIDE DEF g
      <4> QED BY <3>2, <4>1, <4>2
    <3> QED BY <3>1, <3>2
  <2>4. DOMAIN g = 1 .. n + 1 /\ g = [i \in 1 .. n + 1 |-> g[i]]
    OBVIOUS
  <2> HIDE DEF g
  <2>5. FlattensTo(g, ws, n + 1)
    BY <2>3, <2>4 DEF FlattensTo
  <2> QED BY <2>5
<1> HIDE DEF T
<1>3. \A n \in Nat : n \in T
  BY <1>1, <1>2, AllNumbers
<1> QED BY <1>3 DEF T

LEMMA FlatsAgree ==
  ASSUME NEW ws1, NEW ws2, NEW f, NEW g,
         NEW n1 \in Nat, NEW n2 \in Nat, NEW n \in Nat \ {0}, n <= n1, n <= n2,
         FlattensTo(f, ws1, n1), FlattensTo(g, ws2, n2),
         \A i \in 1 .. n : ws1[i] = ws2[i]
  PROVE  f[n] = g[n]
<1> DEFINE T == {i \in Nat : i + 1 <= n => f[i + 1] = g[i + 1]}
<1>0. /\ \A i \in 1 .. n1 : f[i] = IF i = 1 THEN ws1[i] ELSE f[i - 1] \o ws1[i]
      /\ \A i \in 1 .. n2 : g[i] = IF i = 1 THEN ws2[i] ELSE g[i - 1] \o ws2[i]
  BY DEF FlattensTo
<1>1. 0 \in T
  <2>1. 1 \in 1 .. n1 /\ 1 \in 1 .. n2 /\ 1 \in 1 .. n
    OBVIOUS
  <2>2. f[1] = ws1[1] /\ g[1] = ws2[1]
    BY <1>0, <2>1
  <2> QED BY <2>1, <2>2
<1>2. ASSUME NEW i \in Nat, i \in T PROVE i + 1 \in T
  <2> SUFFICES ASSUME (i + 1) + 1 <= n PROVE f[(i + 1) + 1] = g[(i + 1) + 1]
    OBVIOUS
  <2> DEFINE k == (i + 1) + 1
  <2>1. k \in 1 .. n1 /\ k \in 1 .. n2 /\ k \in 1 .. n /\ k # 1 /\ k - 1 = i + 1
    OBVIOUS
  <2>2. f[i + 1] = g[i + 1]
    BY <1>2
  <2> HIDE DEF k
  <2>3. f[k] = f[k - 1] \o ws1[k] /\ g[k] = g[k - 1] \o ws2[k]
    BY <1>0, <2>1
  <2>4. ws1[k] = ws2[k]
    BY <2>1
  <2>5. f[k] = g[k]
    BY <2>1, <2>2, <2>3, <2>4
  <2> QED BY <2>5 DEF k
<1> HIDE DEF T
<1>3. n - 1 \in Nat /\ n - 1 \in T /\ (n - 1) + 1 = n
  BY <1>1, <1>2, AllNumbers
<1> QED BY <1>3 DEF T

LEMMA FlattenIsAFlat ==
  ASSUME NEW ws, IsSequence(ws), ws # <<>>
  PROVE  \E flat : FlattensTo(flat, ws, Len(ws)) /\ FlattenSeq(ws) = flat[Len(ws)]
<1>1. Len(ws) \in Nat /\ Len(ws) # 0
  BY SequenceFacts
<1>2. PICK r : FlattensTo(r, ws, Len(ws))
  BY <1>1, FlatExists
<1> DEFINE chosen == CHOOSE flat : FlattensTo(flat, ws, Len(ws))
<1>3. FlattensTo(chosen, ws, Len(ws))
  BY <1>2
<1>4. FlattenSeq(ws) = chosen[Len(ws)]
  BY <1>1, Zenon DEF FlattenSeq, FlattensTo
<1> QED BY <1>3, <1>4

LEMMA FlattenNone == FlattenSeq(<<>>) = <<>>
BY EmptySequence, Zenon DEF FlattenSeq

LEMMA FlattenOneMore ==
  ASSUME NEW ws, IsSequence(ws), NEW w, IsSequence(w)
  PROVE  FlattenSeq(Append(ws, w)) = FlattenSeq(ws) \o w
<1> DEFINE more == Append(ws, w)  n == Len(ws)
<1>1. /\ n \in Nat /\ IsSequence(more) /\ Len(more) = n + 1
      /\ \A i \in 1 .. n : more[i] = ws[i]
      /\ more[n + 1] = w
      /\ ws = <<>> <=> n = 0
  BY SequenceFacts, AppendSequence
<1> HIDE DEF more
<1>2. more # <<>>
  BY <1>1, EmptySequence
<1>3. PICK m : m = n + 1
  OBVIOUS
<1>4. PICK g : FlattensTo(g, more, m) /\ FlattenSeq(more) = g[m]
  BY <1>1, <1>2, <1>3, FlattenIsAFlat
<1>5. m \in 1 .. m /\ m \in Nat
  BY <1>1, <1>3
<1>6. g[m] = IF m = 1 THEN w ELSE g[m - 1] \o w
  BY <1>1, <1>3, <1>4, <1>5 DEF FlattensTo
<1>7. CASE ws = <<>>
  <2>1. <<>> \o w = w
    <3>1. /\ IsSequence(<<>> \o w) /\ Len(<<>> \o w) = 0 + Len(w)
          /\ \A i \in 1 .. Len(w) : (<<>> \o w)[0 + i] = w[i]
      BY ConcatSequence, EmptySequence
    <3> DEFINE x == <<>> \o w
    <3> HIDE DEF x
    <3>2. /\ IsSequence(x) /\ Len(x) = Len(w)
          /\ \A i \in 1 .. Len(x) : x[i] = w[i]
      BY <3>1, SequenceFacts DEF x
    <3>3. x = w
      BY <3>2, EqualSequences
    <3> QED BY <3>3 DEF x
  <2>2. m = 1
    BY <1>1, <1>3, <1>7
  <2>3. FlattenSeq(more) = w
    BY <1>4, <1>6, <2>2
  <2>4. FlattenSeq(ws) = <<>>
    BY <1>7, FlattenNone, Zenon
  <2>5. FlattenSeq(ws) \o w = w
    BY <2>1, <2>4, Zenon
  <2> QED BY <2>3, <2>5 DEF more
<1>8. CASE ws # <<>>
  <2>1. PICK f : FlattensTo(f, ws, n) /\ FlattenSeq(ws) = f[n]
    BY <1>8, FlattenIsAFlat
  <2> HIDE DEF n
  <2>2. n \in Nat \ {0} /\ n <= n /\ n <= m /\ m \in Nat /\ m # 1 /\ m - 1 = n
    BY <1>1, <1>3, <1>8
  <2>3. \A i \in 1 .. n : ws[i] = more[i]
    BY <1>1
  <2>4. f[n] = g[n]
    BY <1>4, <2>1, <2>2, <2>3, FlatsAgree
  <2> QED BY <1>4, <1>6, <2>1, <2>2, <2>4 DEF more
<1> QED BY <1>7, <1>8

LEMMA FlattenSequence ==
  ASSUME NEW ws, IsSequence(ws), \A i \in 1 .. Len(ws) : IsSequence(ws[i])
  PROVE  IsSequence(FlattenSeq(ws))
<1> DEFINE T == {n \in Nat : n <= Len(ws) => IsSequence(FlattenSeq(SubSeq(ws, 1, n)))}
<1>0. Len(ws) \in Nat
  BY SequenceFacts
<1>1. 0 \in T
  <2>1. 0 \in 0 .. Len(ws)
    BY <1>0
  <2>2. IsSequence(SubSeq(ws, 1, 0)) /\ Len(SubSeq(ws, 1, 0)) = 0
    BY <2>1, SubSequence
  <2>3. SubSeq(ws, 1, 0) = <<>>
    BY <2>2, SequenceFacts
  <2> QED BY <2>3, FlattenNone, EmptySequence
<1>2. ASSUME NEW n \in Nat, n \in T PROVE n + 1 \in T
  <2> SUFFICES ASSUME n + 1 <= Len(ws) PROVE IsSequence(FlattenSeq(SubSeq(ws, 1, n + 1)))
    OBVIOUS
  <2>1. n \in 0 .. Len(ws) - 1 /\ n \in 0 .. Len(ws) /\ n + 1 \in 1 .. Len(ws)
    BY <1>0
  <2>2. SubSeq(ws, 1, n + 1) = Append(SubSeq(ws, 1, n), ws[n + 1])
    BY <2>1, BeginningGrows
  <2>3. IsSequence(SubSeq(ws, 1, n)) /\ IsSequence(ws[n + 1])
    BY <2>1, SubSequence
  <2>4. IsSequence(FlattenSeq(SubSeq(ws, 1, n)))
    BY <1>0, <1>2, <2>1
  <2>5. FlattenSeq(SubSeq(ws, 1, n + 1)) = FlattenSeq(SubSeq(ws, 1, n)) \o ws[n + 1]
    BY <2>2, <2>3, FlattenOneMore
  <2> HIDE DEF T
  <2>6. IsSequence(FlattenSeq(SubSeq(ws, 1, n)) \o ws[n + 1])
    BY <2>3, <2>4, ConcatSequence
  <2> QED BY <2>5, <2>6, Zenon
<1> HIDE DEF T
<1>3. Len(ws) \in T
  BY <1>0, <1>1, <1>2, AllNumbers
<1>4. IsSequence(FlattenSeq(SubSeq(ws, 1, Len(ws))))
  BY <1>0, <1>3 DEF T
<1> QED BY <1>4, WholeSequence

LEMMA LinesOfSequence ==
  ASSUME NEW s, IsSequence(s)
  PROVE  /\ IsSequence(LinesOf(s)) /\ Len(LinesOf(s)) = Len(s)
         /\ \A i \in 1 .. Len(s) : LinesOf(s)[i] = Line(s[i])
<1>1. Len(s) \in Nat /\ DOMAIN s = 1 .. Len(s)
  BY SequenceFacts
<1>2. /\ DOMAIN LinesOf(s) = 1 .. Len(s)
      /\ \A i \in 1 .. Len(s) : LinesOf(s)[i] = Line(s[i])
      /\ LinesOf(s) = [i \in 1 .. Len(s) |-> LinesOf(s)[i]]
  BY <1>1 DEF LinesOf
<1> QED BY <1>1, <1>2, FunctionIsSequence

(* The lines of two batches are those of the first and then those of the   *)
(* second (append, output.rs:109-131).                                     *)
LEMMA LinesOfConcat ==
  ASSUME NEW s, NEW t, IsSequence(s), IsSequence(t)
  PROVE  LinesOf(s \o t) = LinesOf(s) \o LinesOf(t)
<1> DEFINE st == s \o t  a == LinesOf(st)  ls == LinesOf(s)  lt == LinesOf(t)  b == ls \o lt
<1>1. /\ IsSequence(st) /\ Len(st) = Len(s) + Len(t)
      /\ \A i \in 1 .. Len(s) : st[i] = s[i]
      /\ \A i \in 1 .. Len(t) : st[Len(s) + i] = t[i]
      /\ Len(s) \in Nat /\ Len(t) \in Nat
  BY ConcatSequence, SequenceFacts
<1> HIDE DEF st
<1>2. /\ IsSequence(a) /\ Len(a) = Len(st)
      /\ \A i \in 1 .. Len(st) : a[i] = Line(st[i])
  BY <1>1, LinesOfSequence
<1>3. /\ IsSequence(ls) /\ Len(ls) = Len(s) /\ \A i \in 1 .. Len(s) : ls[i] = Line(s[i])
      /\ IsSequence(lt) /\ Len(lt) = Len(t) /\ \A i \in 1 .. Len(t) : lt[i] = Line(t[i])
  BY LinesOfSequence
<1> HIDE DEF a, ls, lt
<1>4. /\ IsSequence(b) /\ Len(b) = Len(s) + Len(t)
      /\ \A i \in 1 .. Len(s) : b[i] = ls[i]
      /\ \A i \in 1 .. Len(t) : b[Len(s) + i] = lt[i]
  BY <1>3, ConcatSequence
<1> HIDE DEF b
<1>5. \A i \in 1 .. Len(a) : a[i] = b[i]
  <2> SUFFICES ASSUME NEW i \in 1 .. Len(a) PROVE a[i] = b[i]
    OBVIOUS
  <2>1. CASE i \in 1 .. Len(s)
    BY <1>1, <1>2, <1>3, <1>4, <2>1
  <2>2. CASE i \notin 1 .. Len(s)
    <3>1. PICK j \in 1 .. Len(t) : i = Len(s) + j
      <4>1. i - Len(s) \in 1 .. Len(t) /\ i = Len(s) + (i - Len(s))
        BY <1>1, <1>2, <2>2
      <4> QED BY <4>1
    <3>2. a[i] = Line(st[Len(s) + j]) /\ b[i] = lt[j]
      BY <1>2, <1>4, <3>1
    <3> QED BY <1>1, <1>3, <3>1, <3>2
  <2> QED BY <2>1, <2>2
<1>6. a = b
  BY <1>1, <1>2, <1>4, <1>5, EqualSequences
<1> QED BY <1>6 DEF a, b, st, ls, lt

-----------------------------------------------------------------------------
(* What is flushed and what is rolled up are sequences of records.         *)

LEMMA FiniteImage ==
  ASSUME NEW f, IsFiniteSet(DOMAIN f)
  PROVE  IsFiniteSet({f[x] : x \in DOMAIN f})
<1> DEFINE S == DOMAIN f  T == {f[x] : x \in S}  g == [x \in S |-> f[x]]
<1>1. g \in Surjection(S, T)
  BY DEF Surjection
<1> QED BY <1>1, FS_Surjection

LEMMA InOrderSequence ==
  ASSUME NEW S, IsFiniteSet(S)
  PROVE  IsSequence(InOrder(S, RecordLess)) /\ IsSequence(InOrder(S, IpRecordLess))
<1> DEFINE n == Cardinality(S)
           r(i) == CHOOSE x \in S : Cardinality({y \in S : RecordLess(y, x)}) = i - 1
           p(i) == CHOOSE x \in S : Cardinality({y \in S : IpRecordLess(y, x)}) = i - 1
           f == [i \in 1 .. n |-> r(i)]
           g == [i \in 1 .. n |-> p(i)]
<1>1. InOrder(S, RecordLess) = f /\ InOrder(S, IpRecordLess) = g
  BY Zenon DEF InOrder
<1>2. n \in Nat
  BY FS_CardinalityType
<1> HIDE DEF r, p, n
<1>3. /\ DOMAIN f = 1 .. n /\ f = [i \in 1 .. n |-> f[i]]
      /\ DOMAIN g = 1 .. n /\ g = [i \in 1 .. n |-> g[i]]
  OBVIOUS
<1> HIDE DEF f, g
<1>4. IsSequence(f) /\ IsSequence(g)
  BY <1>2, <1>3, FunctionIsSequence
<1> QED BY <1>1, <1>4

LEMMA FlushRecordsSequence ==
  ASSUME NEW a, IsFiniteSet(DOMAIN a.buckets), NEW t
  PROVE  IsSequence(FlushRecords(a, t))
<1> DEFINE f == [k \in DOMAIN a.buckets |->
                   [timestamp |-> t, external_ip |-> k.external_ip,
                    external_port |-> k.external_port, protocol |-> k.protocol,
                    flow_count |-> a.buckets[k].count,
                    flow_byte_sum |-> a.buckets[k].bytes]]
<1>1. RecordsOf(a, t) = {f[k] : k \in DOMAIN f}
  BY DEF RecordsOf
<1>2. DOMAIN f = DOMAIN a.buckets
  OBVIOUS
<1> HIDE DEF f
<1>3. IsFiniteSet(RecordsOf(a, t))
  BY <1>1, <1>2, FiniteImage
<1> QED BY <1>3, InOrderSequence DEF FlushRecords

LEMMA AggregateByIpSequence ==
  ASSUME NEW w, IsSequence(w)
  PROVE  IsSequence(AggregateByIp(w))
<1> DEFINE OfKey(key) == {r \in ToSet(w) : <<r.timestamp, r.external_ip>> = key}
           Total(key) ==
             [timestamp |-> key[1], external_ip |-> key[2],
              flow_count |-> SumFunction([r \in OfKey(key) |-> r.flow_count]),
              flow_byte_sum |-> SumFunction([r \in OfKey(key) |-> r.flow_byte_sum])]
           f == [i \in DOMAIN w |-> Total(<<w[i].timestamp, w[i].external_ip>>)]
           S == {Total(key) : key \in IpKeysOf(w)}
           a == AggregateByIp(w)
<1>1. a = InOrder(S, IpRecordLess)
  BY Zenon DEF AggregateByIp
<1>2. S = {f[i] : i \in DOMAIN f} /\ DOMAIN f = DOMAIN w
  <2> HIDE DEF Total
  <2> QED BY DEF IpKeysOf, ToSet
<1> HIDE DEF f, S, a
<1>3. IsFiniteSet(S)
  <2>1. IsFiniteSet(DOMAIN w)
    BY SequenceFacts, FS_Interval
  <2> QED BY <1>2, <2>1, FiniteImage
<1>4. IsSequence(InOrder(S, IpRecordLess))
  BY <1>3, InOrderSequence
<1> QED BY <1>1, <1>4 DEF a

-----------------------------------------------------------------------------
(* What an append leaves behind, whole or cut (append, output.rs:109-131). *)

LEMMA PrefixOf ==
  ASSUME NEW s, NEW t, IsSequence(s), IsSequence(t), Len(s) <= Len(t),
         \A i \in 1 .. Len(s) : s[i] = t[i]
  PROVE  IsPrefix(s, t)
<1> DEFINE n == Len(s)  a == SubSeq(s, 1, n)  b == SubSeq(t, 1, n)
<1>1. n \in 0 .. Len(s) /\ n \in 0 .. Len(t) /\ n \in Nat
  BY SequenceFacts
<1>2. /\ IsSequence(a) /\ Len(a) = n /\ \A i \in 1 .. n : a[i] = s[i]
      /\ IsSequence(b) /\ Len(b) = n /\ \A i \in 1 .. n : b[i] = t[i]
  BY <1>1, SubSequence
<1> HIDE DEF a, b
<1>3. a = b
  BY <1>2, EqualSequences
<1> QED BY <1>3 DEF a, b, IsPrefix

LEMMA EmptyLines ==
  ASSUME NEW lines, IsSequence(lines)
  PROVE  lines \o LinesOf(<<>>) = lines
<1> DEFINE e == LinesOf(<<>>)  b == lines \o e
<1>1. IsSequence(e) /\ Len(e) = 0
  BY EmptySequence, LinesOfSequence
<1> HIDE DEF e
<1>2. /\ IsSequence(b) /\ Len(b) = Len(lines) + 0
      /\ \A i \in 1 .. Len(lines) : b[i] = lines[i]
  BY <1>1, ConcatSequence
<1> HIDE DEF b
<1>3. Len(b) = Len(lines)
  BY <1>2, SequenceFacts
<1>4. b = lines
  BY <1>2, <1>3, EqualSequences
<1> QED BY <1>4 DEF b, e

LEMMA AppendedWhole ==
  ASSUME NEW lines, IsSequence(lines), NEW records, IsSequence(records)
  PROVE  Appended([lines |-> lines, torn |-> FALSE], records)
           = [lines |-> lines \o LinesOf(records), torn |-> FALSE]
<1> DEFINE file == [lines |-> lines, torn |-> FALSE]
<1>1. CASE records = <<>>
  BY <1>1, EmptyLines DEF Appended
<1>2. CASE records # <<>>
  <2>1. Appended(file, records) = Extended(file, records, FALSE)
    BY <1>2 DEF Appended
  <2>2. file.torn = FALSE /\ file.lines = lines
    OBVIOUS
  <2> HIDE DEF file
  <2>3. Extended(file, records, FALSE) = [lines |-> lines \o LinesOf(records), torn |-> FALSE]
    BY <1>2, <2>2, Zenon DEF Extended
  <2> QED BY <2>1, <2>3 DEF file
<1> QED BY <1>1, <1>2

LEMMA PartOfTheRecords ==
  ASSUME NEW file, NEW records, NEW after \in PartlyAppended(file, records)
  PROVE  \E n \in 0 .. Len(records) - 1, torn \in BOOLEAN :
            after = Extended(file, SubSeq(records, 1, n), torn)
BY DEF PartlyAppended

LEMMA AppendedPartly ==
  ASSUME NEW lines, IsSequence(lines), NEW records, IsSequence(records),
         NEW after \in PartlyAppended([lines |-> lines, torn |-> FALSE], records)
  PROVE  /\ IsPrefix(lines, after.lines)
         /\ IsPrefix(after.lines, lines \o LinesOf(records))
<1> DEFINE file == [lines |-> lines, torn |-> FALSE]
           part(n) == SubSeq(records, 1, n)
           whole == lines \o LinesOf(records)
<1>1. PICK n \in 0 .. Len(records) - 1, torn \in BOOLEAN :
             after = Extended(file, part(n), torn)
  BY PartOfTheRecords
<1>2. n \in 0 .. Len(records) /\ n \in Nat /\ Len(records) \in Nat
  BY SequenceFacts
<1> DEFINE p == part(n)  lp == LinesOf(p)  lr == LinesOf(records)  ll == lines \o lp
<1>3. IsSequence(p) /\ Len(p) = n /\ \A i \in 1 .. n : p[i] = records[i]
  BY <1>2, SubSequence
<1> HIDE DEF p
<1>4. IsSequence(lp) /\ Len(lp) = n /\ \A i \in 1 .. n : lp[i] = Line(p[i])
  BY <1>3, LinesOfSequence
<1>5. /\ IsSequence(lr) /\ Len(lr) = Len(records)
      /\ \A i \in 1 .. Len(records) : lr[i] = Line(records[i])
  BY LinesOfSequence
<1>6. file.torn = FALSE /\ file.lines = lines
  OBVIOUS
<1>7. after.lines = ll
  <2>1. CASE p = <<>>
    <3>1. after.lines = lines
      BY <1>1, <1>6, <2>1 DEF Extended, p
    <3> QED BY <2>1, <3>1, EmptyLines
  <2>2. CASE p # <<>>
    <3> HIDE DEF file
    <3>1. after = [lines |-> lines \o LinesOf(p), torn |-> torn]
      BY <1>1, <1>6, <2>2, Zenon DEF Extended, p
    <3> QED BY <3>1
  <2> QED BY <2>1, <2>2
<1> HIDE DEF lp, lr
<1>8. /\ IsSequence(ll) /\ Len(ll) = Len(lines) + n
      /\ \A i \in 1 .. Len(lines) : ll[i] = lines[i]
      /\ \A i \in 1 .. n : ll[Len(lines) + i] = lp[i]
  BY <1>4, ConcatSequence
<1>9. /\ IsSequence(whole) /\ Len(whole) = Len(lines) + Len(records)
      /\ \A i \in 1 .. Len(lines) : whole[i] = lines[i]
      /\ \A i \in 1 .. Len(records) : whole[Len(lines) + i] = lr[i]
  BY <1>5, ConcatSequence DEF lr
<1> HIDE DEF ll, whole
<1>10. Len(lines) \in Nat
  BY SequenceFacts
<1>11. IsPrefix(lines, ll)
  BY <1>2, <1>8, <1>10, PrefixOf
<1>12. \A i \in 1 .. Len(ll) : ll[i] = whole[i]
  <2> SUFFICES ASSUME NEW i \in 1 .. Len(ll) PROVE ll[i] = whole[i]
    OBVIOUS
  <2>1. CASE i \in 1 .. Len(lines)
    BY <1>8, <1>9, <2>1
  <2>2. CASE i \notin 1 .. Len(lines)
    <3>1. PICK j \in 1 .. n : i = Len(lines) + j
      <4>1. i - Len(lines) \in 1 .. n /\ i = Len(lines) + (i - Len(lines))
        BY <1>2, <1>8, <1>10, <2>2
      <4> QED BY <4>1
    <3>2. j \in 1 .. Len(records)
      BY <1>2
    <3>3. lp[j] = Line(records[j]) /\ lr[j] = Line(records[j])
      BY <1>3, <1>4, <1>5, <3>2
    <3> QED BY <1>8, <1>9, <3>1, <3>2, <3>3
  <2> QED BY <2>1, <2>2
<1>13. IsPrefix(ll, whole)
  <2>1. Len(ll) <= Len(whole)
    BY <1>2, <1>8, <1>9, <1>10
  <2> QED BY <1>8, <1>9, <1>12, <2>1, PrefixOf
<1> QED BY <1>7, <1>11, <1>13 DEF whole, lr

-----------------------------------------------------------------------------
(* Windows to write, and the logs of the first n of them.                  *)

WindowsToWrite(ws) ==
  /\ IsSequence(ws)
  /\ \A i \in 1 .. Len(ws) : IsSequence(ws[i]) /\ ws[i] # <<>>

Beginning(ws, all) ==
  /\ Len(ws) <= Len(all)
  /\ \A i \in 1 .. Len(ws) : ws[i] = all[i]

LEMMA LogOfBeginning ==
  ASSUME NEW all, WindowsToWrite(all), NEW n \in 0 .. Len(all)
  PROVE  /\ IsSequence(DetailOf(SubSeq(all, 1, n)))
         /\ IsSequence(IpOf(SubSeq(all, 1, n)))
<1> DEFINE ws == SubSeq(all, 1, n)
           ips == [i \in DOMAIN ws |-> AggregateByIp(ws[i])]
<1>0. Len(all) \in Nat /\ n \in Nat
  BY SequenceFacts DEF WindowsToWrite
<1>1. IsSequence(ws) /\ Len(ws) = n /\ \A i \in 1 .. n : ws[i] = all[i]
  BY SubSequence DEF WindowsToWrite
<1> HIDE DEF ws
<1>2. \A i \in 1 .. Len(ws) : IsSequence(ws[i])
  BY <1>0, <1>1 DEF WindowsToWrite
<1>3. IsSequence(DetailOf(ws))
  BY <1>1, <1>2, FlattenSequence, LinesOfSequence DEF DetailOf
<1>4. DOMAIN ws = 1 .. n
  BY <1>1, SequenceFacts
<1>5. /\ DOMAIN ips = 1 .. n /\ ips = [i \in 1 .. n |-> ips[i]]
      /\ \A i \in 1 .. n : ips[i] = AggregateByIp(ws[i])
  BY <1>4
<1> HIDE DEF ips
<1>6. IsSequence(ips) /\ Len(ips) = n
  BY <1>0, <1>5, FunctionIsSequence
<1>7. \A i \in 1 .. Len(ips) : IsSequence(ips[i])
  BY <1>1, <1>2, <1>5, <1>6, AggregateByIpSequence
<1>8. IsSequence(LinesOf(FlattenSeq(ips)))
  BY <1>6, <1>7, FlattenSequence, LinesOfSequence
<1> QED BY <1>3, <1>8 DEF IpOf, ips, ws

LEMMA LogsGrow ==
  ASSUME NEW all, WindowsToWrite(all), NEW n \in 0 .. Len(all) - 1
  PROVE  /\ SubSeq(all, 1, n + 1) = Append(SubSeq(all, 1, n), all[n + 1])
         /\ DetailOf(SubSeq(all, 1, n + 1))
              = DetailOf(SubSeq(all, 1, n)) \o LinesOf(all[n + 1])
         /\ IpOf(SubSeq(all, 1, n + 1))
              = IpOf(SubSeq(all, 1, n)) \o LinesOf(AggregateByIp(all[n + 1]))
<1> DEFINE ws == SubSeq(all, 1, n)  w == all[n + 1]  more == Append(ws, w)
           ips == [i \in DOMAIN ws |-> AggregateByIp(ws[i])]
           moreIps == [i \in DOMAIN more |-> AggregateByIp(more[i])]
<1>0. Len(all) \in Nat /\ n \in Nat /\ n \in 0 .. Len(all) /\ n + 1 \in 1 .. Len(all)
  BY SequenceFacts DEF WindowsToWrite
<1>1. IsSequence(ws) /\ Len(ws) = n /\ \A i \in 1 .. n : ws[i] = all[i]
  BY <1>0, SubSequence DEF WindowsToWrite
<1>2. IsSequence(w)
  BY <1>0 DEF WindowsToWrite
<1>3. SubSeq(all, 1, n + 1) = more
  BY BeginningGrows DEF WindowsToWrite
<1> HIDE DEF ws, w
<1>4. /\ IsSequence(more) /\ Len(more) = n + 1
      /\ \A i \in 1 .. n : more[i] = ws[i]
      /\ more[n + 1] = w
  BY <1>1, AppendSequence
<1> HIDE DEF more
<1>5. \A i \in 1 .. n : IsSequence(ws[i])
  BY <1>0, <1>1 DEF WindowsToWrite
<1>6. IsSequence(FlattenSeq(ws)) /\ FlattenSeq(more) = FlattenSeq(ws) \o w
  BY <1>1, <1>2, <1>5, FlattenSequence, FlattenOneMore DEF more
<1>7. DetailOf(more) = DetailOf(ws) \o LinesOf(w)
  BY <1>2, <1>6, LinesOfConcat DEF DetailOf
<1>8. DOMAIN ws = 1 .. n /\ DOMAIN more = 1 .. n + 1
  BY <1>1, <1>4, SequenceFacts
<1>9. /\ DOMAIN ips = 1 .. n /\ ips = [i \in 1 .. n |-> ips[i]]
      /\ DOMAIN moreIps = 1 .. n + 1 /\ moreIps = [i \in 1 .. n + 1 |-> moreIps[i]]
      /\ \A i \in 1 .. n : ips[i] = AggregateByIp(ws[i])
      /\ \A i \in 1 .. n + 1 : moreIps[i] = AggregateByIp(more[i])
  BY <1>8
<1> HIDE DEF ips, moreIps
<1>10. IsSequence(ips) /\ Len(ips) = n /\ IsSequence(moreIps) /\ Len(moreIps) = n + 1
  BY <1>0, <1>9, FunctionIsSequence
<1>11. moreIps = Append(ips, AggregateByIp(w))
  <2> DEFINE b == Append(ips, AggregateByIp(w))
  <2>1. /\ IsSequence(b) /\ Len(b) = n + 1
        /\ \A i \in 1 .. n : b[i] = ips[i]
        /\ b[n + 1] = AggregateByIp(w)
    BY <1>10, AppendSequence
  <2> HIDE DEF b
  <2>2. \A i \in 1 .. n + 1 : moreIps[i] = b[i]
    <3> SUFFICES ASSUME NEW i \in 1 .. n + 1 PROVE moreIps[i] = b[i]
      OBVIOUS
    <3>1. CASE i = n + 1
      BY <1>4, <1>9, <2>1, <3>1
    <3>2. CASE i # n + 1
      <4>1. i \in 1 .. n
        BY <1>0, <3>2
      <4> QED BY <1>4, <1>9, <2>1, <4>1
    <3> QED BY <3>1, <3>2
  <2>3. moreIps = b
    BY <1>10, <2>1, <2>2, EqualSequences
  <2> QED BY <2>3 DEF b
<1>12. \A i \in 1 .. n : IsSequence(ips[i])
  BY <1>5, <1>9, AggregateByIpSequence
<1>13. IsSequence(AggregateByIp(w))
  BY <1>2, AggregateByIpSequence
<1>14. IsSequence(FlattenSeq(ips)) /\ FlattenSeq(moreIps) = FlattenSeq(ips) \o AggregateByIp(w)
  BY <1>10, <1>11, <1>12, <1>13, FlattenSequence, FlattenOneMore
<1>15. IpOf(more) = IpOf(ws) \o LinesOf(AggregateByIp(w))
  BY <1>13, <1>14, LinesOfConcat DEF IpOf, ips, moreIps
<1> QED BY <1>3, <1>7, <1>15 DEF ws, w, more

(* What the logs hold of a beginning does not depend on what follows.      *)
LEMMA SameBeginning ==
  ASSUME NEW ws, NEW all, IsSequence(ws), IsSequence(all), Beginning(ws, all),
         NEW n \in 0 .. Len(ws)
  PROVE  SubSeq(ws, 1, n) = SubSeq(all, 1, n)
<1> DEFINE a == SubSeq(ws, 1, n)  b == SubSeq(all, 1, n)
<1>1. Len(ws) \in Nat /\ Len(all) \in Nat /\ n \in 0 .. Len(all) /\ n \in Nat
  BY SequenceFacts DEF Beginning
<1>2. /\ IsSequence(a) /\ Len(a) = n /\ \A i \in 1 .. n : a[i] = ws[i]
      /\ IsSequence(b) /\ Len(b) = n /\ \A i \in 1 .. n : b[i] = all[i]
  BY <1>1, SubSequence
<1> HIDE DEF a, b
<1>3. \A i \in 1 .. n : a[i] = b[i]
  BY <1>1, <1>2 DEF Beginning
<1>4. a = b
  BY <1>2, <1>3, EqualSequences
<1> QED BY <1>4 DEF a, b

-----------------------------------------------------------------------------
(* The history: every beginning of the trace has a run, and the windows of *)
(* an earlier run begin the windows of a later one.                        *)

RunOf(events, n) == AfterEvents(SubSeq(events, 1, n))

Kinds == {"packet", "addresses", "boundary"}

GoodRun(run) ==
  /\ run = [agg |-> run.agg, windows |-> run.windows]
  /\ run.agg = [local |-> run.agg.local, flows |-> run.agg.flows,
                buckets |-> run.agg.buckets]
  /\ IsFiniteSet(DOMAIN run.agg.buckets)
  /\ WindowsToWrite(run.windows)

GoodTrace(events) ==
  /\ IsSequence(events)
  /\ \A n \in 0 .. Len(events) :
       GoodRun(RunOf(events, n)) /\ Beginning(RunOf(events, n).windows, AfterEvents(events).windows)

LEMMA BeginningOfItself ==
  ASSUME NEW ws, WindowsToWrite(ws)
  PROVE  Beginning(ws, ws)
BY SequenceFacts DEF Beginning, WindowsToWrite

LEMMA BeginningOfLonger ==
  ASSUME NEW a, NEW b, NEW c, WindowsToWrite(a), WindowsToWrite(b), WindowsToWrite(c),
         Beginning(a, b), Beginning(b, c)
  PROVE  Beginning(a, c)
<1>1. Len(a) \in Nat /\ Len(b) \in Nat /\ Len(c) \in Nat
  BY SequenceFacts DEF WindowsToWrite
<1> QED BY <1>1 DEF Beginning

LEMMA WindowAdded ==
  ASSUME NEW ws, WindowsToWrite(ws), NEW w, IsSequence(w), w # <<>>
  PROVE  WindowsToWrite(Append(ws, w)) /\ Beginning(ws, Append(ws, w))
<1> DEFINE more == Append(ws, w)
<1>1. /\ Len(ws) \in Nat /\ IsSequence(more) /\ Len(more) = Len(ws) + 1
      /\ \A i \in 1 .. Len(ws) : more[i] = ws[i]
      /\ more[Len(ws) + 1] = w
  BY AppendSequence, SequenceFacts DEF WindowsToWrite
<1> HIDE DEF more
<1>2. \A i \in 1 .. Len(more) : IsSequence(more[i]) /\ more[i] # <<>>
  <2> SUFFICES ASSUME NEW i \in 1 .. Len(more) PROVE IsSequence(more[i]) /\ more[i] # <<>>
    OBVIOUS
  <2>1. CASE i = Len(ws) + 1
    BY <1>1, <2>1
  <2>2. CASE i # Len(ws) + 1
    <3>1. i \in 1 .. Len(ws)
      BY <1>1, <2>2
    <3> QED BY <1>1, <3>1 DEF WindowsToWrite
  <2> QED BY <2>1, <2>2
<1>3. WindowsToWrite(more) /\ Beginning(ws, more)
  BY <1>1, <1>2 DEF WindowsToWrite, Beginning
<1> QED BY <1>3 DEF more

(* Observing a packet keeps the aggregator finite.                         *)
LEMMA ObserveKeepsFinite ==
  ASSUME NEW a, a = [local |-> a.local, flows |-> a.flows, buckets |-> a.buckets],
         IsFiniteSet(DOMAIN a.buckets), NEW p
  PROVE  LET b == Observe(a, p) IN
         /\ b = [local |-> b.local, flows |-> b.flows, buckets |-> b.buckets]
         /\ IsFiniteSet(DOMAIN b.buckets)
<1> DEFINE b == Observe(a, p)
<1>1. CASE Accounted(a, p) # "counted"
  BY <1>1 DEF Observe
<1>2. CASE Accounted(a, p) = "counted"
  <2> DEFINE flow == FlowOf(a.local, p)  key == KeyOf(flow)
             old == BucketAt(a.buckets, key)
             new == [count |-> old.count + (IF flow \in a.flows THEN 0 ELSE 1),
                     bytes |-> old.bytes + p.ip_length]
             bs == [k \in DOMAIN a.buckets \cup {key} |->
                      IF k = key THEN new ELSE a.buckets[k]]
  <2>1. b = [a EXCEPT !.flows = a.flows \cup {flow}, !.buckets = bs]
    BY <1>2 DEF Observe, Credit
  <2>2. DOMAIN bs = DOMAIN a.buckets \cup {key}
    OBVIOUS
  <2> HIDE DEF bs, flow, key
  <2>3. b = [local |-> a.local, flows |-> a.flows \cup {flow}, buckets |-> bs]
    BY <2>1
  <2>4. IsFiniteSet(DOMAIN bs)
    BY <2>2, FS_AddElement
  <2> QED BY <2>3, <2>4
<1> QED BY <1>1, <1>2

LEMMA AccountKeepsGood ==
  ASSUME NEW run, GoodRun(run), NEW event, event.kind \in Kinds
  PROVE  /\ GoodRun(Account(run, event))
         /\ Beginning(run.windows, Account(run, event).windows)
<1> DEFINE after == Account(run, event)  a == run.agg
<1>1. CASE event.kind = "packet"
  <2> DEFINE b == Observe(a, event.packet)
  <2>1. after = [run EXCEPT !.agg = b]
    BY <1>1 DEF Account
  <2> HIDE DEF b
  <2>2. after = [agg |-> b, windows |-> run.windows]
    BY <2>1 DEF GoodRun
  <2>3. b = [local |-> b.local, flows |-> b.flows, buckets |-> b.buckets]
        /\ IsFiniteSet(DOMAIN b.buckets)
    BY ObserveKeepsFinite DEF GoodRun, b
  <2> HIDE DEF after
  <2>4. after.agg = b /\ after.windows = run.windows
    BY <2>2
  <2>5. GoodRun(after) /\ Beginning(run.windows, after.windows)
    BY <2>2, <2>3, <2>4, BeginningOfItself DEF GoodRun
  <2> QED BY <2>5 DEF after
<1>2. CASE event.kind = "addresses"
  <2> DEFINE b == ReplaceLocal(a, event.local)
  <2>1. after = [run EXCEPT !.agg = b]
    BY <1>2 DEF Account
  <2>2. b = [local |-> event.local, flows |-> a.flows, buckets |-> a.buckets]
    BY DEF GoodRun, ReplaceLocal
  <2> HIDE DEF b
  <2>3. after = [agg |-> b, windows |-> run.windows]
    BY <2>1 DEF GoodRun
  <2>4. b = [local |-> b.local, flows |-> b.flows, buckets |-> b.buckets]
        /\ IsFiniteSet(DOMAIN b.buckets)
    BY <2>2 DEF GoodRun
  <2> HIDE DEF after
  <2>5. after.agg = b /\ after.windows = run.windows
    BY <2>3
  <2>6. GoodRun(after) /\ Beginning(run.windows, after.windows)
    BY <2>3, <2>4, <2>5, BeginningOfItself DEF GoodRun
  <2> QED BY <2>6 DEF after
<1>3. CASE event.kind = "boundary"
  <2> DEFINE b == Flushed(a)  w == FlushRecords(a, event.end)
             ws == IF w = <<>> THEN run.windows ELSE Append(run.windows, w)
  <2>1. after = [agg |-> b, windows |-> ws]
    BY <1>3 DEF Account
  <2>2. b = [local |-> a.local, flows |-> {}, buckets |-> NoBuckets]
    <3>1. a = [local |-> a.local, flows |-> a.flows, buckets |-> a.buckets]
      BY DEF GoodRun
    <3> HIDE DEF a
    <3>2. b = [a EXCEPT !.flows = {}, !.buckets = NoBuckets]
      BY DEF Flushed
    <3> HIDE DEF b
    <3> QED BY <3>1, <3>2
  <2>3. IsFiniteSet(DOMAIN NoBuckets)
    BY FS_EmptySet DEF NoBuckets
  <2> HIDE DEF b
  <2>4. b = [local |-> b.local, flows |-> b.flows, buckets |-> b.buckets]
        /\ IsFiniteSet(DOMAIN b.buckets)
    BY <2>2, <2>3
  <2>5. IsSequence(w)
    BY FlushRecordsSequence DEF GoodRun
  <2> HIDE DEF w
  <2>6. WindowsToWrite(ws) /\ Beginning(run.windows, ws)
    <3>1. WindowsToWrite(run.windows)
      BY DEF GoodRun
    <3>2. CASE w = <<>>
      BY <3>1, <3>2, BeginningOfItself
    <3>3. CASE w # <<>>
      BY <2>5, <3>1, <3>3, WindowAdded
    <3> QED BY <3>2, <3>3
  <2> HIDE DEF ws, after
  <2>7. after.agg = b /\ after.windows = ws
    BY <2>1
  <2>8. GoodRun(after) /\ Beginning(run.windows, after.windows)
    BY <2>1, <2>4, <2>6, <2>7 DEF GoodRun
  <2> QED BY <2>8 DEF after
<1> QED BY <1>1, <1>2, <1>3 DEF Kinds

LEMMA TraceGrows ==
  ASSUME NEW events, GoodTrace(events), NEW e, e.kind \in Kinds
  PROVE  /\ GoodTrace(Append(events, e))
         /\ Len(Append(events, e)) = Len(events) + 1
         /\ \A i \in 1 .. Len(events) : Append(events, e)[i] = events[i]
         /\ Append(events, e)[Len(events) + 1] = e
         /\ \A n \in 0 .. Len(events) : RunOf(Append(events, e), n) = RunOf(events, n)
         /\ AfterEvents(Append(events, e)) = Account(AfterEvents(events), e)
         /\ GoodRun(AfterEvents(events))
         /\ Beginning(AfterEvents(events).windows, AfterEvents(Append(events, e)).windows)
<1> DEFINE more == Append(events, e)  r == AfterEvents(events)  q == AfterEvents(more)
<1>1. /\ Len(events) \in Nat /\ IsSequence(events) /\ IsSequence(more)
      /\ Len(more) = Len(events) + 1
      /\ \A i \in 1 .. Len(events) : more[i] = events[i]
      /\ more[Len(events) + 1] = e
  BY AppendSequence, SequenceFacts DEF GoodTrace
<1>2. \A n \in 0 .. Len(events) : RunOf(more, n) = RunOf(events, n)
  BY <1>1, BeginningStays DEF RunOf
<1>3. RunOf(events, Len(events)) = r /\ RunOf(more, Len(events) + 1) = q
  BY <1>1, WholeSequence DEF RunOf
<1>4. q = Account(r, e)
  BY <1>1, AfterOneMore
<1>5. GoodRun(r)
  BY <1>1, <1>3 DEF GoodTrace
<1> HIDE DEF more, r, q
<1>6. GoodRun(q) /\ Beginning(r.windows, q.windows)
  BY <1>4, <1>5, AccountKeepsGood
<1>7. \A n \in 0 .. Len(more) : GoodRun(RunOf(more, n)) /\ Beginning(RunOf(more, n).windows, q.windows)
  <2> SUFFICES ASSUME NEW n \in 0 .. Len(more)
               PROVE  GoodRun(RunOf(more, n)) /\ Beginning(RunOf(more, n).windows, q.windows)
    OBVIOUS
  <2>1. CASE n = Len(events) + 1
    BY <1>3, <1>6, <2>1, BeginningOfItself DEF GoodRun
  <2>2. CASE n # Len(events) + 1
    <3>1. n \in 0 .. Len(events)
      BY <1>1, <2>2
    <3>2. GoodRun(RunOf(events, n)) /\ Beginning(RunOf(events, n).windows, r.windows)
      BY <3>1 DEF GoodTrace, r
    <3> QED BY <1>2, <1>5, <1>6, <3>1, <3>2, BeginningOfLonger DEF GoodRun
  <2> QED BY <2>1, <2>2
<1> QED BY <1>1, <1>2, <1>4, <1>5, <1>6, <1>7 DEF GoodTrace, more, r, q

LEMMA RunGoesOn ==
  ASSUME NEW events, GoodTrace(events), NEW n \in 0 .. Len(events) - 1
  PROVE  RunOf(events, n + 1) = Account(RunOf(events, n), events[n + 1])
<1>1. n \in 0 .. Len(events) /\ Len(events) \in Nat
  BY SequenceFacts DEF GoodTrace
<1>2. IsSequence(SubSeq(events, 1, n))
  BY <1>1, SubSequence DEF GoodTrace
<1>3. SubSeq(events, 1, n + 1) = Append(SubSeq(events, 1, n), events[n + 1])
  BY BeginningGrows DEF GoodTrace
<1> QED BY <1>2, <1>3, AfterOneMore DEF RunOf

-----------------------------------------------------------------------------
(* The inductive invariant.                                                *)

\* How many events of the trace the main thread has taken off the queue.
Taken == Len(trace) - Len(eventQ)

\* Every event put is of a kind, and a packet put is a packet parsed and not
\* counted as a drop, until the thread has failed.
CaptureInv ==
  /\ GoodTrace(trace)
  /\ IsSequence(eventQ)
  /\ cpc = "boundary" => outgoing.kind = "boundary"
  /\ cpc = "send_addresses" => outgoing.kind = "addresses"
  /\ counts \in [{"parsed", "queue_drops"} \cup SkipReason -> Nat]
  /\ cpc # "err" => counts["parsed"] = PacketsPut + counts["queue_drops"]

Running == {"recv", "submit", "send_final"}
Ending == {"stop", "drop_rx", "drop_tx", "join_capture", "join_writer", "exited"}

\* The main thread has accounted for a beginning of the trace: the queue holds
\* the rest of it, and nothing once the loop has ended without an error.
MainInv ==
  /\ mpc \in Running \cup Ending
  /\ result \in {"none", "ok", "err"}
  /\ result = "none" <=> mpc \in Running
  /\ result # "err" =>
       /\ Taken \in 0 .. Len(trace)
       /\ \A i \in 1 .. Len(eventQ) : eventQ[i] = trace[Taken + i]
       /\ agg = RunOf(trace, Taken).agg
  /\ mpc = "send_final" \/ result = "ok" => eventQ = <<>> /\ CaptureReturned
  /\ IsSequence(batch)
  /\ mpc \notin {"submit", "send_final"} => batch = <<>>
  /\ mpc = "send_final" => batch # <<>>
  /\ mpc \in {"join_writer", "exited"} => CaptureReturned
  /\ mpc = "exited" => exit = Verdict /\ wpc \in Returned

Writing == {"lookup", "detail", "ip"}
Broken == {"failed", "returning", "err"}

\* Windows handed to the writer once it has written n.
Sent(n) == n + (IF wpc \in Writing THEN 1 ELSE 0) + Len(outQ)

DetailHolds(ws) == detail = [lines |-> DetailOf(ws), torn |-> FALSE]
IpHolds(ws) == ip = [lines |-> IpOf(ws), torn |-> FALSE]

\* The logs are cut somewhere within window n + 1, or after n windows.
CutAfter(n, all) ==
  LET done == SubSeq(all, 1, n) IN
  \/ LogsHold(done)
  \/ /\ n < Len(all)
     /\ IpHolds(done)
     /\ IsPrefix(DetailOf(done), detail.lines)
     /\ IsPrefix(detail.lines, DetailOf(Append(done, all[n + 1])))
  \/ /\ n < Len(all)
     /\ DetailHolds(Append(done, all[n + 1]))
     /\ IsPrefix(IpOf(done), ip.lines)
     /\ IsPrefix(ip.lines, IpOf(Append(done, all[n + 1])))

\* n windows are written, and the next ones are in the hands of the writer, on
\* its queue and in the hands of the main thread, in this order.
Written(n, all) ==
  /\ n \in 0 .. Len(all)
  /\ wpc \in {"recv", "ok", "lookup", "detail"} => LogsHold(SubSeq(all, 1, n))
  /\ wpc = "ip" => IpHolds(SubSeq(all, 1, n)) /\ DetailHolds(SubSeq(all, 1, n + 1))
  /\ wpc \in Broken => CutAfter(n, all)
  /\ wpc \in Writing => n < Len(all) /\ window = all[n + 1]

Queued(n, all) ==
  wpc \notin Broken =>
    /\ IsSequence(outQ)
    /\ Sent(n) <= Len(all)
    /\ \A i \in 1 .. Len(outQ) : outQ[i] = all[Sent(n) - Len(outQ) + i]

Pending(n, all) ==
  wpc \notin Broken =>
    /\ result = "none" =>
         LET ws == RunOf(trace, Taken).windows IN
         IF batch = <<>> THEN Sent(n) = Len(ws)
         ELSE Sent(n) + 1 = Len(ws) /\ batch = ws[Sent(n) + 1]
    /\ result = "ok" => Sent(n) = Len(all)
    /\ result = "err" => Sent(n) < Len(all)

WriterInv ==
  /\ wpc \in {"recv", "ok"} \cup Writing \cup Broken
  /\ outRxOpen <=> wpc \notin Returned
  /\ wpc = "ok" => outQ = <<>> /\ ~OutputTxOpen
  /\ \E n \in 0 .. Len(Sequential) :
       Written(n, Sequential) /\ Queued(n, Sequential) /\ Pending(n, Sequential)

IInv == CaptureInv /\ MainInv /\ WriterInv

-----------------------------------------------------------------------------
(* The parts of the invariant under the steps of the others.               *)

LEMMA GoodTraceFacts ==
  ASSUME NEW events, GoodTrace(events)
  PROVE  /\ IsSequence(events) /\ Len(events) \in Nat
         /\ GoodRun(AfterEvents(events)) /\ WindowsToWrite(AfterEvents(events).windows)
         /\ RunOf(events, Len(events)) = AfterEvents(events)
         /\ \A k \in 0 .. Len(events) :
              /\ GoodRun(RunOf(events, k))
              /\ WindowsToWrite(RunOf(events, k).windows)
              /\ Beginning(RunOf(events, k).windows, AfterEvents(events).windows)
<1>1. IsSequence(events) /\ Len(events) \in Nat /\ Len(events) \in 0 .. Len(events)
  BY SequenceFacts DEF GoodTrace
<1>2. RunOf(events, Len(events)) = AfterEvents(events)
  BY <1>1, WholeSequence DEF RunOf
<1>3. \A k \in 0 .. Len(events) :
         GoodRun(RunOf(events, k)) /\ Beginning(RunOf(events, k).windows, AfterEvents(events).windows)
  BY DEF GoodTrace
<1>4. GoodRun(AfterEvents(events))
  BY <1>1, <1>2, <1>3
<1> QED BY <1>1, <1>2, <1>3, <1>4 DEF GoodRun

LEMMA WrittenStays ==
  ASSUME NEW all, NEW more, WindowsToWrite(all), WindowsToWrite(more),
         Beginning(all, more), NEW n, Written(n, all),
         UNCHANGED <<wpc, window, detail, ip>>
  PROVE  Written(n, more)'
<1>1. /\ n \in 0 .. Len(all) /\ n \in 0 .. Len(more) /\ n \in Nat
      /\ Len(all) \in Nat /\ Len(more) \in Nat /\ Len(all) <= Len(more)
  BY SequenceFacts DEF Written, WindowsToWrite, Beginning
<1>2. SubSeq(all, 1, n) = SubSeq(more, 1, n)
  BY <1>1, SameBeginning DEF WindowsToWrite
<1>3. n < Len(all) => /\ all[n + 1] = more[n + 1] /\ n < Len(more)
                      /\ SubSeq(all, 1, n + 1) = SubSeq(more, 1, n + 1)
  <2> SUFFICES ASSUME n < Len(all)
               PROVE  /\ all[n + 1] = more[n + 1] /\ n < Len(more)
                      /\ SubSeq(all, 1, n + 1) = SubSeq(more, 1, n + 1)
    OBVIOUS
  <2>1. n + 1 \in 0 .. Len(all) /\ n + 1 \in 1 .. Len(all)
    BY <1>1
  <2> QED BY <1>1, <2>1, SameBeginning DEF WindowsToWrite, Beginning
<1>4. CutAfter(n, all) => CutAfter(n, more)'
  BY <1>2, <1>3 DEF CutAfter, LogsHold, IpHolds, DetailHolds
<1>5. /\ LogsHold(SubSeq(all, 1, n)) => LogsHold(SubSeq(more, 1, n))'
      /\ IpHolds(SubSeq(all, 1, n)) => IpHolds(SubSeq(more, 1, n))'
      /\ n < Len(all) /\ DetailHolds(SubSeq(all, 1, n + 1))
           => DetailHolds(SubSeq(more, 1, n + 1))'
  BY <1>2, <1>3 DEF LogsHold, IpHolds, DetailHolds
<1> QED BY <1>1, <1>3, <1>4, <1>5 DEF Written, Writing

LEMMA SentIsANumber ==
  ASSUME NEW n \in Nat, IsSequence(outQ)
  PROVE  Sent(n) \in Nat /\ Sent(n) - Len(outQ) \in Nat /\ Len(outQ) \in Nat
BY SequenceFacts DEF Sent

LEMMA QueuedStays ==
  ASSUME NEW all, NEW more, WindowsToWrite(all), WindowsToWrite(more),
         Beginning(all, more), NEW n \in Nat, Queued(n, all), UNCHANGED <<wpc, outQ>>
  PROVE  Queued(n, more)' /\ Sent(n)' = Sent(n)
<1>1. Len(all) \in Nat /\ Len(more) \in Nat /\ Len(all) <= Len(more)
  BY SequenceFacts DEF WindowsToWrite, Beginning
<1>2. Sent(n)' = Sent(n)
  BY DEF Sent
<1>3. CASE wpc \in Broken
  BY <1>2, <1>3 DEF Queued
<1>4. CASE wpc \notin Broken
  <2>1. /\ Sent(n) \in Nat /\ Sent(n) - Len(outQ) \in Nat /\ Len(outQ) \in Nat
        /\ Sent(n) <= Len(all)
        /\ \A i \in 1 .. Len(outQ) : outQ[i] = all[Sent(n) - Len(outQ) + i]
    BY <1>4, SentIsANumber DEF Queued
  <2>2. \A i \in 1 .. Len(outQ) : outQ[i] = more[Sent(n) - Len(outQ) + i]
    <3> SUFFICES ASSUME NEW i \in 1 .. Len(outQ)
                 PROVE  outQ[i] = more[Sent(n) - Len(outQ) + i]
      OBVIOUS
    <3>1. Sent(n) - Len(outQ) + i \in 1 .. Len(all)
      BY <1>1, <2>1
    <3> QED BY <2>1, <3>1 DEF Beginning
  <2>3. Sent(n) <= Len(more)
    BY <1>1, <2>1
  <2> QED BY <1>2, <1>4, <2>2, <2>3 DEF Queued
<1> QED BY <1>2, <1>3, <1>4

\* What the writer sees of a step of another thread that hands it nothing.
LEMMA WriterStays ==
  ASSUME CaptureInv, CaptureInv', WriterInv,
         Beginning(Sequential, Sequential'),
         UNCHANGED <<writerVars, outQ>>,
         OutputTxOpen' => OutputTxOpen,
         \A n \in 0 .. Len(Sequential) :
            Written(n, Sequential) /\ Queued(n, Sequential) /\ Pending(n, Sequential)
              /\ Sent(n)' = Sent(n)
              => Pending(n, Sequential)'
  PROVE  WriterInv'
<1>1. PICK all : all = Sequential
  OBVIOUS
<1>2. PICK more : more = Sequential'
  OBVIOUS
<1>3. WindowsToWrite(all) /\ WindowsToWrite(more) /\ Beginning(all, more)
  BY <1>1, <1>2, GoodTraceFacts DEF CaptureInv, Sequential
<1>4. PICK n \in 0 .. Len(all) : Written(n, all) /\ Queued(n, all) /\ Pending(n, all)
  BY <1>1 DEF WriterInv
<1>5. Len(all) \in Nat /\ Len(more) \in Nat /\ Len(all) <= Len(more) /\ n \in Nat
  BY <1>3, SequenceFacts DEF WindowsToWrite, Beginning
<1>6. Written(n, more)'
  BY <1>3, <1>4, WrittenStays DEF writerVars
<1>7. Queued(n, more)' /\ Sent(n)' = Sent(n)
  BY <1>3, <1>4, <1>5, QueuedStays DEF writerVars
<1>8. Pending(n, Sequential)'
  BY <1>1, <1>4, <1>7
<1>9. n \in 0 .. Len(Sequential)'
  BY <1>2, <1>5
<1>10. Written(n, Sequential)' /\ Queued(n, Sequential)'
  BY <1>2, <1>6, <1>7
<1> QED BY <1>8, <1>9, <1>10 DEF WriterInv, writerVars

-----------------------------------------------------------------------------
(* The capture thread.                                                     *)

PacketsIn(events) == Cardinality({i \in DOMAIN events : events[i].kind = "packet"})

LEMMA PacketCount ==
  ASSUME NEW events, IsSequence(events), NEW e
  PROVE  /\ PacketsIn(events) \in Nat
         /\ PacketsIn(Append(events, e))
              = PacketsIn(events) + (IF e.kind = "packet" THEN 1 ELSE 0)
<1> DEFINE more == Append(events, e)  n == Len(events)
           S == {i \in DOMAIN events : events[i].kind = "packet"}
           T == {i \in DOMAIN more : more[i].kind = "packet"}
<1>1. /\ n \in Nat /\ IsSequence(more) /\ Len(more) = n + 1
      /\ \A i \in 1 .. n : more[i] = events[i]
      /\ more[n + 1] = e
      /\ DOMAIN events = 1 .. n
  BY AppendSequence, SequenceFacts
<1>2. DOMAIN more = 1 .. n + 1
  BY <1>1, SequenceFacts
<1> HIDE DEF more
<1>3. IsFiniteSet(S) /\ Cardinality(S) \in Nat
  <2>1. IsFiniteSet(1 .. n)
    BY <1>1, FS_Interval
  <2>2. S \in SUBSET (1 .. n)
    BY <1>1
  <2> QED BY <2>1, <2>2, FS_Subset, FS_CardinalityType
<1>4. n + 1 \notin S
  BY <1>1
<1>5. T = IF e.kind = "packet" THEN S \cup {n + 1} ELSE S
  BY <1>1, <1>2
<1>6. Cardinality(S \cup {n + 1}) = Cardinality(S) + 1
  BY <1>3, <1>4, FS_AddElement
<1>7. Cardinality(T) = Cardinality(S) + (IF e.kind = "packet" THEN 1 ELSE 0)
  <2> HIDE DEF S, T
  <2> QED BY <1>3, <1>5, <1>6
<1>8. PacketsIn(events) = Cardinality(S) /\ PacketsIn(Append(events, e)) = Cardinality(T)
  BY DEF PacketsIn, more
<1> QED BY <1>3, <1>7, <1>8

\* Packets parsed, less those counted as drops.
Kept(c) == c["parsed"] - c["queue_drops"]

Counting == {"parsed", "queue_drops"} \cup SkipReason

LEMMA OneCounted ==
  ASSUME counts \in [Counting -> Nat]
  PROVE  /\ Counted("parsed") \in [Counting -> Nat]
         /\ Kept(Counted("parsed")) = Kept(counts) + 1
         /\ [Counted("parsed") EXCEPT !["queue_drops"] = @ + 1] \in [Counting -> Nat]
         /\ Kept([Counted("parsed") EXCEPT !["queue_drops"] = @ + 1]) = Kept(counts)
         /\ \A reason \in SkipReason : /\ Counted(reason) \in [Counting -> Nat]
                                       /\ Kept(Counted(reason)) = Kept(counts)
<1>1. "parsed" \in Counting /\ "queue_drops" \in Counting /\ SkipReason \subseteq Counting
      /\ "parsed" \notin SkipReason /\ "queue_drops" \notin SkipReason
      /\ "parsed" # "queue_drops"
  BY DEF Counting, SkipReason
<1> QED BY <1>1 DEF Counted, Kept

Puts(e) ==
  /\ eventQ' = Append(eventQ, e)
  /\ e.kind \in Kinds
  /\ Kept(counts') = Kept(counts) + (IF e.kind = "packet" THEN 1 ELSE 0)

(* What a step of capture_loop does to the queue: nothing, or one event of *)
(* one of the three kinds (runtime.rs:76-123).                             *)
LEMMA CaptureEffect ==
  ASSUME CaptureInv, CaptureStep
  PROVE  /\ cpc \in Stage
         /\ cpc' = "boundary" => outgoing'.kind = "boundary"
         /\ cpc' = "send_addresses" => outgoing'.kind = "addresses"
         /\ counts' \in [Counting -> Nat]
         /\ \/ eventQ' = eventQ /\ (cpc' # "err" => Kept(counts') = Kept(counts))
            \/ \E e : Puts(e)
<1> USE DEF Stage
<1>1. counts \in [Counting -> Nat] /\ Kept(counts) \in Int
  BY DEF CaptureInv, Counting, Kept
<1>2. \A e : Kept(counts) + (IF e.kind = "packet" THEN 1 ELSE 0)
               = IF e.kind = "packet" THEN Kept(counts) + 1 ELSE Kept(counts)
  BY <1>1
<1>3. CASE StopSeen \/ ReadIdle \/ ReadFails \/ ReportDrops
  BY <1>1, <1>3 DEF StopSeen, ReadIdle, ReadFails, ReportDrops, EndIteration, Fail
<1>4. CASE BeginIteration
  BY <1>1, <1>4 DEF BeginIteration, StageAfterBoundary, StageAfterRefresh, Boundary
<1>5. CASE SendBoundary
  <2>1. /\ cpc = "boundary" /\ counts' = counts
        /\ cpc' \notin {"boundary", "send_addresses"}
        /\ eventQ' = eventQ \/ eventQ' = Append(eventQ, outgoing)
    BY <1>5 DEF SendBoundary, StageAfterBoundary, StageAfterRefresh, Fail
  <2>2. outgoing.kind = "boundary"
    BY <2>1 DEF CaptureInv
  <2> QED BY <1>1, <1>2, <2>1, <2>2 DEF Puts, Kinds
<1>6. CASE ReadAddresses
  <2>1. /\ cpc = "addresses" /\ counts' = counts /\ eventQ' = eventQ
        /\ \/ cpc' = "send_addresses" /\ \E local \in LocalSets : outgoing' = Addresses(local)
           \/ cpc' = "err"
    BY <1>6 DEF ReadAddresses, Fail
  <2> QED BY <1>1, <2>1 DEF Addresses
<1>7. CASE SendAddresses
  <2>1. /\ cpc = "send_addresses" /\ counts' = counts
        /\ cpc' \notin {"boundary", "send_addresses"}
        /\ eventQ' = eventQ \/ eventQ' = Append(eventQ, outgoing)
    BY <1>7 DEF SendAddresses, StageAfterRefresh, Fail
  <2>2. outgoing.kind = "addresses"
    BY <2>1 DEF CaptureInv
  <2> QED BY <1>1, <1>2, <2>1, <2>2 DEF Puts, Kinds
<1>8. ASSUME NEW p \in Packets, ReadPacket(p)
      PROVE  /\ cpc = "read" /\ cpc' \in {"top", "err"}
             /\ counts' \in [Counting -> Nat]
             /\ \/ eventQ' = eventQ /\ (cpc' # "err" => Kept(counts') = Kept(counts))
                \/ \E e : Puts(e)
  <2>1. Packet(p).kind = "packet"
    BY DEF Packet
  <2>2. \/ /\ cpc' = "err" /\ eventQ' = eventQ /\ counts' = Counted("parsed")
        \/ /\ cpc' = "top" /\ eventQ' = Append(eventQ, Packet(p))
           /\ counts' = Counted("parsed")
        \/ /\ cpc' = "top" /\ eventQ' = eventQ
           /\ counts' = [Counted("parsed") EXCEPT !["queue_drops"] = @ + 1]
    BY <1>8 DEF ReadPacket, Fail, EndIteration
  <2>3. cpc = "read"
    BY <1>8 DEF ReadPacket
  <2> QED BY <1>1, <2>1, <2>2, <2>3, OneCounted DEF Puts, Kinds
<1>9. ASSUME NEW reason \in SkipReason, ReadSkipped(reason)
      PROVE  /\ cpc = "read" /\ cpc' = "top" /\ eventQ' = eventQ
             /\ counts' \in [Counting -> Nat] /\ Kept(counts') = Kept(counts)
  BY <1>1, <1>9, OneCounted DEF ReadSkipped, EndIteration
<1> QED BY <1>3, <1>4, <1>5, <1>6, <1>7, <1>8, <1>9 DEF CaptureStep

(* The capture thread keeps the invariant: what it puts on the queue ends  *)
(* the trace, and the main thread and the writer do not see it yet.        *)
LEMMA CaptureKeeps ==
  ASSUME IInv, Capture
  PROVE  IInv'
<1>1. CaptureInv /\ MainInv /\ WriterInv
  BY DEF IInv
<1>2. /\ UNCHANGED <<mainVars, writerVars, outQ>>
      /\ cpc \in Stage
      /\ cpc' = "boundary" => outgoing'.kind = "boundary"
      /\ cpc' = "send_addresses" => outgoing'.kind = "addresses"
      /\ counts' \in [Counting -> Nat]
  BY <1>1, CaptureEffect DEF Capture
<1>3. IsSequence(eventQ) /\ GoodTrace(trace) /\ IsSequence(trace)
      /\ Len(eventQ) \in Nat /\ Len(trace) \in Nat
  BY <1>1, GoodTraceFacts, SequenceFacts DEF CaptureInv
<1>4. PacketsPut = PacketsIn(trace) /\ PacketsPut' = PacketsIn(trace')
  BY DEF PacketsPut, PacketsIn
<1>5. cpc # "err" /\ ~CaptureReturned /\ Kept(counts) = PacketsPut
  <2>1. cpc # "err" /\ ~CaptureReturned
    BY <1>2 DEF Stage, CaptureReturned, Returned
  <2>2. counts["parsed"] \in Nat /\ counts["queue_drops"] \in Nat /\ PacketsPut \in Nat
    BY <1>1, <1>3, <1>4, PacketCount DEF CaptureInv
  <2> QED BY <1>1, <2>1, <2>2 DEF CaptureInv, Kept
<1>6. /\ result # "ok" /\ mpc \notin {"send_final", "join_writer", "exited"}
      /\ mpc' = mpc /\ agg' = agg /\ batch' = batch /\ result' = result /\ exit' = exit
  BY <1>1, <1>2, <1>5 DEF MainInv, mainVars
<1>7. counts'["parsed"] \in Nat /\ counts'["queue_drops"] \in Nat /\ PacketsPut \in Nat
  BY <1>2, <1>3, <1>4, PacketCount DEF Counting
<1>8. CASE eventQ' = eventQ /\ (cpc' # "err" => Kept(counts') = Kept(counts))
  <2>1. trace' = trace
    BY <1>3, <1>8 DEF Capture
  <2>2. CaptureInv'
    <3>1. cpc' # "err" => counts'["parsed"] = PacketsPut' + counts'["queue_drops"]
      BY <1>4, <1>5, <1>7, <1>8, <2>1 DEF Kept
    <3> QED BY <1>1, <1>2, <1>8, <2>1, <3>1 DEF CaptureInv, Counting
  <2>3. MainInv'
    BY <1>1, <1>6, <1>8, <2>1 DEF MainInv, Taken
  <2>4. Sequential' = Sequential /\ Taken' = Taken
    BY <1>8, <2>1 DEF Sequential, Taken
  <2>5. WriterInv'
    BY <1>1, <1>2, <1>6, <1>8, <2>1, <2>4 DEF WriterInv, Written, Queued, Pending, Sent,
       LogsHold, IpHolds, DetailHolds, CutAfter, writerVars, OutputTxOpen
  <2> QED BY <2>2, <2>3, <2>5 DEF IInv
<1>9. ASSUME NEW e, Puts(e) PROVE IInv'
  <2>1. /\ IsSequence(eventQ') /\ Len(eventQ') = Len(eventQ) + 1
        /\ \A i \in 1 .. Len(eventQ) : eventQ'[i] = eventQ[i]
        /\ eventQ'[Len(eventQ) + 1] = e
    BY <1>3, <1>9, AppendSequence DEF Puts
  <2>2. trace' = Append(trace, e)
    <3>1. Len(eventQ') > Len(eventQ) /\ Last(eventQ') = e
      BY <1>3, <2>1 DEF Last
    <3> QED BY <3>1 DEF Capture
  <2>3. /\ GoodTrace(trace') /\ Len(trace') = Len(trace) + 1
        /\ \A i \in 1 .. Len(trace) : trace'[i] = trace[i]
        /\ trace'[Len(trace) + 1] = e
        /\ \A n \in 0 .. Len(trace) : RunOf(trace', n) = RunOf(trace, n)
        /\ Beginning(Sequential, Sequential')
    BY <1>3, <1>9, <2>2, TraceGrows DEF Puts, Sequential
  <2>4. CaptureInv'
    <3>1. PacketsPut' = PacketsPut + (IF e.kind = "packet" THEN 1 ELSE 0)
      BY <1>3, <1>4, <2>2, PacketCount
    <3>2. counts'["parsed"] = PacketsPut' + counts'["queue_drops"]
      BY <1>5, <1>7, <1>9, <3>1 DEF Puts, Kept
    <3> QED BY <1>2, <2>1, <2>3, <3>2 DEF CaptureInv, Counting
  <2>5. Taken' = Taken
    BY <1>3, <2>1, <2>3 DEF Taken
  <2>6. MainInv'
    <3>1. result # "err" =>
            /\ Taken' \in 0 .. Len(trace')
            /\ \A i \in 1 .. Len(eventQ') : eventQ'[i] = trace'[Taken' + i]
            /\ agg' = RunOf(trace', Taken').agg
      <4> SUFFICES ASSUME result # "err"
                   PROVE  /\ Taken' \in 0 .. Len(trace')
                          /\ \A i \in 1 .. Len(eventQ') : eventQ'[i] = trace'[Taken' + i]
                          /\ agg' = RunOf(trace', Taken').agg
        OBVIOUS
      <4>1. /\ Taken \in 0 .. Len(trace) /\ Taken + Len(eventQ) = Len(trace)
            /\ \A i \in 1 .. Len(eventQ) : eventQ[i] = trace[Taken + i]
            /\ agg = RunOf(trace, Taken).agg
        BY <1>1, <1>3 DEF MainInv, Taken
      <4>2. \A i \in 1 .. Len(eventQ') : eventQ'[i] = trace'[Taken + i]
        <5> SUFFICES ASSUME NEW i \in 1 .. Len(eventQ')
                     PROVE  eventQ'[i] = trace'[Taken + i]
          OBVIOUS
        <5>1. CASE i = Len(eventQ) + 1
          <6>1. Taken + i = Len(trace) + 1
            BY <1>3, <4>1, <5>1
          <6> QED BY <2>1, <2>3, <5>1, <6>1
        <5>2. CASE i # Len(eventQ) + 1
          <6>1. i \in 1 .. Len(eventQ) /\ Taken + i \in 1 .. Len(trace)
            BY <1>3, <2>1, <4>1, <5>2
          <6> QED BY <2>1, <2>3, <4>1, <6>1
        <5> QED BY <5>1, <5>2
      <4> QED BY <1>3, <1>6, <2>3, <2>5, <4>1, <4>2
    <3> QED BY <1>1, <1>6, <3>1 DEF MainInv
  <2>7. WriterInv'
    <3>1. ASSUME NEW n \in 0 .. Len(Sequential), Queued(n, Sequential),
                 Pending(n, Sequential), Sent(n)' = Sent(n)
          PROVE  Pending(n, Sequential)'
      <4>1. result = "none" => RunOf(trace', Taken')  = RunOf(trace, Taken)
        BY <1>1, <2>3, <2>5 DEF MainInv
      <4>2. wpc \notin Broken /\ Sent(n) < Len(Sequential) => Sent(n)' < Len(Sequential')
        <5>1. Len(Sequential) \in Nat /\ Len(Sequential') \in Nat
              /\ Len(Sequential) <= Len(Sequential')
          <6>1. WindowsToWrite(Sequential) /\ WindowsToWrite(Sequential')
            BY <1>1, <2>3, GoodTraceFacts DEF CaptureInv, Sequential
          <6> QED BY <2>3, <6>1, SequenceFacts DEF WindowsToWrite, Beginning
        <5>2. wpc \notin Broken => Sent(n) \in Nat
          BY <3>1, SentIsANumber DEF Queued
        <5> QED BY <3>1, <5>1, <5>2
      <4> QED BY <1>2, <1>6, <3>1, <4>1, <4>2 DEF Pending, writerVars
    <3>2. OutputTxOpen' = OutputTxOpen
      BY <1>6 DEF OutputTxOpen
    <3> QED BY <1>1, <1>2, <2>3, <2>4, <3>1, <3>2, WriterStays
  <2> QED BY <2>4, <2>6, <2>7 DEF IInv
<1> QED BY <1>1, <1>8, <1>9, CaptureEffect DEF Capture

-----------------------------------------------------------------------------
(* The main thread.                                                        *)

LEMMA TraceStays ==
  ASSUME CaptureInv, trace' = trace, UNCHANGED <<cpc, outgoing, counts>>,
         IsSequence(eventQ')
  PROVE  CaptureInv' /\ Sequential' = Sequential /\ Beginning(Sequential, Sequential')
<1>1. CaptureInv' /\ Sequential' = Sequential
  BY DEF CaptureInv, PacketsPut, Sequential
<1> QED BY <1>1, GoodTraceFacts, BeginningOfItself DEF CaptureInv, Sequential

\* A run after one more event, and the batch that event flushes.
Flushes(before, after, w) ==
  /\ IsSequence(w)
  /\ after.windows = IF w = <<>> THEN before.windows ELSE Append(before.windows, w)

LEMMA AccountOfBoundary ==
  ASSUME NEW run, GoodRun(run), NEW event, event.kind = "boundary"
  PROVE  /\ Account(run, event).agg = Flushed(run.agg)
         /\ Flushes(run, Account(run, event), FlushRecords(run.agg, event.end))
<1> DEFINE w == FlushRecords(run.agg, event.end)
           ws == IF w = <<>> THEN run.windows ELSE Append(run.windows, w)
<1>1. IsSequence(w)
  BY FlushRecordsSequence DEF GoodRun
<1>2. Account(run, event) = [agg |-> Flushed(run.agg), windows |-> ws]
  BY DEF Account
<1> HIDE DEF ws
<1>3. Account(run, event).agg = Flushed(run.agg) /\ Account(run, event).windows = ws
  BY <1>2
<1> QED BY <1>1, <1>3 DEF Flushes, ws

LEMMA AccountOfOthers ==
  ASSUME NEW run, GoodRun(run), NEW event
  PROVE  /\ event.kind = "packet" =>
              /\ Account(run, event).agg = Observe(run.agg, event.packet)
              /\ Account(run, event).windows = run.windows
         /\ event.kind = "addresses" =>
              /\ Account(run, event).agg = ReplaceLocal(run.agg, event.local)
              /\ Account(run, event).windows = run.windows
<1>1. run = [agg |-> run.agg, windows |-> run.windows]
  BY DEF GoodRun
<1>2. \A b : LET q == [run EXCEPT !.agg = b] IN q.agg = b /\ q.windows = run.windows
  BY <1>1
<1>3. CASE event.kind = "packet"
  <2>1. Account(run, event) = [run EXCEPT !.agg = Observe(run.agg, event.packet)]
    BY <1>3 DEF Account
  <2> QED BY <1>2, <1>3, <2>1
<1>4. CASE event.kind = "addresses"
  <2>1. Account(run, event) = [run EXCEPT !.agg = ReplaceLocal(run.agg, event.local)]
    BY <1>4 DEF Account
  <2> QED BY <1>2, <1>4, <2>1
<1> QED BY <1>3, <1>4

\* The numbers agree when a window is flushed.
LEMMA PendingAfterFlush ==
  ASSUME NEW before, NEW after, NEW w, GoodRun(before), Flushes(before, after, w),
         NEW n \in Nat, n = Len(before.windows)
  PROVE  IF w = <<>> THEN n = Len(after.windows)
         ELSE n + 1 = Len(after.windows) /\ w = after.windows[n + 1]
BY AppendSequence DEF Flushes, GoodRun, WindowsToWrite

LEMMA ReceiveKeeps ==
  ASSUME IInv, Receive
  PROVE  IInv'
<1>1. CaptureInv /\ MainInv /\ WriterInv
  BY DEF IInv
<1>2. /\ mpc = "recv" /\ eventQ # <<>> /\ eventQ' = Tail(eventQ)
      /\ UNCHANGED <<stop, eventRxOpen, result, exit, outQ, trace>>
      /\ UNCHANGED <<clock, cpc, now, windows, outgoing, refresh, report, counts>>
      /\ UNCHANGED writerVars
  BY DEF Receive, OthersIdle
<1>3. /\ IsSequence(trace) /\ Len(trace) \in Nat /\ GoodTrace(trace)
      /\ IsSequence(eventQ) /\ Len(eventQ) \in Nat /\ Len(eventQ) # 0
  BY <1>1, <1>2, GoodTraceFacts, SequenceFacts DEF CaptureInv
<1>4. /\ IsSequence(eventQ') /\ Len(eventQ') = Len(eventQ) - 1
      /\ Head(eventQ) = eventQ[1]
      /\ \A i \in 1 .. Len(eventQ') : eventQ'[i] = eventQ[i + 1]
  BY <1>2, <1>3, TailSequence
<1>5. CaptureInv' /\ Sequential' = Sequential /\ Beginning(Sequential, Sequential')
  BY <1>1, <1>2, <1>4, TraceStays
<1>6. /\ result = "none" /\ batch = <<>>
      /\ Taken \in 0 .. Len(trace) /\ Taken + Len(eventQ) = Len(trace)
      /\ \A i \in 1 .. Len(eventQ) : eventQ[i] = trace[Taken + i]
      /\ agg = RunOf(trace, Taken).agg
  BY <1>1, <1>2, <1>3 DEF MainInv, Running, Taken
<1>7. Taken' = Taken + 1 /\ Taken \in 0 .. Len(trace) - 1 /\ Taken + 1 \in 0 .. Len(trace)
  BY <1>2, <1>3, <1>4, <1>6 DEF Taken
<1> DEFINE event == Head(eventQ)  r == RunOf(trace, Taken)  q == RunOf(trace, Taken + 1)
<1>8. q = Account(r, event) /\ GoodRun(r)
  <2>1. event = trace[Taken + 1]
    BY <1>3, <1>4, <1>6
  <2> QED BY <1>3, <1>6, <1>7, <2>1, RunGoesOn, GoodTraceFacts
<1>9. /\ agg' = q.agg
      /\ Flushes(r, q, batch')
      /\ mpc' = "submit" \/ (mpc' = "recv" /\ batch' = <<>>)
  <2>1. CASE event.kind = "packet" \/ event.kind = "addresses"
    <3>1. /\ mpc' = "recv" /\ batch' = <<>>
          /\ \/ event.kind = "packet" /\ agg' = Observe(agg, event.packet)
             \/ event.kind = "addresses" /\ agg' = ReplaceLocal(agg, event.local)
      BY <1>2, <1>6, <2>1 DEF Receive
    <3> HIDE DEF event, q, r
    <3>2. agg' = q.agg /\ q.windows = r.windows
      BY <1>6, <1>8, <3>1, AccountOfOthers DEF r
    <3> QED BY <3>1, <3>2, EmptySequence DEF Flushes
  <2>2. CASE event.kind = "boundary"
    <3>1. mpc' = "submit" /\ batch' = FlushRecords(agg, event.end) /\ agg' = Flushed(agg)
      BY <2>2 DEF Receive
    <3> HIDE DEF event, q, r
    <3>2. q.agg = Flushed(r.agg) /\ Flushes(r, q, FlushRecords(r.agg, event.end))
      BY <1>8, <2>2, AccountOfBoundary
    <3>3. agg = r.agg
      BY <1>6 DEF r
    <3>4. batch' = FlushRecords(r.agg, event.end) /\ agg' = Flushed(r.agg)
      BY <3>1, <3>3, Zenon
    <3>5. Flushes(r, q, batch')
      BY <3>2, <3>4, Zenon
    <3> QED BY <3>1, <3>2, <3>4, <3>5, Zenon
  <2>3. event.kind \in Kinds
    BY DEF Receive, Kinds
  <2> QED BY <2>1, <2>2, <2>3 DEF Kinds
<1> HIDE DEF r, q
<1>10. MainInv'
  <2>1. \A i \in 1 .. Len(eventQ') : eventQ'[i] = trace[Taken + 1 + i]
    <3> SUFFICES ASSUME NEW i \in 1 .. Len(eventQ')
                 PROVE  eventQ'[i] = trace[Taken + 1 + i]
      OBVIOUS
    <3>1. i + 1 \in 1 .. Len(eventQ) /\ Taken + (i + 1) = Taken + 1 + i
      BY <1>3, <1>4, <1>6
    <3> QED BY <1>4, <1>6, <3>1
  <2>2. IsSequence(batch')
    BY <1>9 DEF Flushes
  <2>3. result' = "none" /\ mpc' \in Running /\ mpc' # "send_final"
        /\ (mpc' # "submit" => batch' = <<>>)
    BY <1>2, <1>6, <1>9 DEF Running
  <2>4. Taken' \in 0 .. Len(trace') /\ trace' = trace /\ agg' = RunOf(trace', Taken').agg
    BY <1>2, <1>7, <1>9 DEF q
  <2>5. \A i \in 1 .. Len(eventQ') : eventQ'[i] = trace'[Taken' + i]
    BY <1>7, <2>1, <2>4
  <2> QED BY <2>2, <2>3, <2>4, <2>5 DEF MainInv, Running, Ending
<1>11. WriterInv'
  <2>1. ASSUME NEW n \in 0 .. Len(Sequential), Queued(n, Sequential),
               Pending(n, Sequential), Sent(n)' = Sent(n)
        PROVE  Pending(n, Sequential)'
    <3>1. CASE wpc \in Broken
      BY <1>2, <3>1 DEF Pending, writerVars
    <3>2. CASE wpc \notin Broken
      <4>1. Sent(n) = Len(r.windows) /\ Sent(n) \in Nat
        BY <1>6, <2>1, <3>2, SentIsANumber DEF Pending, Queued, r
      <4>2. IF batch' = <<>> THEN Sent(n) = Len(q.windows)
            ELSE Sent(n) + 1 = Len(q.windows) /\ batch' = q.windows[Sent(n) + 1]
        BY <1>8, <1>9, <4>1, PendingAfterFlush
      <4>3. RunOf(trace', Taken') = q /\ result' = "none"
        BY <1>2, <1>6, <1>7 DEF q
      <4> QED BY <2>1, <4>2, <4>3 DEF Pending
    <3> QED BY <3>1, <3>2
  <2>2. OutputTxOpen
    BY <1>2 DEF OutputTxOpen
  <2> QED BY <1>1, <1>2, <1>5, <2>1, <2>2, WriterStays
<1> QED BY <1>5, <1>10, <1>11 DEF IInv

(* The batch in the hands of the main thread is the window that follows    *)
(* those already handed over.                                              *)
LEMMA BatchIsNext ==
  ASSUME CaptureInv, MainInv, result = "none", batch # <<>>, wpc \notin Broken,
         NEW n \in Nat, Queued(n, Sequential), Pending(n, Sequential)
  PROVE  /\ Sent(n) \in Nat /\ Len(Sequential) \in Nat
         /\ Sent(n) + 1 = Len(RunOf(trace, Taken).windows)
         /\ Sent(n) + 1 <= Len(Sequential)
         /\ batch = Sequential[Sent(n) + 1]
<1> DEFINE ws == RunOf(trace, Taken).windows
<1>1. Sent(n) + 1 = Len(ws) /\ batch = ws[Sent(n) + 1]
  BY DEF Pending
<1>2. Sent(n) \in Nat
  BY SentIsANumber DEF Queued
<1>3. Taken \in 0 .. Len(trace)
  BY DEF MainInv
<1>4. Beginning(ws, Sequential) /\ WindowsToWrite(Sequential)
  BY <1>3, GoodTraceFacts DEF CaptureInv, Sequential
<1>5. Len(Sequential) \in Nat
  BY <1>4, SequenceFacts DEF WindowsToWrite
<1> HIDE DEF ws
<1>6. Sent(n) + 1 <= Len(Sequential) /\ batch = Sequential[Sent(n) + 1]
  BY <1>1, <1>2, <1>4 DEF Beginning
<1> QED BY <1>1, <1>2, <1>5, <1>6 DEF ws

LEMMA HandedOver ==
  ASSUME CaptureInv, MainInv, WriterInv, result = "none", batch # <<>>, OutputTxOpen,
         outRxOpen, outQ' = Append(outQ, batch), UNCHANGED <<writerVars, trace>>,
         \A n \in Nat :
            wpc \notin Broken /\ Sent(n)' = Sent(n) + 1 /\ Sent(n) \in Nat
              /\ Sent(n) + 1 = Len(RunOf(trace, Taken).windows)
              => Pending(n, Sequential)'
  PROVE  WriterInv'
<1>1. PICK all : all = Sequential
  OBVIOUS
<1>2. Sequential' = all
  BY <1>1 DEF Sequential
<1>3. PICK n \in 0 .. Len(all) : Written(n, all) /\ Queued(n, all) /\ Pending(n, all)
  BY <1>1 DEF WriterInv
<1>4. WindowsToWrite(all) /\ Beginning(all, all) /\ Len(all) \in Nat /\ n \in Nat
  BY <1>1, GoodTraceFacts, BeginningOfItself, SequenceFacts
     DEF CaptureInv, Sequential, WindowsToWrite
<1>5. Written(n, all)'
  BY <1>3, <1>4, WrittenStays DEF writerVars
<1>6. Queued(n, all)' /\ Pending(n, Sequential)'
  <2>1. CASE wpc \in Broken
    BY <2>1 DEF Queued, Pending, writerVars
  <2>2. CASE wpc \notin Broken
    <3>1. /\ Sent(n) \in Nat /\ Sent(n) + 1 = Len(RunOf(trace, Taken).windows)
          /\ Sent(n) + 1 <= Len(all)
          /\ batch = all[Sent(n) + 1]
      BY <1>1, <1>3, <1>4, <2>2, BatchIsNext
    <3>2. /\ IsSequence(outQ)
          /\ \A i \in 1 .. Len(outQ) : outQ[i] = all[Sent(n) - Len(outQ) + i]
      BY <1>3, <2>2 DEF Queued
    <3>3. /\ IsSequence(outQ') /\ Len(outQ') = Len(outQ) + 1 /\ Len(outQ) \in Nat
          /\ \A i \in 1 .. Len(outQ) : outQ'[i] = outQ[i]
          /\ outQ'[Len(outQ) + 1] = batch
      BY <3>2, AppendSequence, SequenceFacts
    <3>4. Sent(n)' = Sent(n) + 1 /\ Sent(n)' - Len(outQ') = Sent(n) - Len(outQ)
      <4>1. wpc' = wpc
        BY DEF writerVars
      <4>2. CASE wpc \in Writing
        <5>1. Sent(n) = n + 1 + Len(outQ) /\ Sent(n)' = n + 1 + Len(outQ')
          BY <4>1, <4>2 DEF Sent, Writing
        <5> QED BY <1>4, <3>3, <5>1
      <4>3. CASE wpc \notin Writing
        <5>1. Sent(n) = n + 0 + Len(outQ) /\ Sent(n)' = n + 0 + Len(outQ')
          BY <4>1, <4>3 DEF Sent, Writing
        <5> QED BY <1>4, <3>3, <5>1
      <4> QED BY <4>2, <4>3
    <3>5. \A i \in 1 .. Len(outQ') : outQ'[i] = all[Sent(n)' - Len(outQ') + i]
      <4> SUFFICES ASSUME NEW i \in 1 .. Len(outQ')
                   PROVE  outQ'[i] = all[Sent(n) - Len(outQ) + i]
        BY <3>4
      <4>1. CASE i = Len(outQ) + 1
        <5>1. Sent(n) - Len(outQ) + i = Sent(n) + 1
          BY <3>1, <3>3, <4>1
        <5> QED BY <3>1, <3>3, <4>1, <5>1
      <4>2. CASE i # Len(outQ) + 1
        <5>1. i \in 1 .. Len(outQ)
          BY <3>3, <4>2
        <5> QED BY <3>2, <3>3, <5>1
      <4> QED BY <4>1, <4>2
    <3>6. Queued(n, all)'
      BY <3>1, <3>3, <3>4, <3>5 DEF Queued
    <3>7. Pending(n, Sequential)'
      BY <1>4, <2>2, <3>1, <3>4
    <3> QED BY <3>6, <3>7
  <2> QED BY <2>1, <2>2
<1> QED BY <1>2, <1>3, <1>5, <1>6 DEF WriterInv, writerVars, Returned

LEMMA SubmitKeeps ==
  ASSUME IInv, Submit
  PROVE  IInv'
<1>1. CaptureInv /\ MainInv /\ WriterInv
  BY DEF IInv
<1>2. /\ mpc = "submit" /\ batch' = <<>>
      /\ UNCHANGED <<stop, eventQ, eventRxOpen, agg, exit, trace>>
      /\ UNCHANGED <<clock, cpc, now, windows, outgoing, refresh, report, counts>>
      /\ UNCHANGED writerVars
  BY DEF Submit, OthersIdle
<1>3. CaptureInv' /\ Sequential' = Sequential /\ Beginning(Sequential, Sequential')
  BY <1>1, <1>2, TraceStays DEF CaptureInv
<1>4. result = "none" /\ OutputTxOpen /\ Taken' = Taken
  BY <1>1, <1>2 DEF MainInv, Running, OutputTxOpen, Taken
<1>5. \/ mpc' = "recv" /\ result' = "none"
      \/ mpc' = "stop" /\ result' = "err"
  BY <1>4 DEF Submit
<1>6. MainInv'
  BY <1>1, <1>2, <1>4, <1>5, EmptySequence DEF MainInv, Running, Ending
<1>7. CASE batch = <<>>
  <2>1. UNCHANGED <<outQ, result>>
    BY <1>7 DEF Submit
  <2>2. \A n : Pending(n, Sequential) /\ Sent(n)' = Sent(n) => Pending(n, Sequential)'
    BY <1>2, <1>3, <1>4, <1>7, <2>1 DEF Pending, writerVars
  <2>3. WriterInv'
    BY <1>1, <1>2, <1>3, <1>4, <2>1, <2>2, WriterStays
  <2> QED BY <1>3, <1>6, <2>3 DEF IInv
<1>8. CASE batch # <<>> /\ result' = "none"
  <2>1. outRxOpen /\ outQ' = Append(outQ, batch)
    BY <1>8 DEF Submit
  <2>2. \A n \in Nat :
           wpc \notin Broken /\ Sent(n)' = Sent(n) + 1 /\ Sent(n) \in Nat
             /\ Sent(n) + 1 = Len(RunOf(trace, Taken).windows)
             => Pending(n, Sequential)'
    BY <1>2, <1>4, <1>8 DEF Pending
  <2>3. WriterInv'
    BY <1>1, <1>2, <1>4, <1>8, <2>1, <2>2, HandedOver
  <2> QED BY <1>3, <1>6, <2>3 DEF IInv
<1>9. CASE batch # <<>> /\ result' = "err"
  <2>1. UNCHANGED outQ
    BY <1>4, <1>9 DEF Submit
  <2>2. ASSUME NEW n \in 0 .. Len(Sequential), Queued(n, Sequential),
               Pending(n, Sequential), Sent(n)' = Sent(n)
        PROVE  Pending(n, Sequential)'
    <3>1. CASE wpc \in Broken
      BY <1>2, <3>1 DEF Pending, writerVars
    <3>2. CASE wpc \notin Broken
      <4>1. Sent(n) \in Nat /\ Len(Sequential) \in Nat /\ Sent(n) + 1 <= Len(Sequential)
        BY <1>1, <1>4, <1>9, <2>2, <3>2, BatchIsNext
      <4> QED BY <1>3, <1>9, <2>2, <4>1 DEF Pending
    <3> QED BY <3>1, <3>2
  <2>3. WriterInv'
    BY <1>1, <1>2, <1>3, <1>4, <2>1, <2>2, WriterStays
  <2> QED BY <1>3, <1>6, <2>3 DEF IInv
<1> QED BY <1>5, <1>7, <1>8, <1>9

LEMMA SendFinalKeeps ==
  ASSUME IInv, SendFinal
  PROVE  IInv'
<1>1. CaptureInv /\ MainInv /\ WriterInv
  BY DEF IInv
<1>2. /\ mpc = "send_final" /\ mpc' = "stop" /\ batch' = <<>>
      /\ UNCHANGED <<stop, eventQ, eventRxOpen, agg, exit, trace>>
      /\ UNCHANGED <<clock, cpc, now, windows, outgoing, refresh, report, counts>>
      /\ UNCHANGED writerVars
  BY DEF SendFinal, OthersIdle
<1>3. CaptureInv' /\ Sequential' = Sequential /\ Beginning(Sequential, Sequential')
  BY <1>1, <1>2, TraceStays DEF CaptureInv
<1>4. /\ result = "none" /\ OutputTxOpen /\ Taken' = Taken /\ batch # <<>>
      /\ eventQ = <<>> /\ CaptureReturned
  BY <1>1, <1>2 DEF MainInv, Running, OutputTxOpen, Taken
<1>5. result' \in {"ok", "err"}
  BY DEF SendFinal
<1>6. MainInv'
  BY <1>1, <1>2, <1>4, <1>5, EmptySequence DEF MainInv, Running, Ending, CaptureReturned
<1>7. CASE result' = "ok"
  <2>1. outRxOpen /\ outQ' = Append(outQ, batch)
    BY <1>7 DEF SendFinal
  <2>2. RunOf(trace, Taken).windows = Sequential
    <3>1. Taken = Len(trace)
      BY <1>1, <1>4, GoodTraceFacts, EmptySequence DEF CaptureInv, Taken
    <3> QED BY <1>1, <3>1, GoodTraceFacts DEF CaptureInv, Sequential
  <2>3. \A n \in Nat :
           wpc \notin Broken /\ Sent(n)' = Sent(n) + 1 /\ Sent(n) \in Nat
             /\ Sent(n) + 1 = Len(RunOf(trace, Taken).windows)
             => Pending(n, Sequential)'
    BY <1>3, <1>7, <2>2 DEF Pending
  <2>4. WriterInv'
    BY <1>1, <1>2, <1>4, <2>1, <2>3, HandedOver
  <2> QED BY <1>3, <1>6, <2>4 DEF IInv
<1>8. CASE result' = "err"
  <2>1. UNCHANGED outQ
    BY <1>8 DEF SendFinal
  <2>2. ASSUME NEW n \in 0 .. Len(Sequential), Queued(n, Sequential),
               Pending(n, Sequential), Sent(n)' = Sent(n)
        PROVE  Pending(n, Sequential)'
    <3>1. CASE wpc \in Broken
      BY <1>2, <3>1 DEF Pending, writerVars
    <3>2. CASE wpc \notin Broken
      <4>1. Sent(n) \in Nat /\ Len(Sequential) \in Nat /\ Sent(n) + 1 <= Len(Sequential)
        BY <1>1, <1>4, <2>2, <3>2, BatchIsNext
      <4> QED BY <1>3, <1>8, <2>2, <4>1 DEF Pending
    <3> QED BY <3>1, <3>2
  <2>3. OutputTxOpen' => OutputTxOpen
    BY <1>4
  <2>4. WriterInv'
    BY <1>1, <1>2, <1>3, <2>1, <2>2, <2>3, WriterStays
  <2> QED BY <1>3, <1>6, <2>4 DEF IInv
<1> QED BY <1>5, <1>7, <1>8

(* The final flush is one more event of the trace: the boundary the main   *)
(* thread gives itself once the capture thread is gone.                    *)
LEMMA FlushFinalKeeps ==
  ASSUME IInv, FlushFinal
  PROVE  IInv'
<1>1. CaptureInv /\ MainInv /\ WriterInv
  BY DEF IInv
<1> DEFINE e == Boundary(Utc(clock))
<1>2. /\ mpc = "recv" /\ eventQ = <<>> /\ CaptureReturned
      /\ batch' = FlushRecords(agg, e.end) /\ agg' = Flushed(agg)
      /\ trace' = Append(trace, e)
      /\ \/ batch' = <<>> /\ mpc' = "stop" /\ result' = "ok"
         \/ batch' # <<>> /\ mpc' = "send_final" /\ result' = result
      /\ UNCHANGED <<stop, eventQ, eventRxOpen, exit, outQ>>
      /\ UNCHANGED <<clock, cpc, now, windows, outgoing, refresh, report, counts>>
      /\ UNCHANGED writerVars
  BY DEF FlushFinal, OthersIdle, Boundary
<1>3. e.kind = "boundary" /\ e.kind \in Kinds /\ e.kind # "packet"
  BY DEF Boundary, Kinds
<1>4. result = "none" /\ batch = <<>>
  BY <1>1, <1>2 DEF MainInv, Running
<1>5. /\ Len(eventQ) = 0 /\ Len(trace) \in Nat /\ Taken = Len(trace)
      /\ GoodTrace(trace) /\ IsSequence(trace)
      /\ agg = AfterEvents(trace).agg
      /\ RunOf(trace, Taken) = AfterEvents(trace)
  <2>1. GoodTrace(trace)
    BY <1>1 DEF CaptureInv
  <2>2. Len(eventQ) = 0 /\ Len(trace) \in Nat /\ IsSequence(trace)
    BY <1>2, <2>1, EmptySequence, GoodTraceFacts
  <2>3. Taken = Len(trace)
    BY <2>2 DEF Taken
  <2>4. agg = RunOf(trace, Taken).agg
    BY <1>1, <1>4 DEF MainInv
  <2> QED BY <2>1, <2>2, <2>3, <2>4, GoodTraceFacts
<1> HIDE DEF e
<1> DEFINE r == AfterEvents(trace)  q == AfterEvents(trace')
<1>6. /\ GoodTrace(trace') /\ Len(trace') = Len(trace) + 1
      /\ q = Account(r, e) /\ GoodRun(r) /\ Beginning(r.windows, q.windows)
  BY <1>2, <1>3, <1>5, TraceGrows
<1>7. PacketsPut' = PacketsPut
  <2>1. PacketsIn(trace') = PacketsIn(trace)
    BY <1>2, <1>3, <1>5, PacketCount
  <2> QED BY <2>1 DEF PacketsIn, PacketsPut
<1>8. CaptureInv'
  BY <1>1, <1>2, <1>6, <1>7 DEF CaptureInv
<1>9. Taken' = Len(trace') /\ Taken' \in 0 .. Len(trace') /\ RunOf(trace', Taken') = q
  <2>1. Taken' = Len(trace')
    BY <1>2, <1>5, <1>6 DEF Taken
  <2> QED BY <1>5, <1>6, <2>1, GoodTraceFacts
<1>10. agg' = q.agg /\ Flushes(r, q, batch')
  BY <1>2, <1>3, <1>5, <1>6, AccountOfBoundary
<1>11. MainInv'
  <2>1. agg' = RunOf(trace', Taken').agg /\ IsSequence(batch')
    BY <1>9, <1>10 DEF Flushes
  <2>2. \A i \in 1 .. Len(eventQ') : eventQ'[i] = trace'[Taken' + i]
    BY <1>2, <1>5
  <2> QED BY <1>2, <1>4, <1>9, <2>1, <2>2 DEF MainInv, Running, Ending, CaptureReturned
<1>12. Sequential = r.windows /\ Sequential' = q.windows
  BY DEF Sequential
<1>13. ASSUME NEW n \in 0 .. Len(Sequential), Queued(n, Sequential),
              Pending(n, Sequential), Sent(n)' = Sent(n)
       PROVE  Pending(n, Sequential)'
  <2>1. CASE wpc \in Broken
    BY <1>2, <2>1 DEF Pending, writerVars
  <2>2. CASE wpc \notin Broken
    <3>1. Sent(n) = Len(r.windows) /\ Sent(n) \in Nat
      BY <1>4, <1>5, <1>13, <2>2, SentIsANumber DEF Pending, Queued
    <3> HIDE DEF r, q
    <3>2. IF batch' = <<>> THEN Sent(n) = Len(q.windows)
          ELSE Sent(n) + 1 = Len(q.windows) /\ batch' = q.windows[Sent(n) + 1]
      BY <1>6, <1>10, <3>1, PendingAfterFlush
    <3> QED BY <1>2, <1>4, <1>9, <1>12, <1>13, <3>2 DEF Pending
  <2> QED BY <2>1, <2>2
<1>14. OutputTxOpen
  BY <1>2 DEF OutputTxOpen
<1>15. WriterInv'
  BY <1>1, <1>2, <1>6, <1>8, <1>12, <1>13, <1>14, WriterStays
<1> QED BY <1>8, <1>11, <1>15 DEF IInv

LEMMA EndingKeeps ==
  ASSUME IInv, SetStop \/ DropEventRx \/ DropOutputTx \/ JoinCapture \/ JoinWriter
  PROVE  IInv'
<1>1. CaptureInv /\ MainInv /\ WriterInv
  BY DEF IInv
<1>2. /\ mpc \in Ending /\ mpc' \in Ending \ {"stop"}
      /\ UNCHANGED <<agg, batch, result, outQ, trace>>
      /\ UNCHANGED <<clock, cpc, now, windows, outgoing, refresh, report, counts>>
      /\ UNCHANGED writerVars
      /\ eventQ' = eventQ \/ eventQ' = <<>>
  BY DEF SetStop, DropEventRx, DropOutputTx, JoinCapture, JoinWriter, OthersIdle, Ending
<1>3. /\ mpc' = "join_writer" => CaptureReturned
      /\ mpc' = "exited" => mpc = "join_writer" /\ exit' = Verdict /\ wpc \in Returned
      /\ OutputTxOpen' => OutputTxOpen
  BY DEF SetStop, DropEventRx, DropOutputTx, JoinCapture, JoinWriter, OutputTxOpen
<1>4. result # "none" /\ batch = <<>> /\ (result # "err" => result = "ok" /\ eventQ' = eventQ)
  BY <1>1, <1>2 DEF MainInv, Running, Ending
<1>5. IsSequence(eventQ')
  BY <1>1, <1>2, EmptySequence DEF CaptureInv
<1>6. CaptureInv' /\ Sequential' = Sequential /\ Beginning(Sequential, Sequential')
  BY <1>1, <1>2, <1>5, TraceStays
<1>7. MainInv'
  <2>1. Verdict' = Verdict /\ CaptureReturned' = CaptureReturned
    BY <1>2 DEF Verdict, CaptureReturned, writerVars
  <2>2. result # "err" => Taken' = Taken
    BY <1>2, <1>4 DEF Taken
  <2> QED BY <1>1, <1>2, <1>3, <1>4, <2>1, <2>2 DEF MainInv, Running, Ending, writerVars
<1>8. WriterInv'
  <2>1. \A n : Pending(n, Sequential) /\ Sent(n)' = Sent(n) => Pending(n, Sequential)'
    BY <1>2, <1>4, <1>6 DEF Pending, writerVars
  <2> QED BY <1>1, <1>2, <1>3, <1>6, <2>1, WriterStays
<1> QED BY <1>6, <1>7, <1>8 DEF IInv

LEMMA MainKeeps ==
  ASSUME IInv, Main
  PROVE  IInv'
BY ReceiveKeeps, SubmitKeeps, FlushFinalKeeps, SendFinalKeeps, EndingKeeps DEF Main

\* Time and the signals change nothing the invariant is about.
LEMMA EnvironmentKeeps ==
  ASSUME IInv, Environment
  PROVE  IInv'
<1>1. /\ UNCHANGED <<eventQ, cpc, outgoing, counts>>
      /\ UNCHANGED <<mpc, agg, batch, result, exit>>
      /\ UNCHANGED <<wpc, window, detail, ip, outRxOpen>>
      /\ UNCHANGED <<outQ, trace>>
  BY DEF Environment, Tick, Signal, mainVars, writerVars
<1>2. CaptureInv' /\ MainInv'
  BY <1>1 DEF IInv, CaptureInv, MainInv, PacketsPut, Taken, CaptureReturned, Verdict
<1>3. Sequential' = Sequential /\ OutputTxOpen' = OutputTxOpen /\ Taken' = Taken
  BY <1>1 DEF Sequential, OutputTxOpen, Taken
<1>4. \A n, all : /\ Written(n, all)' <=> Written(n, all)
                  /\ Queued(n, all)' <=> Queued(n, all)
                  /\ Pending(n, all)' <=> Pending(n, all)
  BY <1>1, <1>3 DEF Written, Queued, Pending, Sent, CutAfter, LogsHold, DetailHolds, IpHolds
<1>5. WriterInv'
  BY <1>1, <1>3, <1>4 DEF IInv, WriterInv
<1> QED BY <1>2, <1>5 DEF IInv

-----------------------------------------------------------------------------
(* The writer thread.                                                      *)

\* What every step of the writer leaves alone, and what is left to show of it:
\* it finds n windows written, and leaves m.
LEMMA WriterStep ==
  ASSUME IInv, WriterOnly, wpc \notin Returned,
         wpc' \in {"recv", "ok"} \cup Writing \cup Broken,
         outRxOpen' <=> wpc' \notin Returned,
         wpc' = "ok" => outQ' = <<>> /\ ~OutputTxOpen,
         \A all : \A n \in 0 .. Len(all) :
            /\ WindowsToWrite(all) /\ Len(all) \in Nat
            /\ Written(n, all) /\ Queued(n, all) /\ Pending(n, all)
            => \E m \in 0 .. Len(all) :
                 Written(m, all)' /\ Queued(m, all)' /\ Pending(m, all)'
  PROVE  IInv'
<1>1. /\ UNCHANGED <<eventQ, cpc, outgoing, counts, trace>>
      /\ UNCHANGED <<mpc, agg, batch, result, exit>>
  BY DEF WriterOnly, mainVars
<1>2. CaptureInv /\ MainInv /\ WriterInv /\ mpc # "exited"
  BY DEF IInv, MainInv
<1>3. CaptureInv' /\ MainInv'
  BY <1>1, <1>2 DEF CaptureInv, MainInv, PacketsPut, Taken, CaptureReturned
<1>4. PICK all : all = Sequential
  OBVIOUS
<1>5. Sequential' = all /\ OutputTxOpen' = OutputTxOpen
  BY <1>1, <1>4 DEF Sequential, OutputTxOpen
<1>6. WindowsToWrite(all) /\ Len(all) \in Nat
  BY <1>2, <1>4, GoodTraceFacts, SequenceFacts DEF CaptureInv, Sequential, WindowsToWrite
<1>7. PICK n \in 0 .. Len(all) : Written(n, all) /\ Queued(n, all) /\ Pending(n, all)
  BY <1>2, <1>4 DEF WriterInv
<1>8. PICK m \in 0 .. Len(all) : Written(m, all)' /\ Queued(m, all)' /\ Pending(m, all)'
  BY <1>6, <1>7
<1>9. WriterInv'
  BY <1>5, <1>8 DEF WriterInv
<1> QED BY <1>3, <1>9 DEF IInv

\* Pending only counts: it stays when the number of windows handed over does.
LEMMA PendingStays ==
  ASSUME WriterOnly, NEW all, NEW n, NEW m, Pending(n, all),
         wpc \notin Broken, Sent(m)' = Sent(n)
  PROVE  Pending(m, all)'
<1>1. UNCHANGED <<eventQ, trace, batch, result>>
  BY DEF WriterOnly, mainVars
<1>2. Taken' = Taken
  BY <1>1 DEF Taken
<1> QED BY <1>1, <1>2 DEF Pending

LEMMA TakeWindowKeeps ==
  ASSUME IInv, TakeWindow
  PROVE  IInv'
<1>1. CaptureInv /\ MainInv /\ WriterInv
  BY DEF IInv
<1>2. /\ wpc = "recv" /\ outQ # <<>> /\ window' = Head(outQ) /\ outQ' = Tail(outQ)
      /\ wpc' = "lookup" /\ UNCHANGED <<stop, detail, ip, outRxOpen>> /\ WriterOnly
  BY DEF TakeWindow
<1>3. ASSUME NEW all, NEW n \in 0 .. Len(all), Len(all) \in Nat,
             Written(n, all), Queued(n, all), Pending(n, all)
      PROVE  Written(n, all)' /\ Queued(n, all)' /\ Pending(n, all)'
  <2>1. /\ IsSequence(outQ) /\ Sent(n) <= Len(all) /\ Sent(n) = n + Len(outQ)
        /\ \A i \in 1 .. Len(outQ) : outQ[i] = all[Sent(n) - Len(outQ) + i]
        /\ Len(outQ) \in Nat /\ Len(outQ) # 0 /\ n \in Nat
    BY <1>2, <1>3, SequenceFacts DEF Queued, Broken, Writing, Sent
  <2>2. /\ IsSequence(outQ') /\ Len(outQ') = Len(outQ) - 1
        /\ Head(outQ) = outQ[1]
        /\ \A i \in 1 .. Len(outQ') : outQ'[i] = outQ[i + 1]
    BY <1>2, <2>1, TailSequence
  <2>3. Sent(n)' = n + 1 + Len(outQ')
    BY <1>2 DEF Sent, Writing
  <2>4. Sent(n)' = Sent(n)
    BY <2>1, <2>2, <2>3
  <2>5. Sent(n) - Len(outQ) + 1 = n + 1 /\ 1 \in 1 .. Len(outQ) /\ n < Len(all)
    BY <2>1
  <2>6. Written(n, all)'
    <3>1. window' = all[n + 1]
      BY <1>2, <2>1, <2>2, <2>5
    <3> QED BY <1>2, <1>3, <2>5, <3>1 DEF Written, LogsHold, Broken, Writing
  <2>7. \A i \in 1 .. Len(outQ') : outQ'[i] = all[Sent(n)' - Len(outQ') + i]
    <3> SUFFICES ASSUME NEW i \in 1 .. Len(outQ')
                 PROVE  outQ'[i] = all[Sent(n)' - Len(outQ') + i]
      OBVIOUS
    <3>1. i + 1 \in 1 .. Len(outQ)
          /\ Sent(n)' - Len(outQ') + i = Sent(n) - Len(outQ) + (i + 1)
      BY <2>1, <2>2, <2>3, <2>4
    <3> QED BY <2>1, <2>2, <3>1
  <2>8. Queued(n, all)'
    BY <2>1, <2>2, <2>4, <2>7 DEF Queued
  <2>9. Pending(n, all)'
    BY <1>2, <1>3, <2>4, PendingStays DEF Broken
  <2> QED BY <2>6, <2>8, <2>9
<1> QED BY <1>1, <1>2, <1>3, WriterStep DEF Returned, Writing, WriterInv

\* Once the writer has failed, only what the logs hold matters.
LEMMA BrokenStays ==
  ASSUME NEW all, NEW n \in 0 .. Len(all), CutAfter(n, all)', wpc' \in Broken
  PROVE  Written(n, all)' /\ Queued(n, all)' /\ Pending(n, all)'
<1>1. wpc' \notin Writing /\ wpc' \notin {"recv", "ok"}
  BY DEF Broken, Writing
<1>2. Written(n, all)'
  BY <1>1 DEF Written, Writing
<1> QED BY <1>2 DEF Queued, Pending

\* The windows at the writer, while it takes none from the queue.
LEMMA InHandStays ==
  ASSUME WriterOnly, NEW all, NEW n, NEW m, Queued(n, all), Pending(n, all),
         wpc \notin Broken, outQ' = outQ, Sent(m)' = Sent(n)
  PROVE  Queued(m, all)' /\ Pending(m, all)'
<1>1. Queued(m, all)'
  BY DEF Queued
<1> QED BY <1>1, PendingStays

LEMMA LookUpKeeps ==
  ASSUME IInv, LookUp
  PROVE  IInv'
<1>1. CaptureInv /\ MainInv /\ WriterInv
  BY DEF IInv
<1>2. /\ wpc = "lookup" /\ wpc' \in {"detail", "failed"}
      /\ UNCHANGED <<stop, window, detail, ip, outRxOpen, outQ>> /\ WriterOnly
  BY DEF LookUp
<1>3. ASSUME NEW all, NEW n \in 0 .. Len(all), WindowsToWrite(all), Len(all) \in Nat,
             Written(n, all), Queued(n, all), Pending(n, all)
      PROVE  Written(n, all)' /\ Queued(n, all)' /\ Pending(n, all)'
  <2>1. LogsHold(SubSeq(all, 1, n)) /\ LogsHold(SubSeq(all, 1, n))'
    BY <1>2, <1>3 DEF Written, LogsHold
  <2>2. CASE wpc' = "detail"
    <3>1. Written(n, all)'
      BY <1>2, <1>3, <2>1, <2>2 DEF Written, LogsHold, Writing, Broken
    <3>2. Sent(n)' = Sent(n)
      BY <1>2, <2>2 DEF Sent, Writing
    <3> QED BY <1>2, <1>3, <3>1, <3>2, InHandStays DEF Broken
  <2>3. CASE wpc' = "failed"
    <3>1. CutAfter(n, all)'
      BY <2>1 DEF CutAfter
    <3> QED BY <2>3, <3>1, BrokenStays DEF Broken
  <2> QED BY <1>2, <2>2, <2>3
<1> QED BY <1>1, <1>2, <1>3, WriterStep DEF Returned, Writing, Broken, WriterInv

LEMMA AppendDetailKeeps ==
  ASSUME IInv, AppendDetail
  PROVE  IInv'
<1>1. CaptureInv /\ MainInv /\ WriterInv
  BY DEF IInv
<1>2. /\ wpc = "detail"
      /\ \/ detail' = Appended(detail, window) /\ wpc' = "ip"
         \/ detail' \in PartlyAppended(detail, window) /\ wpc' = "failed"
      /\ UNCHANGED <<stop, window, ip, outRxOpen, outQ>> /\ WriterOnly
  BY DEF AppendDetail
<1>3. ASSUME NEW all, NEW n \in 0 .. Len(all), WindowsToWrite(all), Len(all) \in Nat,
             Written(n, all), Queued(n, all), Pending(n, all)
      PROVE  Written(n, all)' /\ Queued(n, all)' /\ Pending(n, all)'
  <2> DEFINE done == SubSeq(all, 1, n)  lines == DetailOf(done)
  <2>1. /\ n < Len(all) /\ window = all[n + 1] /\ n \in 0 .. Len(all) - 1
        /\ detail = [lines |-> lines, torn |-> FALSE]
        /\ ip = [lines |-> IpOf(done), torn |-> FALSE]
    BY <1>2, <1>3 DEF Written, LogsHold, Writing
  <2>2. IsSequence(lines) /\ IsSequence(window)
    <3>1. n + 1 \in 1 .. Len(all)
      BY <1>3, <2>1
    <3> QED BY <1>3, <2>1, <3>1, LogOfBeginning DEF WindowsToWrite
  <2>3. /\ SubSeq(all, 1, n + 1) = Append(done, all[n + 1])
        /\ DetailOf(SubSeq(all, 1, n + 1)) = lines \o LinesOf(window)
    BY <1>3, <2>1, LogsGrow
  <2> HIDE DEF lines, done
  <2>4. CASE detail' = Appended(detail, window) /\ wpc' = "ip"
    <3>1. detail' = [lines |-> lines \o LinesOf(window), torn |-> FALSE]
      BY <2>1, <2>2, <2>4, AppendedWhole
    <3>2. DetailHolds(SubSeq(all, 1, n + 1))' /\ IpHolds(SubSeq(all, 1, n))'
      BY <1>2, <2>1, <2>3, <3>1 DEF DetailHolds, IpHolds, done
    <3>3. Written(n, all)'
      BY <1>2, <1>3, <2>1, <2>4, <3>2 DEF Written, Writing, Broken
    <3>4. Sent(n)' = Sent(n)
      BY <1>2, <2>4 DEF Sent, Writing
    <3> QED BY <1>2, <1>3, <3>3, <3>4, InHandStays DEF Broken
  <2>5. CASE detail' \in PartlyAppended(detail, window) /\ wpc' = "failed"
    <3>1. /\ IsPrefix(lines, detail'.lines)
          /\ IsPrefix(detail'.lines, lines \o LinesOf(window))
      BY <2>1, <2>2, <2>5, AppendedPartly
    <3>2. /\ IsPrefix(DetailOf(done), detail'.lines)
          /\ IsPrefix(detail'.lines, DetailOf(Append(done, all[n + 1])))
      BY <2>3, <3>1 DEF lines
    <3>3. CutAfter(n, all)'
      BY <1>2, <2>1, <3>2 DEF CutAfter, IpHolds, done
    <3> QED BY <2>5, <3>3, BrokenStays DEF Broken
  <2> QED BY <1>2, <2>4, <2>5
<1> QED BY <1>1, <1>2, <1>3, WriterStep DEF Returned, Writing, Broken, WriterInv

LEMMA AppendIpKeeps ==
  ASSUME IInv, AppendIp
  PROVE  IInv'
<1>1. CaptureInv /\ MainInv /\ WriterInv
  BY DEF IInv
<1>2. /\ wpc = "ip"
      /\ \/ ip' = Appended(ip, AggregateByIp(window)) /\ wpc' = "recv"
         \/ ip' \in PartlyAppended(ip, AggregateByIp(window)) /\ wpc' = "failed"
      /\ UNCHANGED <<stop, detail, outRxOpen, outQ>> /\ WriterOnly
  BY DEF AppendIp
<1>3. ASSUME NEW all, NEW n \in 0 .. Len(all), WindowsToWrite(all), Len(all) \in Nat,
             Written(n, all), Queued(n, all), Pending(n, all)
      PROVE  \E m \in 0 .. Len(all) :
                Written(m, all)' /\ Queued(m, all)' /\ Pending(m, all)'
  <2> DEFINE done == SubSeq(all, 1, n)  lines == IpOf(done)  records == AggregateByIp(window)
  <2>1. /\ n < Len(all) /\ window = all[n + 1] /\ n \in 0 .. Len(all) - 1 /\ n \in Nat
        /\ detail = [lines |-> DetailOf(SubSeq(all, 1, n + 1)), torn |-> FALSE]
        /\ ip = [lines |-> lines, torn |-> FALSE]
    BY <1>2, <1>3 DEF Written, IpHolds, DetailHolds, Writing
  <2>2. IsSequence(lines) /\ IsSequence(records)
    <3>1. n + 1 \in 1 .. Len(all)
      BY <1>3, <2>1
    <3> QED BY <1>3, <2>1, <3>1, LogOfBeginning, AggregateByIpSequence DEF WindowsToWrite
  <2>3. /\ SubSeq(all, 1, n + 1) = Append(done, all[n + 1])
        /\ IpOf(SubSeq(all, 1, n + 1)) = lines \o LinesOf(records)
    BY <1>3, <2>1, LogsGrow
  <2> HIDE DEF lines, done, records
  <2>4. CASE ip' = Appended(ip, records) /\ wpc' = "recv"
    <3>1. ip' = [lines |-> lines \o LinesOf(records), torn |-> FALSE]
      BY <2>1, <2>2, <2>4, AppendedWhole
    <3>2. LogsHold(SubSeq(all, 1, n + 1))'
      BY <1>2, <2>1, <2>3, <3>1 DEF LogsHold
    <3>3. n + 1 \in 0 .. Len(all)
      BY <1>3, <2>1
    <3>4. Written(n + 1, all)'
      BY <2>4, <3>2, <3>3 DEF Written, Writing, Broken
    <3>5. Sent(n + 1)' = Sent(n)
      <4>1. Sent(n) = n + 1 + Len(outQ) /\ Sent(n + 1)' = n + 1 + 0 + Len(outQ)
        BY <1>2, <2>4 DEF Sent, Writing
      <4> QED BY <2>1, <4>1
    <3>6. Queued(n + 1, all)' /\ Pending(n + 1, all)'
      BY <1>2, <1>3, <3>5, InHandStays DEF Broken
    <3> QED BY <3>3, <3>4, <3>6
  <2>5. CASE ip' \in PartlyAppended(ip, records) /\ wpc' = "failed"
    <3>1. /\ IsPrefix(lines, ip'.lines)
          /\ IsPrefix(ip'.lines, lines \o LinesOf(records))
      BY <2>1, <2>2, <2>5, AppendedPartly
    <3>2. /\ IsPrefix(IpOf(done), ip'.lines)
          /\ IsPrefix(ip'.lines, IpOf(Append(done, all[n + 1])))
      BY <2>3, <3>1 DEF lines
    <3>3. CutAfter(n, all)'
      BY <1>2, <2>1, <2>3, <3>2 DEF CutAfter, DetailHolds, done
    <3>4. Written(n, all)' /\ Queued(n, all)' /\ Pending(n, all)'
      BY <2>5, <3>3, BrokenStays DEF Broken
    <3> QED BY <3>4
  <2> QED BY <1>2, <2>4, <2>5 DEF records
<1> QED BY <1>1, <1>2, <1>3, WriterStep DEF Returned, Writing, Broken, WriterInv

LEMMA WriterFailedKeeps ==
  ASSUME IInv, WriterFailed
  PROVE  IInv'
<1>1. CaptureInv /\ MainInv /\ WriterInv
  BY DEF IInv
<1>2. /\ wpc = "failed" /\ wpc' = "returning"
      /\ UNCHANGED <<window, detail, ip, outRxOpen, outQ>> /\ WriterOnly
  BY DEF WriterFailed
<1>3. ASSUME NEW all, NEW n \in 0 .. Len(all), Written(n, all)
      PROVE  Written(n, all)' /\ Queued(n, all)' /\ Pending(n, all)'
  <2>1. CutAfter(n, all)'
    BY <1>2, <1>3 DEF Written, Broken, CutAfter, LogsHold, IpHolds, DetailHolds
  <2> QED BY <1>2, <2>1, BrokenStays DEF Broken
<1> QED BY <1>1, <1>2, <1>3, WriterStep DEF Returned, Broken, WriterInv

LEMMA WriterReturnsKeeps ==
  ASSUME IInv, WriterReturns
  PROVE  IInv'
<1>1. CaptureInv /\ MainInv /\ WriterInv
  BY DEF IInv
<1>2. /\ \/ wpc = "returning" /\ wpc' = "err"
         \/ wpc = "recv" /\ outQ = <<>> /\ ~OutputTxOpen /\ wpc' = "ok"
      /\ outRxOpen' = FALSE /\ outQ' = <<>>
      /\ UNCHANGED <<stop, detail, ip>> /\ WriterOnly
  BY DEF WriterReturns
<1>3. ASSUME NEW all, NEW n \in 0 .. Len(all), WindowsToWrite(all), Len(all) \in Nat,
             Written(n, all), Queued(n, all), Pending(n, all)
      PROVE  Written(n, all)' /\ Queued(n, all)' /\ Pending(n, all)'
  <2>1. CASE wpc = "returning" /\ wpc' = "err"
    <3>1. CutAfter(n, all)'
      BY <1>2, <1>3, <2>1 DEF Written, Broken, CutAfter, LogsHold, IpHolds, DetailHolds
    <3> QED BY <2>1, <3>1, BrokenStays DEF Broken
  <2>2. CASE wpc = "recv" /\ outQ = <<>> /\ wpc' = "ok"
    <3>1. Written(n, all)'
      BY <1>2, <1>3, <2>2 DEF Written, LogsHold, Writing, Broken
    <3>2. outQ' = outQ
      BY <1>2, <2>2
    <3>3. Sent(n)' = Sent(n)
      BY <2>2, <3>2 DEF Sent, Writing
    <3> QED BY <1>2, <1>3, <2>2, <3>1, <3>2, <3>3, InHandStays DEF Broken
  <2> QED BY <1>2, <2>1, <2>2
<1> QED BY <1>1, <1>2, <1>3, WriterStep DEF Returned, Broken, WriterInv

-----------------------------------------------------------------------------
(* The start, and the theorems.                                            *)

LEMMA NoWindowsNoLines == DetailOf(<<>>) = <<>> /\ IpOf(<<>>) = <<>>
<1>1. LinesOf(<<>>) = <<>>
  <2>1. IsSequence(LinesOf(<<>>)) /\ Len(LinesOf(<<>>)) = 0
    BY EmptySequence, LinesOfSequence
  <2> QED BY <2>1, SequenceFacts
<1> DEFINE ips == [i \in DOMAIN <<>> |-> AggregateByIp(<<>>[i])]
<1>2. ips = <<>>
  <2>1. DOMAIN <<>> = 1 .. 0
    BY EmptySequence, SequenceFacts
  <2>2. DOMAIN ips = 1 .. 0 /\ ips = [i \in 1 .. 0 |-> ips[i]]
    BY <2>1
  <2> HIDE DEF ips
  <2>3. IsSequence(ips) /\ Len(ips) = 0
    BY <2>2, FunctionIsSequence
  <2> QED BY <2>3, SequenceFacts
<1> QED BY <1>1, <1>2, FlattenNone DEF DetailOf, IpOf

LEMMA StartIsGood ==
  ASSUME NEW local
  PROVE  /\ GoodTrace(<<Addresses(local)>>)
         /\ Len(<<Addresses(local)>>) = 1
         /\ PacketsIn(<<Addresses(local)>>) = 0
         /\ AfterEvents(<<Addresses(local)>>) = [agg |-> NewAggregator(local), windows |-> <<>>]
<1> DEFINE e == Addresses(local)  none == SubSeq(<<>>, 1, 0)
<1>1. e.kind = "addresses" /\ e.kind # "packet" /\ e.kind \in Kinds /\ e.local = local
  BY DEF Addresses, Kinds
<1>2. <<e>> = Append(<<>>, e)
  <2> HIDE DEF e
  <2> QED OBVIOUS
<1> HIDE DEF e
<1>3. none = <<>>
  BY EmptySequence, WholeSequence
<1>4. GoodRun(Fresh)
  <2> DEFINE a == NewAggregator({})
  <2>1. a = [local |-> a.local, flows |-> a.flows, buckets |-> a.buckets]
        /\ IsFiniteSet(DOMAIN a.buckets)
    BY FS_EmptySet DEF NewAggregator, NoBuckets
  <2> HIDE DEF a
  <2>2. WindowsToWrite(<<>>)
    BY EmptySequence DEF WindowsToWrite
  <2>3. Fresh = [agg |-> a, windows |-> <<>>]
    BY DEF Fresh, a
  <2>4. Fresh.agg = a /\ Fresh.windows = <<>>
    BY <2>3
  <2> QED BY <2>1, <2>2, <2>3, <2>4 DEF GoodRun
<1>5. GoodTrace(<<>>)
  <2>1. RunOf(<<>>, 0) = Fresh /\ AfterEvents(<<>>) = Fresh
    BY <1>3, AfterNone DEF RunOf
  <2>2. \A n \in 0 .. Len(<<>>) : n = 0
    BY EmptySequence
  <2>3. Beginning(Fresh.windows, Fresh.windows)
    BY <1>4, BeginningOfItself DEF GoodRun
  <2> QED BY <1>4, <2>1, <2>2, <2>3, EmptySequence DEF GoodTrace
<1>6. PICK start : start = <<>>
  OBVIOUS
<1>7. <<e>> = Append(start, e) /\ Len(start) = 0 /\ IsSequence(start)
  BY <1>2, <1>6, EmptySequence
<1>8. GoodTrace(<<e>>) /\ Len(<<e>>) = 1 /\ AfterEvents(<<e>>) = Account(Fresh, e)
  <2>1. GoodTrace(start) /\ AfterEvents(start) = Fresh
    BY <1>5, <1>6, AfterNone
  <2>2. /\ GoodTrace(Append(start, e)) /\ Len(Append(start, e)) = Len(start) + 1
        /\ AfterEvents(Append(start, e)) = Account(AfterEvents(start), e)
    BY <1>1, <2>1, TraceGrows
  <2>3. PICK one : one = Append(start, e)
    OBVIOUS
  <2>4. GoodTrace(one) /\ Len(one) = 1 /\ AfterEvents(one) = Account(Fresh, e)
    BY <1>7, <2>1, <2>2, <2>3
  <2> QED BY <1>7, <2>3, <2>4
<1>9. Account(Fresh, e) = [agg |-> NewAggregator(local), windows |-> <<>>]
  <2> DEFINE a == ReplaceLocal(NewAggregator({}), local)
  <2>1. Account(Fresh, e) = [Fresh EXCEPT !.agg = ReplaceLocal(@, local)]
    BY <1>1 DEF Account
  <2>2. a = NewAggregator(local)
    <3> HIDE DEF NoBuckets
    <3> QED BY DEF ReplaceLocal, NewAggregator
  <2>3. Account(Fresh, e) = [agg |-> a, windows |-> <<>>]
    <3>1. [Fresh EXCEPT !.agg = ReplaceLocal(@, local)] = [Fresh EXCEPT !.agg = a]
      BY DEF Fresh
    <3> HIDE DEF a
    <3> QED BY <2>1, <3>1 DEF Fresh
  <2> QED BY <2>2, <2>3
<1>10. PacketsIn(<<e>>) = 0
  <2>1. PacketsIn(<<>>) = 0
    <3>1. {i \in DOMAIN <<>> : <<>>[i].kind = "packet"} = {}
      OBVIOUS
    <3> QED BY <3>1, FS_EmptySet DEF PacketsIn
  <2>2. PacketsIn(Append(start, e)) = PacketsIn(start) + (IF e.kind = "packet" THEN 1 ELSE 0)
    BY <1>7, PacketCount
  <2>3. PICK one : one = Append(start, e)
    OBVIOUS
  <2>4. PacketsIn(one) = 0
    BY <1>1, <1>6, <2>1, <2>2, <2>3
  <2> QED BY <1>7, <2>3, <2>4
<1> QED BY <1>8, <1>9, <1>10 DEF e

LEMMA InitHolds == Init => IInv
<1> SUFFICES ASSUME Init PROVE IInv
  OBVIOUS
<1>1. PICK local \in LocalSets : agg = NewAggregator(local) /\ trace = <<Addresses(local)>>
  BY DEF Init
<1>2. /\ GoodTrace(trace) /\ Len(trace) = 1 /\ PacketsIn(trace) = 0
      /\ AfterEvents(trace) = [agg |-> agg, windows |-> <<>>]
  BY <1>1, StartIsGood
<1>3. /\ eventQ = <<>> /\ cpc = "top" /\ mpc = "recv" /\ batch = <<>> /\ result = "none"
      /\ outQ = <<>> /\ outRxOpen = TRUE /\ wpc = "recv"
      /\ detail = EmptyFile /\ ip = EmptyFile
      /\ counts = [c \in {"parsed", "queue_drops"} \cup SkipReason |-> 0]
  BY DEF Init, CaptureInit
<1>4. AfterEvents(trace).agg = agg /\ AfterEvents(trace).windows = <<>>
  BY <1>2
<1>5. Len(eventQ) = 0 /\ Len(outQ) = 0 /\ IsSequence(eventQ) /\ Len(<<>>) = 0
  BY <1>3, EmptySequence
<1>6. Taken = 1 /\ RunOf(trace, Taken) = AfterEvents(trace)
  <2>1. Taken = 1
    BY <1>2, <1>5 DEF Taken
  <2> QED BY <1>2, <2>1, GoodTraceFacts
<1>7. CaptureInv
  <2>1. counts \in [{"parsed", "queue_drops"} \cup SkipReason -> Nat]
        /\ counts["parsed"] = 0 /\ counts["queue_drops"] = 0
    BY <1>3
  <2>2. PacketsPut = 0
    BY <1>2 DEF PacketsIn, PacketsPut
  <2> QED BY <1>2, <1>3, <1>5, <2>1, <2>2 DEF CaptureInv
<1>8. MainInv
  BY <1>2, <1>3, <1>4, <1>5, <1>6 DEF MainInv, Running, Ending
<1>9. Sequential = <<>>
  BY <1>4 DEF Sequential
<1>10. SubSeq(<<>>, 1, 0) = <<>>
  BY EmptySequence, WholeSequence
<1>11. LogsHold(<<>>)
  BY <1>3, NoWindowsNoLines DEF LogsHold, EmptyFile
<1>12. Sent(0) = 0
  BY <1>3, <1>5 DEF Sent, Writing
<1>13. Written(0, <<>>) /\ Queued(0, <<>>) /\ Pending(0, <<>>)
  <2>1. Written(0, <<>>)
    <3>1. PICK none : none = <<>>
      OBVIOUS
    <3>2. Len(none) = 0 /\ SubSeq(none, 1, 0) = none
      BY <1>5, <1>10, <3>1
    <3>3. LogsHold(SubSeq(none, 1, 0))
      BY <1>11, <3>1, <3>2, Zenon
    <3>4. Written(0, none)
      BY <1>3, <3>2, <3>3 DEF Written, Writing, Broken
    <3> QED BY <3>1, <3>4
  <2>2. Queued(0, <<>>)
    BY <1>3, <1>5, <1>12 DEF Queued
  <2>3. Pending(0, <<>>)
    BY <1>3, <1>4, <1>5, <1>6, <1>12 DEF Pending
  <2> QED BY <2>1, <2>2, <2>3
<1>14. WriterInv
  BY <1>3, <1>5, <1>9, <1>13 DEF WriterInv, Writing, Returned
<1> QED BY <1>7, <1>8, <1>14 DEF IInv

LEMMA NextHolds == IInv /\ [Next]_vars => IInv'
<1> SUFFICES ASSUME IInv, [Next]_vars PROVE IInv'
  OBVIOUS
<1>1. CASE UNCHANGED vars
  <2>1. /\ UNCHANGED <<eventQ, cpc, outgoing, counts>>
        /\ UNCHANGED <<mpc, agg, batch, result, exit>>
        /\ UNCHANGED <<wpc, window, detail, ip, outRxOpen>>
        /\ UNCHANGED <<outQ, trace>>
    BY <1>1 DEF vars, captureVars, mainVars, writerVars
  <2>2. CaptureInv' /\ MainInv'
    BY <2>1 DEF IInv, CaptureInv, MainInv, PacketsPut, Taken, CaptureReturned, Verdict
  <2>3. Sequential' = Sequential /\ OutputTxOpen' = OutputTxOpen /\ Taken' = Taken
    BY <2>1 DEF Sequential, OutputTxOpen, Taken
  <2>4. \A n, all : /\ Written(n, all)' <=> Written(n, all)
                    /\ Queued(n, all)' <=> Queued(n, all)
                    /\ Pending(n, all)' <=> Pending(n, all)
    BY <2>1, <2>3 DEF Written, Queued, Pending, Sent, CutAfter, LogsHold, DetailHolds, IpHolds
  <2>5. WriterInv'
    BY <2>1, <2>3, <2>4 DEF IInv, WriterInv
  <2> QED BY <2>2, <2>5 DEF IInv
<1>2. CASE Writer
  BY <1>2, TakeWindowKeeps, LookUpKeeps, AppendDetailKeeps, AppendIpKeeps,
     WriterFailedKeeps, WriterReturnsKeeps DEF Writer
<1> QED BY <1>1, <1>2, CaptureKeeps, MainKeeps, EnvironmentKeeps DEF Next, Exited

(* The inductive invariant: the queues between the threads hold, in order, *)
(* exactly what one thread has done and the next one has not, and the logs *)
(* are those of a beginning of the sequential run (runtime.rs:134-230,     *)
(* output.rs:55-131).                                                      *)
THEOREM QueuesConnectTheThreads == Spec => []IInv
BY InitHolds, NextHolds, PTL DEF Spec

(* What run returns is what the logs hold (runtime.rs:225).                *)
THEOREM ExitTruth == Spec => []ExitTellsTheTruth
<1>1. ASSUME IInv PROVE ExitTellsTheTruth
  <2> SUFFICES ASSUME mpc = "exited"
               PROVE  /\ exit \in {"ok", "capture"} => LogsHold(Sequential)
                      /\ exit = "aggregation" =>
                           \E n \in 0 .. Len(Sequential) - 1 : LogsHold(SubSeq(Sequential, 1, n))
                      /\ exit = "ok" => counts["parsed"] = PacketsPut + counts["queue_drops"]
    BY DEF ExitTellsTheTruth
  <2>1. CaptureInv /\ MainInv /\ WriterInv
    BY <1>1 DEF IInv
  <2>2. exit = Verdict /\ result \in {"ok", "err"} /\ wpc \in Returned
    BY <2>1 DEF MainInv, Running, Ending
  <2>3. WindowsToWrite(Sequential)
    BY <2>1, GoodTraceFacts DEF CaptureInv, Sequential
  <2>4. Len(Sequential) \in Nat /\ SubSeq(Sequential, 1, Len(Sequential)) = Sequential
    BY <2>3, SequenceFacts, WholeSequence DEF WindowsToWrite
  <2>5. PICK n \in 0 .. Len(Sequential) :
           Written(n, Sequential) /\ Queued(n, Sequential) /\ Pending(n, Sequential)
    BY <2>1 DEF WriterInv
  <2>6. exit = "ok" => counts["parsed"] = PacketsPut + counts["queue_drops"]
    BY <2>1, <2>2 DEF Verdict, CaptureInv
  <2>7. CASE wpc = "err"
    BY <2>2, <2>6, <2>7 DEF Verdict
  <2>8. CASE wpc = "ok"
    <3>1. outQ = <<>>
      BY <2>1, <2>8 DEF WriterInv
    <3>2. Sent(n) = n
      <4>1. Sent(n) = n + 0 + 0
        BY <2>8, <3>1, EmptySequence DEF Sent, Writing
      <4> QED BY <2>4, <4>1
    <3>3. LogsHold(SubSeq(Sequential, 1, n))
      BY <2>5, <2>8 DEF Written
    <3>4. CASE result = "ok"
      <4>1. n = Len(Sequential)
        BY <2>5, <2>8, <3>2, <3>4 DEF Pending, Broken
      <4>2. LogsHold(Sequential)
        BY <2>4, <3>3, <4>1
      <4> QED BY <2>2, <2>6, <2>8, <3>4, <4>2 DEF Verdict
    <3>5. CASE result = "err"
      <4>1. n < Len(Sequential)
        BY <2>5, <2>8, <3>2, <3>5 DEF Pending, Broken
      <4>2. n \in 0 .. Len(Sequential) - 1
        BY <2>4, <2>5, <4>1
      <4> QED BY <2>2, <2>6, <2>8, <3>3, <3>5, <4>2 DEF Verdict
    <3> QED BY <2>2, <3>4, <3>5
  <2> QED BY <2>2, <2>7, <2>8 DEF Returned
<1> QED BY QueuesConnectTheThreads, <1>1, PTL

\* A prefix of itself, and an empty rest.
LEMMA PrefixOfItself ==
  ASSUME NEW s, IsSequence(s)
  PROVE  IsPrefix(s, s)
<1>1. Len(s) <= Len(s)
  BY SequenceFacts
<1> QED BY <1>1, PrefixOf

LEMMA PrefixOfConcat ==
  ASSUME NEW s, NEW t, IsSequence(s), IsSequence(t)
  PROVE  IsPrefix(s, s \o t)
<1>1. Len(s) \in Nat /\ Len(t) \in Nat
  BY SequenceFacts
<1>2. /\ IsSequence(s \o t) /\ Len(s \o t) = Len(s) + Len(t)
      /\ \A i \in 1 .. Len(s) : (s \o t)[i] = s[i]
  BY ConcatSequence
<1>3. PICK b : b = s \o t
  OBVIOUS
<1>4. IsSequence(b) /\ Len(s) <= Len(b) /\ \A i \in 1 .. Len(s) : b[i] = s[i]
  BY <1>1, <1>2, <1>3
<1>5. IsPrefix(s, b)
  BY <1>4, PrefixOf
<1> QED BY <1>3, <1>5

(* The logs are always those of a beginning of the sequential run, with at *)
(* most the next window partly there (runtime.rs:134-176 and 199-213,      *)
(* output.rs:55-131).                                                      *)
THEOREM LogsFollow == Spec => []LogsFollowTheTraffic
<1>1. ASSUME IInv PROVE LogsFollowTheTraffic
  <2>1. CaptureInv /\ WriterInv
    BY <1>1 DEF IInv
  <2>2. PICK all : all = Sequential
    OBVIOUS
  <2>3. WindowsToWrite(all) /\ Len(all) \in Nat
    BY <2>1, <2>2, GoodTraceFacts, SequenceFacts DEF CaptureInv, Sequential, WindowsToWrite
  <2>4. PICK n \in 0 .. Len(all) : Written(n, all)
    BY <2>1, <2>2 DEF WriterInv
  <2>5. CutAfter(n, all)
    <3>1. CASE wpc \in {"recv", "ok", "lookup", "detail"}
      BY <2>4, <3>1 DEF Written, CutAfter
    <3>2. CASE wpc \in Broken
      BY <2>4, <3>2 DEF Written
    <3>3. CASE wpc = "ip"
      <4>1. /\ n < Len(all) /\ n \in 0 .. Len(all) - 1 /\ n + 1 \in 1 .. Len(all)
            /\ DetailHolds(SubSeq(all, 1, n + 1))
            /\ ip = [lines |-> IpOf(SubSeq(all, 1, n)), torn |-> FALSE]
        BY <2>3, <2>4, <3>3 DEF Written, Writing, IpHolds
      <4>2. /\ SubSeq(all, 1, n + 1) = Append(SubSeq(all, 1, n), all[n + 1])
            /\ IpOf(SubSeq(all, 1, n + 1))
                 = IpOf(SubSeq(all, 1, n)) \o LinesOf(AggregateByIp(all[n + 1]))
        BY <2>3, <4>1, LogsGrow
      <4>3. IsSequence(IpOf(SubSeq(all, 1, n)))
        BY <2>3, LogOfBeginning
      <4>4. IsSequence(LinesOf(AggregateByIp(all[n + 1])))
        <5>1. IsSequence(all[n + 1])
          BY <2>3, <4>1 DEF WindowsToWrite
        <5> QED BY <5>1, AggregateByIpSequence, LinesOfSequence
      <4>5. /\ IsPrefix(IpOf(SubSeq(all, 1, n)), ip.lines)
            /\ IsPrefix(ip.lines, IpOf(Append(SubSeq(all, 1, n), all[n + 1])))
        <5>1. ip.lines = IpOf(SubSeq(all, 1, n))
          BY <4>1
        <5> QED BY <4>2, <4>3, <4>4, <5>1, PrefixOfItself, PrefixOfConcat
      <4> QED BY <4>1, <4>2, <4>5 DEF CutAfter
    <3> QED BY <2>1, <3>1, <3>2, <3>3 DEF WriterInv, Writing, Broken
  <2>6. LogsHold(SubSeq(all, 1, n)) \/ CutAfter(n, all)
    BY <2>5
  <2> QED BY <2>2, <2>4, <2>5 DEF LogsFollowTheTraffic, CutAfter, IpHolds, DetailHolds
<1> QED BY QueuesConnectTheThreads, <1>1, PTL
=============================================================================
