--------------------------- MODULE ProgramsProofs ---------------------------
(***************************************************************************)
(* Theorems about Programs, for any image, any commands typed, any size of *)
(* buffers, names and arguments: what getargs delivers is what was typed,  *)
(* cat and ls show the file or the directory, grep prints the lines that   *)
(* hold the pattern, syserr's tests pass, and every variable keeps its     *)
(* range.                                                                  *)
(***************************************************************************)
EXTENDS Programs, FilesProofs

-----------------------------------------------------------------------------
(* Sequences *)

LEMMA SequenceTyped ==
  ASSUME NEW s, IsSequence(s)
  PROVE  /\ Len(s) \in Nat /\ DOMAIN s = 1 .. Len(s)
         /\ s \in Seq({s[k] : k \in 1 .. Len(s)})
<1> DEFINE n == Len(s)
           T == {s[k] : k \in 1 .. n}
<1>1. n \in Nat /\ s = [k \in 1 .. n |-> s[k]]
  BY DEF IsSequence
<1> HIDE DEF n
<1>2. [k \in 1 .. n |-> s[k]] \in Seq(T)
  BY <1>1
<1>3. DOMAIN s = 1 .. n
  BY <1>1
<1> QED
  BY <1>1, <1>2, <1>3 DEF n

\* A function on 1 .. n is a sequence of length n.
LEMMA MadeSequence ==
  ASSUME NEW n \in Nat, NEW s, s = [k \in 1 .. n |-> s[k]]
  PROVE  IsSequence(s) /\ Len(s) = n
<1> DEFINE T == {s[k] : k \in 1 .. n}
<1>1. [k \in 1 .. n |-> s[k]] \in [1 .. n -> T]
  OBVIOUS
<1>2. s \in [1 .. n -> T]
  BY <1>1
<1>3. Len(s) = n
  BY <1>2
<1> QED
  BY <1>3 DEF IsSequence

LEMMA SeqIsSequence ==
  ASSUME NEW T, NEW s \in Seq(T)
  PROVE  IsSequence(s)
<1>1. Len(s) \in Nat /\ s \in [1 .. Len(s) -> T]
  OBVIOUS
<1> QED
  BY <1>1 DEF IsSequence

LEMMA SameSequence ==
  ASSUME NEW a, NEW b, IsSequence(a), IsSequence(b), Len(a) = Len(b),
         \A k \in 1 .. Len(a) : a[k] = b[k]
  PROVE  a = b
BY DEF IsSequence

LEMMA EmptySequence == IsSequence(<<>>) /\ Len(<<>>) = 0
<1>1. Len(<<>>) = 0 /\ <<>> = [k \in 1 .. 0 |-> <<>>[k]]
  BY EmptySeq
<1> QED
  BY <1>1 DEF IsSequence

LEMMA NoElements ==
  ASSUME NEW s, IsSequence(s)
  PROVE  s = <<>> <=> Len(s) = 0
<1>1. Len(s) = 0 => s = <<>>
  BY EmptySequence, SameSequence
<1> QED
  BY <1>1, EmptySequence

LEMMA Joined ==
  ASSUME NEW a, NEW b, IsSequence(a), IsSequence(b)
  PROVE  /\ IsSequence(a \o b) /\ Len(a \o b) = Len(a) + Len(b)
         /\ \A k \in 1 .. Len(a) : (a \o b)[k] = a[k]
         /\ \A k \in Len(a) + 1 .. Len(a) + Len(b) : (a \o b)[k] = b[k - Len(a)]
<1> DEFINE T == {a[k] : k \in 1 .. Len(a)} \cup {b[k] : k \in 1 .. Len(b)}
<1>1. a \in Seq(T) /\ b \in Seq(T) /\ Len(a) \in Nat /\ Len(b) \in Nat
  <2>1. a \in Seq({a[k] : k \in 1 .. Len(a)}) /\ b \in Seq({b[k] : k \in 1 .. Len(b)})
        /\ Len(a) \in Nat /\ Len(b) \in Nat
    BY SequenceTyped
  <2> QED
    BY <2>1
<1> HIDE DEF T
<1>2. /\ a \o b \in Seq(T) /\ Len(a \o b) = Len(a) + Len(b)
      /\ \A k \in 1 .. Len(a) + Len(b) :
           (a \o b)[k] = IF k <= Len(a) THEN a[k] ELSE b[k - Len(a)]
  BY <1>1, ConcatProperties
<1>3. IsSequence(a \o b)
  BY <1>2, SeqIsSequence
<1> QED
  BY <1>1, <1>2, <1>3

\* The same as one fact.
IsJoin(c, a, b) ==
  /\ IsSequence(c) /\ Len(c) = Len(a) + Len(b)
  /\ \A k \in 1 .. Len(a) : c[k] = a[k]
  /\ \A k \in Len(a) + 1 .. Len(a) + Len(b) : c[k] = b[k - Len(a)]

LEMMA JoinIs ==
  ASSUME NEW a, NEW b, IsSequence(a), IsSequence(b)
  PROVE  IsJoin(a \o b, a, b)
BY Joined DEF IsJoin

LEMMA JoinNothing ==
  ASSUME NEW a, IsSequence(a)
  PROVE  a \o <<>> = a /\ <<>> \o a = a
<1>1. Len(a) \in Nat
  BY DEF IsSequence
<1>2. a \o <<>> = a
  BY <1>1, EmptySequence, Joined, SameSequence
<1>3. <<>> \o a = a
  BY <1>1, EmptySequence, Joined, SameSequence
<1> QED
  BY <1>2, <1>3

LEMMA Prefix ==
  ASSUME NEW s, IsSequence(s), NEW n \in 0 .. Len(s)
  PROVE  /\ IsSequence(SubSeq(s, 1, n)) /\ Len(SubSeq(s, 1, n)) = n
         /\ \A k \in 1 .. n : SubSeq(s, 1, n)[k] = s[k]
         /\ n = Len(s) => SubSeq(s, 1, n) = s
<1>1. PICK T : s \in Seq(T)
  BY SequenceTyped
<1>2. Len(s) \in Nat
  BY DEF IsSequence
<1> DEFINE r == SubSeq(s, 1, n)
<1>3. /\ r \in Seq(T) /\ Len(r) = n
      /\ \A k \in 1 .. n : r[k] = s[1 + k - 1]
  BY <1>1, <1>2, SubSeqProperties
<1> HIDE DEF r
<1>4. IsSequence(r) /\ \A k \in 1 .. n : r[k] = s[k]
  BY <1>3, SeqIsSequence
<1>5. n = Len(s) => r = s
  BY <1>3, <1>4, SameSequence
<1> QED
  BY <1>3, <1>4, <1>5 DEF r

\* The recursive definition of FlattenSeq, on the first n elements.
Flattens(f, s, n) ==
  f = [i \in 1 .. n |-> IF i = 1 THEN s[i] ELSE f[i-1] \o s[i]]

LEMMA FlattenExists ==
  ASSUME NEW s, NEW n \in Nat
  PROVE  \E f : Flattens(f, s, n)
<1> DEFINE T == {m \in Nat : ~\E f : Flattens(f, s, m)}
<1> SUFFICES ASSUME T # {}
             PROVE  FALSE
  OBVIOUS
<1>1. PICK m \in T : \A k \in T : m <= k
  BY LeastNumber
<1>2. CASE m = 0
  <2>1. Flattens([i \in 1 .. 0 |-> s[i]], s, 0)
    BY DEF Flattens
  <2> QED
    BY <1>1, <1>2, <2>1
<1>3. CASE m # 0
  <2>1. m - 1 \in Nat /\ m - 1 \notin T
    BY <1>1, <1>3
  <2>2. PICK f : Flattens(f, s, m - 1)
    BY <2>1
  <2> DEFINE g == [i \in 1 .. m |-> IF i = m THEN IF m = 1 THEN s[m] ELSE f[m-1] \o s[m]
                                  ELSE f[i]]
  <2>3. ASSUME NEW i \in 1 .. m
        PROVE  g[i] = IF i = 1 THEN s[i] ELSE g[i-1] \o s[i]
    <3>1. CASE i = m
      <4>1. m # 1 => g[m-1] = f[m-1]
        BY <2>1
      <4> QED
        BY <3>1, <4>1
    <3>2. CASE i # m
      <4>1. i \in 1 .. m - 1 /\ g[i] = f[i] /\ (i # 1 => i - 1 \in 1 .. m /\ i - 1 # m)
        BY <2>1, <3>2
      <4>2. f[i] = IF i = 1 THEN s[i] ELSE f[i-1] \o s[i]
        BY <2>2, <4>1 DEF Flattens
      <4>3. i # 1 => g[i-1] = f[i-1]
        BY <4>1
      <4> QED
        BY <4>1, <4>2, <4>3
    <3> QED
      BY <3>1, <3>2
  <2>4. g = [i \in 1 .. m |-> g[i]]
    OBVIOUS
  <2> HIDE DEF g
  <2>5. Flattens(g, s, m)
    BY <2>3, <2>4 DEF Flattens
  <2> QED
    BY <1>1, <2>5
<1> QED
  BY <1>2, <1>3

LEMMA FlattenUnique ==
  ASSUME NEW s, NEW t, NEW n \in Nat, NEW m \in Nat, NEW f, NEW g,
         Flattens(f, s, n), Flattens(g, t, m), n <= m, \A i \in 1 .. n : t[i] = s[i]
  PROVE  \A i \in 1 .. n : f[i] = g[i]
<1> DEFINE T == {i \in 1 .. n : f[i] # g[i]}
<1> SUFFICES ASSUME T # {}
             PROVE  FALSE
  OBVIOUS
<1>1. PICK i \in T : \A k \in T : i <= k
  <2>1. T \subseteq Nat
    OBVIOUS
  <2> HIDE DEF T
  <2> QED
    BY <2>1, LeastNumber
<1>2. f[i] = IF i = 1 THEN s[i] ELSE f[i-1] \o s[i]
  BY <1>1 DEF Flattens
<1>9. i \in 1 .. m
  BY <1>1
<1>3. g[i] = IF i = 1 THEN t[i] ELSE g[i-1] \o t[i]
  BY <1>9 DEF Flattens
<1>4. CASE i = 1
  BY <1>1, <1>2, <1>3, <1>4
<1>5. CASE i # 1
  <2>1. i - 1 \in 1 .. n /\ i - 1 \notin T
    BY <1>1, <1>5
  <2>2. f[i-1] = g[i-1]
    BY <2>1
  <2> QED
    BY <1>1, <1>2, <1>3, <1>5, <2>2
<1> QED
  BY <1>4, <1>5

\* FlattenSeq is the last of the partial results.
LEMMA FlattenIs ==
  ASSUME NEW s, Len(s) \in Nat, Len(s) # 0, NEW f, Flattens(f, s, Len(s))
  PROVE  FlattenSeq(s) = f[Len(s)]
<1> DEFINE n == Len(s)
<1>1. FlattenSeq(s) = (CHOOSE g : g = [i \in 1 .. n |-> IF i = 1 THEN s[i] ELSE g[i-1] \o s[i]])[n]
  BY Zenon DEF FlattenSeq
<1>2. PICK g : g = (CHOOSE h : h = [i \in 1 .. n |-> IF i = 1 THEN s[i] ELSE h[i-1] \o s[i]])
  OBVIOUS
<1>3. Flattens(g, s, n)
  BY <1>2, Zenon DEF Flattens
<1>4. g[n] = f[n]
  BY <1>3, FlattenUnique
<1> QED
  BY <1>1, <1>2, <1>4, Zenon

Sequences(s) == IsSequence(s) /\ \A k \in 1 .. Len(s) : IsSequence(s[k])

LEMMA FlattenIsSequence ==
  ASSUME NEW s, Sequences(s)
  PROVE  IsSequence(FlattenSeq(s))
<1> DEFINE n == Len(s)
<1>0. n \in Nat
  BY DEF Sequences, IsSequence
<1>1. CASE n = 0
  BY <1>1 DEF FlattenSeq, Sequences
<1>2. CASE n # 0
  <2>1. PICK f : Flattens(f, s, n)
    BY <1>0, FlattenExists
  <2> DEFINE T == {i \in 1 .. n : ~IsSequence(f[i])}
  <2>2. ASSUME T # {}
        PROVE  FALSE
    <3>1. PICK i \in T : \A k \in T : i <= k
      <4>1. T \subseteq Nat
        OBVIOUS
      <4> HIDE DEF T
      <4> QED
        BY <2>2, <4>1, LeastNumber
    <3>2. f[i] = IF i = 1 THEN s[i] ELSE f[i-1] \o s[i]
      BY <2>1, <3>1 DEF Flattens
    <3>3. IsSequence(s[i])
      BY <3>1 DEF Sequences
    <3>4. CASE i = 1
      BY <3>1, <3>2, <3>3, <3>4
    <3>5. CASE i # 1
      <4>1. i - 1 \in 1 .. n /\ i - 1 \notin T
        BY <1>0, <3>1, <3>5
      <4>2. IsSequence(f[i-1] \o s[i])
        BY <3>3, <4>1, Joined
      <4> QED
        BY <3>1, <3>2, <3>5, <4>2
    <3> QED
      BY <3>4, <3>5
  <2>3. FlattenSeq(s) = f[n]
    BY <1>0, <1>2, <2>1, FlattenIs
  <2> QED
    BY <1>0, <1>2, <2>2, <2>3
<1> QED
  BY <1>1, <1>2

\* One more element is joined at the end.
LEMMA FlattenOneMore ==
  ASSUME NEW s, NEW t, NEW x, Sequences(s), IsSequence(x), IsSequence(t),
         Len(t) = Len(s) + 1, \A k \in 1 .. Len(s) : t[k] = s[k], t[Len(t)] = x
  PROVE  FlattenSeq(t) = FlattenSeq(s) \o x
<1> DEFINE n == Len(s)
           m == Len(t)
<1>0. n \in Nat /\ m = n + 1 /\ m \in Nat /\ m # 0
  BY DEF Sequences, IsSequence
<1>1. PICK g : Flattens(g, t, m)
  BY <1>0, FlattenExists
<1>2. FlattenSeq(t) = g[m]
  BY <1>0, <1>1, FlattenIs
<1>3. g[m] = IF m = 1 THEN t[m] ELSE g[m-1] \o t[m]
  <2>1. m \in 1 .. m
    BY <1>0
  <2> HIDE DEF m
  <2> QED
    BY <1>1, <2>1 DEF Flattens
<1>4. CASE n = 0
  <2>1. s = <<>>
    BY <1>4, NoElements DEF Sequences
  <2>2. FlattenSeq(s) = <<>>
    BY <1>4, <2>1 DEF FlattenSeq
  <2> QED
    BY <1>0, <1>2, <1>3, <1>4, <2>2, JoinNothing
<1>5. CASE n # 0
  <2>1. PICK f : Flattens(f, s, n)
    BY <1>0, FlattenExists
  <2>2. FlattenSeq(s) = f[n]
    BY <1>0, <1>5, <2>1, FlattenIs
  <2>3. f[n] = g[n]
    <3>1. n <= m /\ n \in 1 .. n /\ \A i \in 1 .. n : t[i] = s[i]
      BY <1>0, <1>5
    <3> HIDE DEF n, m
    <3> QED
      BY <1>0, <1>1, <2>1, <3>1, FlattenUnique
  <2>4. m # 1 /\ m - 1 = n
    BY <1>0, <1>5
  <2> QED
    BY <1>2, <1>3, <2>2, <2>3, <2>4
<1> QED
  BY <1>4, <1>5

-----------------------------------------------------------------------------
(* The script of syserr *)

WithVerdict(n) == Append(Test(n), Entry("verdict", n, "any"))
TestLength == <<3, 3, 13, 3, 20, 2, 2, 3>>

\* How many calls and verdicts come before test n.
Start == <<0, 4, 8, 22, 26, 47, 50, 53, 57>>

LEMMA Starts ==
  /\ \A n \in 1 .. 8 : TestLength[n] \in Nat /\ Start[n + 1] = Start[n] + TestLength[n] + 1
  /\ \A n \in 1 .. 9 : Start[n] \in 0 .. 57
  /\ Start[1] = 0 /\ Start[9] = 57
BY DEF TestLength, Start

LEMMA FdsFromSequence ==
  ASSUME NEW low \in 0 .. 2
  PROVE  /\ IsSequence(FdsFrom(low)) /\ Len(FdsFrom(low)) = 8 - low
         /\ DOMAIN FdsFrom(low) = 1 .. 8 - low
         /\ \A k \in 1 .. 8 - low : FdsFrom(low)[k] = low + k - 1
<1>1. MAX_OPEN_FILES = 8
  BY ProgramSizesAssumption
<1>2. FdsFrom(low) = [k \in 1 .. 8 - low |-> low + k - 1]
  BY <1>1 DEF FdsFrom
<1>3. FdsFrom(low) = [k \in 1 .. 8 - low |-> FdsFrom(low)[k]]
  BY <1>2
<1>4. 8 - low \in Nat
  OBVIOUS
<1> QED
  BY <1>2, <1>3, <1>4, MadeSequence

LEMMA EachSequence ==
  ASSUME NEW name, NEW fds, NEW must, IsSequence(fds)
  PROVE  /\ IsSequence(Each(name, fds, must)) /\ Len(Each(name, fds, must)) = Len(fds)
         /\ \A k \in 1 .. Len(fds) : Each(name, fds, must)[k] = Entry(name, fds[k], must)
<1> DEFINE s == Each(name, fds, must)
           n == Len(fds)
<1>1. n \in Nat /\ DOMAIN fds = 1 .. n
  BY SequenceTyped
<1> HIDE DEF n
<1>2. s = [k \in 1 .. n |-> Entry(name, fds[k], must)]
  BY <1>1 DEF Each
<1>3. s = [k \in 1 .. n |-> s[k]]
  BY <1>2
<1> HIDE DEF s
<1>4. IsSequence(s) /\ Len(s) = n
  BY <1>1, <1>3, MadeSequence
<1> QED
  BY <1>2, <1>4 DEF s, n

\* A verdict at the end.
LEMMA AppendSequence ==
  ASSUME NEW s, NEW x, IsSequence(s)
  PROVE  /\ IsSequence(Append(s, x)) /\ Len(Append(s, x)) = Len(s) + 1
         /\ \A k \in 1 .. Len(s) : Append(s, x)[k] = s[k]
         /\ Append(s, x)[Len(s) + 1] = x
<1> DEFINE T == {s[k] : k \in 1 .. Len(s)} \cup {x}
<1>1. s \in Seq(T) /\ x \in T /\ Len(s) \in Nat
  <2>1. s \in Seq({s[k] : k \in 1 .. Len(s)}) /\ Len(s) \in Nat
    BY SequenceTyped
  <2> QED
    BY <2>1
<1> HIDE DEF T
<1>2. /\ Append(s, x) \in Seq(T) /\ Len(Append(s, x)) = Len(s) + 1
      /\ \A k \in 1 .. Len(s) : Append(s, x)[k] = s[k]
      /\ Append(s, x)[Len(s) + 1] = x
  BY <1>1, AppendProperties
<1> QED
  BY <1>2, SeqIsSequence

LEMMA OneMore ==
  ASSUME NEW s, NEW x, IsSequence(s)
  PROVE  Append(s, x) = s \o <<x>>
<1> DEFINE T == {s[k] : k \in 1 .. Len(s)} \cup {x}
<1>1. s \in Seq(T) /\ x \in T
  <2>1. s \in Seq({s[k] : k \in 1 .. Len(s)})
    BY SequenceTyped
  <2> QED
    BY <2>1
<1> HIDE DEF T
<1> QED
  BY <1>1

LEMMA TwoAndThree ==
  ASSUME NEW x, NEW y, NEW z
  PROVE  /\ IsSequence(<<x, y>>) /\ Len(<<x, y>>) = 2
         /\ <<x, y>>[1] = x /\ <<x, y>>[2] = y
         /\ IsSequence(<<x, y, z>>) /\ Len(<<x, y, z>>) = 3
         /\ <<x, y, z>>[1] = x /\ <<x, y, z>>[2] = y /\ <<x, y, z>>[3] = z
<1>1. /\ <<x, y>> \in Seq({x, y}) /\ Len(<<x, y>>) = 2
      /\ <<x, y, z>> \in Seq({x, y, z}) /\ Len(<<x, y, z>>) = 3
  OBVIOUS
<1>2. IsSequence(<<x, y>>) /\ IsSequence(<<x, y, z>>)
  BY <1>1, SeqIsSequence
<1> QED
  BY <1>1, <1>2

LEMMA OnFdSequence ==
  ASSUME NEW fd
  PROVE  /\ IsSequence(OnFd(fd)) /\ Len(OnFd(fd)) = 3
         /\ OnFd(fd)[1] = Entry("read", fd, "fail")
         /\ OnFd(fd)[2] = Entry("write", fd, "fail")
         /\ OnFd(fd)[3] = Entry("close", fd, "fail")
<1> DEFINE r == Entry("read", fd, "fail")
           w == Entry("write", fd, "fail")
           c == Entry("close", fd, "fail")
<1>1. OnFd(fd) = <<r, w, c>>
  BY DEF OnFd
<1> HIDE DEF r, w, c
<1>2. <<r, w, c>> \in Seq({r, w, c}) /\ Len(<<r, w, c>>) = 3
  OBVIOUS
<1>3. IsSequence(<<r, w, c>>)
  BY <1>2, SeqIsSequence
<1> QED
  BY <1>1, <1>2, <1>3 DEF r, w, c

\* The calls of the tests, one after the other.
LEMMA Test1 ==
  /\ IsSequence(Test(1)) /\ Len(Test(1)) = 3
  /\ Test(1)[1] = Entry("read", NEG, "fail") /\ Test(1)[2] = Entry("write", NEG, "fail")
  /\ Test(1)[3] = Entry("close", NEG, "fail")
<1>1. Test(1) = OnFd(NEG)
  BY DEF Test
<1> QED
  BY <1>1, OnFdSequence, Zenon

LEMMA Test2 ==
  /\ IsSequence(Test(2)) /\ Len(Test(2)) = 3
  /\ Test(2)[1] = Entry("read", BIG, "fail") /\ Test(2)[2] = Entry("write", BIG, "fail")
  /\ Test(2)[3] = Entry("close", BIG, "fail")
<1>1. Test(2) = OnFd(BIG)
  BY DEF Test
<1> QED
  BY <1>1, OnFdSequence, Zenon

LEMMA Test3 ==
  /\ IsSequence(Test(3)) /\ Len(Test(3)) = 13
  /\ \A k \in 1 .. 7 : Test(3)[k] = Entry("open", Dot, "count")
  /\ \A k \in 8 .. 13 : Test(3)[k] = Entry("close", k - 6, "any")
<1> DEFINE dots == [k \in 1 .. 7 |-> Dot]
           low == FdsFrom(2)
           a == Each("open", dots, "count")
           b == Each("close", low, "any")
<1>1. Test(3) = a \o b
  BY DEF Test
<1>2. IsSequence(dots) /\ Len(dots) = 7 /\ \A k \in 1 .. 7 : dots[k] = Dot
  <2>1. dots \in Seq({Dot}) /\ Len(dots) = 7
    OBVIOUS
  <2> QED
    BY <2>1, SeqIsSequence
<1>3. IsSequence(low) /\ Len(low) = 6 /\ \A k \in 1 .. 6 : low[k] = k + 1
  BY FdsFromSequence
<1> HIDE DEF dots, low
<1>4. IsSequence(a) /\ Len(a) = 7 /\ \A k \in 1 .. 7 : a[k] = Entry("open", dots[k], "count")
  BY <1>2, EachSequence
<1>5. IsSequence(b) /\ Len(b) = 6 /\ \A k \in 1 .. 6 : b[k] = Entry("close", low[k], "any")
  BY <1>3, EachSequence
<1> HIDE DEF a, b
<1>6. /\ IsSequence(a \o b) /\ Len(a \o b) = 13
      /\ \A k \in 1 .. 7 : (a \o b)[k] = a[k]
      /\ \A k \in 8 .. 13 : (a \o b)[k] = b[k - 7]
  <2>1. PICK c : c = a \o b
    OBVIOUS
  <2>2. IsJoin(c, a, b)
    BY <1>4, <1>5, <2>1, JoinIs
  <2>3. Len(a) = 7 /\ Len(b) = 6
    BY <1>4, <1>5
  <2>4. /\ IsSequence(c) /\ Len(c) = 13
        /\ \A k \in 1 .. 7 : c[k] = a[k]
        /\ \A k \in 8 .. 13 : c[k] = b[k - 7]
    BY <2>2, <2>3 DEF IsJoin
  <2> QED
    BY <2>1, <2>4
<1>7. ASSUME NEW k \in 8 .. 13
      PROVE  (a \o b)[k] = Entry("close", k - 6, "any")
  <2>1. k - 7 \in 1 .. 6 /\ (k - 7) + 1 = k - 6
    OBVIOUS
  <2>2. b[k - 7] = Entry("close", low[k - 7], "any") /\ low[k - 7] = k - 6
    BY <1>3, <1>5, <2>1
  <2> QED
    BY <1>6, <2>2
<1>8. \A k \in 1 .. 7 : (a \o b)[k] = Entry("open", Dot, "count")
  BY <1>2, <1>4, <1>6
<1> QED
  BY <1>1, <1>6, <1>7, <1>8

LEMMA Test4 ==
  /\ IsSequence(Test(4)) /\ Len(Test(4)) = 3
  /\ \A k \in 1 .. 3 : \E name \in WrongNames \cup {<<>>} :
       Test(4)[k] = Entry("open", name, "fail")
<1> DEFINE x == Append(HelloName, Last(HelloName))
           y == Front(ShellName)
           names == <<x, y, <<>> >>
<1>1. Test(4) = Each("open", names, "fail")
  BY DEF Test
<1>2. WrongNames \cup {<<>>} = {x, y, <<>>}
  BY DEF WrongNames
<1> HIDE DEF x, y
<1>3. IsSequence(names) /\ Len(names) = 3 /\ names[1] = x /\ names[2] = y /\ names[3] = <<>>
  <2>1. names \in Seq({x, y, <<>>}) /\ Len(names) = 3
    OBVIOUS
  <2> QED
    BY <2>1, SeqIsSequence
<1> HIDE DEF names
<1>4. /\ IsSequence(Test(4)) /\ Len(Test(4)) = 3
      /\ \A k \in 1 .. 3 : Test(4)[k] = Entry("open", names[k], "fail")
  BY <1>1, <1>3, EachSequence
<1>5. \A k \in 1 .. 3 : names[k] \in WrongNames \cup {<<>>}
  BY <1>2, <1>3
<1> QED
  BY <1>4, <1>5

LEMMA Test5 ==
  /\ IsSequence(Test(5)) /\ Len(Test(5)) = 20
  /\ \A k \in 1 .. 8 : Test(5)[k] = Entry("close", k - 1, "fail")
  /\ \A k \in 9 .. 14 : Test(5)[k] = Entry("read", k - 7, "fail")
  /\ \A k \in 15 .. 20 : Test(5)[k] = Entry("write", k - 13, "fail")
<1> DEFINE all == FdsFrom(0)
           low == FdsFrom(2)
           a == Each("close", all, "fail")
           b == Each("read", low, "fail")
           c == Each("write", low, "fail")
           ab == a \o b
<1>1. Test(5) = ab \o c
  BY DEF Test
<1>2. IsSequence(low) /\ Len(low) = 6 /\ \A k \in 1 .. 6 : low[k] = k + 1
  BY FdsFromSequence
<1>3. IsSequence(all) /\ Len(all) = 8 /\ \A k \in 1 .. 8 : all[k] = k - 1
  BY FdsFromSequence
<1> HIDE DEF all, low
<1>4. IsSequence(a) /\ Len(a) = 8 /\ \A k \in 1 .. 8 : a[k] = Entry("close", all[k], "fail")
  BY <1>3, EachSequence
<1>5. IsSequence(b) /\ Len(b) = 6 /\ \A k \in 1 .. 6 : b[k] = Entry("read", low[k], "fail")
  BY <1>2, EachSequence
<1>6. IsSequence(c) /\ Len(c) = 6 /\ \A k \in 1 .. 6 : c[k] = Entry("write", low[k], "fail")
  BY <1>2, EachSequence
<1> HIDE DEF a, b, c
<1>7. /\ IsSequence(ab) /\ Len(ab) = 14
      /\ \A k \in 1 .. 8 : ab[k] = a[k]
      /\ \A k \in 9 .. 14 : ab[k] = b[k - 8]
  <2>1. IsJoin(ab, a, b)
    BY <1>4, <1>5, JoinIs
  <2>2. Len(a) = 8 /\ Len(b) = 6
    BY <1>4, <1>5
  <2> HIDE DEF ab
  <2> QED
    BY <2>1, <2>2 DEF IsJoin
<1> HIDE DEF ab
<1>8. /\ IsSequence(ab \o c) /\ Len(ab \o c) = 20
      /\ \A k \in 1 .. 14 : (ab \o c)[k] = ab[k]
      /\ \A k \in 15 .. 20 : (ab \o c)[k] = c[k - 14]
  <2>1. PICK abc : abc = ab \o c
    OBVIOUS
  <2>2. IsJoin(abc, ab, c)
    BY <1>6, <1>7, <2>1, JoinIs
  <2>3. Len(ab) = 14 /\ Len(c) = 6
    BY <1>6, <1>7
  <2>4. /\ IsSequence(abc) /\ Len(abc) = 20
        /\ \A k \in 1 .. 14 : abc[k] = ab[k]
        /\ \A k \in 15 .. 20 : abc[k] = c[k - 14]
    BY <2>2, <2>3 DEF IsJoin
  <2> QED
    BY <2>1, <2>4
<1>9. ASSUME NEW k \in 1 .. 8
      PROVE  (ab \o c)[k] = Entry("close", k - 1, "fail")
  <2>1. k \in 1 .. 14
    OBVIOUS
  <2>2. (ab \o c)[k] = a[k] /\ all[k] = k - 1
    BY <1>3, <1>7, <1>8, <2>1
  <2> QED
    BY <1>4, <2>2
<1>10. ASSUME NEW k \in 9 .. 14
       PROVE  (ab \o c)[k] = Entry("read", k - 7, "fail")
  <2>1. k - 8 \in 1 .. 6 /\ (k - 8) + 1 = k - 7 /\ k \in 1 .. 14
    OBVIOUS
  <2>2. (ab \o c)[k] = b[k - 8] /\ low[k - 8] = k - 7
    BY <1>2, <1>7, <1>8, <2>1
  <2> QED
    BY <1>5, <2>1, <2>2
<1>11. ASSUME NEW k \in 15 .. 20
       PROVE  (ab \o c)[k] = Entry("write", k - 13, "fail")
  <2>1. k - 14 \in 1 .. 6 /\ (k - 14) + 1 = k - 13
    OBVIOUS
  <2>2. (ab \o c)[k] = c[k - 14] /\ low[k - 14] = k - 13
    BY <1>2, <1>8, <2>1
  <2> QED
    BY <1>6, <2>1, <2>2
<1> QED
  BY <1>1, <1>8, <1>9, <1>10, <1>11

LEMMA Test6 ==
  /\ IsSequence(Test(6)) /\ Len(Test(6)) = 2
  /\ \A k \in 1 .. 2 : \E mb \in {0, 4} : Test(6)[k] = Entry("vidmap", mb, "fail")
<1> DEFINE mbs == <<0, 4>>
<1>1. Test(6) = Each("vidmap", mbs, "fail")
  BY DEF Test
<1>2. IsSequence(mbs) /\ Len(mbs) = 2 /\ \A k \in 1 .. 2 : mbs[k] \in {0, 4}
  <2>1. IsSequence(mbs) /\ Len(mbs) = 2 /\ mbs[1] = 0 /\ mbs[2] = 4
    BY TwoAndThree, Zenon
  <2> HIDE DEF mbs
  <2> QED
    BY <2>1
<1> HIDE DEF mbs
<1> QED
  BY <1>1, <1>2, EachSequence

LEMMA Test7 ==
  /\ IsSequence(Test(7)) /\ Len(Test(7)) = 2
  /\ Test(7)[1] = Entry("write", 0, "fail") /\ Test(7)[2] = Entry("read", 1, "fail")
<1> DEFINE w == Entry("write", 0, "fail")
           r == Entry("read", 1, "fail")
<1>1. Test(7) = <<w, r>>
  BY DEF Test
<1> HIDE DEF w, r
<1>2. <<w, r>> \in Seq({w, r}) /\ Len(<<w, r>>) = 2
  OBVIOUS
<1>3. IsSequence(<<w, r>>)
  BY <1>2, SeqIsSequence
<1>4. Test(7)[1] = w /\ Test(7)[2] = r
  BY <1>1
<1> QED
  BY <1>1, <1>2, <1>3, <1>4 DEF w, r

LEMMA Test8 ==
  /\ IsSequence(Test(8)) /\ Len(Test(8)) = 3
  /\ \A k \in 1 .. 3 : \E num \in {0, BIG, NEG} : Test(8)[k] = Entry("number", num, "fail")
<1> DEFINE nums == <<0, BIG, NEG>>
<1>1. Test(8) = Each("number", nums, "fail")
  BY DEF Test
<1>2. IsSequence(nums) /\ Len(nums) = 3 /\ \A k \in 1 .. 3 : nums[k] \in {0, BIG, NEG}
  <2>1. IsSequence(nums) /\ Len(nums) = 3 /\ nums[1] = 0 /\ nums[2] = BIG /\ nums[3] = NEG
    BY TwoAndThree, Zenon
  <2> HIDE DEF nums
  <2> QED
    BY <2>1
<1> HIDE DEF nums
<1> QED
  BY <1>1, <1>2, EachSequence

LEMMA TestSequence ==
  ASSUME NEW n \in 1 .. 8
  PROVE  IsSequence(Test(n)) /\ Len(Test(n)) = TestLength[n]
<1>1. n \in {1, 2, 3, 4, 5, 6, 7, 8}
  OBVIOUS
<1>2. /\ TestLength[1] = 3 /\ TestLength[2] = 3 /\ TestLength[3] = 13 /\ TestLength[4] = 3
      /\ TestLength[5] = 20 /\ TestLength[6] = 2 /\ TestLength[7] = 2 /\ TestLength[8] = 3
  BY DEF TestLength
<1>3. /\ IsSequence(Test(1)) /\ Len(Test(1)) = 3 /\ IsSequence(Test(2)) /\ Len(Test(2)) = 3
      /\ IsSequence(Test(3)) /\ Len(Test(3)) = 13 /\ IsSequence(Test(4)) /\ Len(Test(4)) = 3
      /\ IsSequence(Test(5)) /\ Len(Test(5)) = 20 /\ IsSequence(Test(6)) /\ Len(Test(6)) = 2
      /\ IsSequence(Test(7)) /\ Len(Test(7)) = 2 /\ IsSequence(Test(8)) /\ Len(Test(8)) = 3
  BY Test1, Test2, Test3, Test4, Test5, Test6, Test7, Test8, Zenon
<1> QED
  BY <1>1, <1>2, <1>3

\* All the tests in a row.
TestOf(a) == CHOOSE n \in 1 .. 8 : Start[n] < a /\ a <= Start[n + 1]
Plan == [a \in 1 .. 57 |-> WithVerdict(TestOf(a))[a - Start[TestOf(a)]]]

LEMMA VerdictSequence ==
  ASSUME NEW n \in 1 .. 8
  PROVE  /\ IsSequence(WithVerdict(n)) /\ Len(WithVerdict(n)) = TestLength[n] + 1
         /\ TestLength[n] \in Nat
         /\ \A p \in 1 .. TestLength[n] : WithVerdict(n)[p] = Test(n)[p]
         /\ WithVerdict(n)[TestLength[n] + 1] = Entry("verdict", n, "any")
<1>1. IsSequence(Test(n)) /\ Len(Test(n)) = TestLength[n]
  BY TestSequence
<1>2. TestLength[n] \in Nat
  BY Starts
<1> DEFINE v == Entry("verdict", n, "any")
<1>3. WithVerdict(n) = Append(Test(n), v)
  BY DEF WithVerdict
<1> HIDE DEF v
<1> QED
  BY <1>1, <1>2, <1>3, AppendSequence DEF v

LEMMA StartsGrow ==
  \A n, m \in 1 .. 8 : n < m => Start[n + 1] <= Start[m]
<1>1. \A n \in 1 .. 8 : n \in {1, 2, 3, 4, 5, 6, 7, 8}
  OBVIOUS
<1>2. /\ Start[1] = 0 /\ Start[2] = 4 /\ Start[3] = 8 /\ Start[4] = 22 /\ Start[5] = 26
      /\ Start[6] = 47 /\ Start[7] = 50 /\ Start[8] = 53 /\ Start[9] = 57
  BY DEF Start
<1> QED
  BY <1>1, <1>2

LEMMA PlanAt ==
  ASSUME NEW n \in 1 .. 8, NEW p \in 1 .. TestLength[n] + 1
  PROVE  Start[n] + p \in 1 .. 57 /\ Plan[Start[n] + p] = WithVerdict(n)[p]
<1> DEFINE a == Start[n] + p
<1>1. /\ TestLength[n] \in Nat /\ Start[n] \in 0 .. 57 /\ Start[n + 1] \in 0 .. 57
      /\ Start[n + 1] = Start[n] + TestLength[n] + 1
  BY Starts
<1>2. a \in 1 .. 57 /\ Start[n] < a /\ a <= Start[n + 1]
  <2> DEFINE l == TestLength[n]
             b == Start[n]
             e == Start[n + 1]
  <2>1. l \in Nat /\ b \in 0 .. 57 /\ e \in 0 .. 57 /\ e = b + l + 1 /\ p \in 1 .. l + 1
    BY <1>1
  <2> HIDE DEF l, b, e
  <2>2. b + p \in 1 .. 57 /\ b < b + p /\ b + p <= e
    BY <2>1
  <2> QED
    BY <2>2 DEF b, e
<1>3. ASSUME NEW m \in 1 .. 8, Start[m] < a, a <= Start[m + 1]
      PROVE  m = n
  <2>1. Start[m] \in 0 .. 57 /\ Start[m + 1] \in 0 .. 57
    BY Starts
  <2>2. n < m => Start[n + 1] <= Start[m]
    BY StartsGrow
  <2>3. m < n => Start[m + 1] <= Start[n]
    BY StartsGrow
  <2> DEFINE b == Start[n]
             e == Start[n + 1]
             c == Start[m]
             f == Start[m + 1]
  <2>4. /\ a \in 1 .. 57 /\ b \in 0 .. 57 /\ e \in 0 .. 57 /\ c \in 0 .. 57 /\ f \in 0 .. 57
        /\ b < a /\ a <= e /\ c < a /\ a <= f
    BY <1>1, <1>2, <1>3, <2>1
  <2>5. (n < m => e <= c) /\ (m < n => f <= b)
    BY <2>2, <2>3
  <2> HIDE DEF a, b, c, e, f
  <2>6. ~(n < m) /\ ~(m < n)
    BY <2>4, <2>5
  <2> QED
    BY <2>6
<1> HIDE DEF a
<1>4. TestOf(a) = n
  BY <1>2, <1>3 DEF TestOf
<1>5. a - Start[n] = p
  BY <1>1 DEF a
<1>6. Plan[a] = WithVerdict(n)[a - Start[n]]
  BY <1>2, <1>4 DEF Plan
<1> QED
  BY <1>2, <1>5, <1>6 DEF a

\* The calls from place a on, or some of them.
Scripted(s, a) ==
  /\ IsSequence(s) /\ a + Len(s) <= 58
  /\ \A j \in 1 .. Len(s) : s[j] = Plan[a + j - 1]

LEMMA OneTestScripted ==
  ASSUME NEW n \in 1 .. 8
  PROVE  Scripted(WithVerdict(n), Start[n] + 1)
<1>1. IsSequence(WithVerdict(n)) /\ Len(WithVerdict(n)) = TestLength[n] + 1
  BY VerdictSequence
<1>2. /\ TestLength[n] \in Nat /\ Start[n] \in 0 .. 57 /\ Start[n + 1] \in 0 .. 57
      /\ Start[n + 1] = Start[n] + TestLength[n] + 1
  BY Starts
<1>3. ASSUME NEW j \in 1 .. TestLength[n] + 1
      PROVE  WithVerdict(n)[j] = Plan[Start[n] + 1 + j - 1]
  <2>1. Start[n] + 1 + j - 1 = Start[n] + j
    BY <1>2
  <2> QED
    BY <2>1, PlanAt
<1>4. Start[n] + 1 + (TestLength[n] + 1) <= 58
  <2> DEFINE l == TestLength[n]
             b == Start[n]
             e == Start[n + 1]
  <2>1. l \in Nat /\ b \in 0 .. 57 /\ e \in 0 .. 57 /\ e = b + l + 1
    BY <1>2
  <2> HIDE DEF l, b, e
  <2>2. b + 1 + (l + 1) <= 58
    BY <2>1
  <2> QED
    BY <2>2 DEF l, b
<1> DEFINE w == WithVerdict(n)
<1> HIDE DEF w
<1>5. IsSequence(w) /\ Start[n] + 1 + Len(w) <= 58
      /\ \A j \in 1 .. Len(w) : w[j] = Plan[Start[n] + 1 + j - 1]
  BY <1>1, <1>3, <1>4 DEF w
<1> QED
  BY <1>5 DEF Scripted, w

Tests(n) == [k \in 1 .. n |-> WithVerdict(k)]

LEMMA TestsSequences ==
  ASSUME NEW n \in 0 .. 8
  PROVE  Sequences(Tests(n)) /\ Len(Tests(n)) = n
<1>1. Tests(n) = [k \in 1 .. n |-> Tests(n)[k]] /\ n \in Nat
  BY DEF Tests
<1>2. IsSequence(Tests(n)) /\ Len(Tests(n)) = n
  BY <1>1, MadeSequence
<1>3. \A k \in 1 .. n : Tests(n)[k] = WithVerdict(k) /\ k \in 1 .. 8
  BY DEF Tests
<1>4. \A k \in 1 .. n : IsSequence(Tests(n)[k])
  BY <1>3, VerdictSequence
<1> QED
  BY <1>2, <1>4 DEF Sequences

\* The first n tests are the beginning of the plan.
Begins(n) ==
  LET s == FlattenSeq(Tests(n)) IN
    Len(s) = Start[n + 1] /\ \A j \in 1 .. Len(s) : s[j] = Plan[j]

LEMMA BeginsStep ==
  ASSUME NEW n \in 0 .. 7, Begins(n)
  PROVE  Begins(n + 1)
<1> DEFINE s == FlattenSeq(Tests(n))
           w == WithVerdict(n + 1)
           t == FlattenSeq(Tests(n + 1))
<1>1. n + 1 \in 1 .. 8 /\ n + 1 \in 0 .. 8 /\ n \in 0 .. 8
  OBVIOUS
<1>2. /\ TestLength[n + 1] \in Nat /\ Start[n + 1] \in 0 .. 57 /\ Start[n + 2] \in 0 .. 57
      /\ Start[n + 2] = Start[n + 1] + TestLength[n + 1] + 1
  <2>1. (n + 1) + 1 = n + 2
    OBVIOUS
  <2> QED
    BY <1>1, <2>1, Starts
<1>3. IsSequence(w) /\ Len(w) = TestLength[n + 1] + 1
  BY <1>1, VerdictSequence
<1>4. t = s \o w
  <2>1. Sequences(Tests(n)) /\ Len(Tests(n)) = n
    BY <1>1, TestsSequences
  <2>2. IsSequence(Tests(n + 1)) /\ Len(Tests(n + 1)) = n + 1
    BY <1>1, TestsSequences DEF Sequences
  <2>3. /\ \A k \in 1 .. n : Tests(n + 1)[k] = Tests(n)[k]
        /\ Tests(n + 1)[n + 1] = w
    BY <1>1 DEF Tests
  <2> HIDE DEF w
  <2> QED
    BY <1>3, <2>1, <2>2, <2>3, FlattenOneMore
<1>5. IsSequence(s) /\ Len(s) = Start[n + 1] /\ \A j \in 1 .. Start[n + 1] : s[j] = Plan[j]
  <2>1. IsSequence(s)
    BY <1>1, TestsSequences, FlattenIsSequence
  <2> QED
    BY <2>1 DEF Begins
<1>6. \A p \in 1 .. TestLength[n + 1] + 1 : w[p] = Plan[Start[n + 1] + p]
  BY <1>1, PlanAt
<1> HIDE DEF s, w
<1>7. /\ Len(s \o w) = Start[n + 2]
      /\ \A j \in 1 .. Start[n + 1] : (s \o w)[j] = s[j]
      /\ \A j \in Start[n + 1] + 1 .. Start[n + 2] : (s \o w)[j] = w[j - Start[n + 1]]
  <2>1. PICK r : r = s \o w
    OBVIOUS
  <2>2. IsJoin(r, s, w)
    BY <1>3, <1>5, <2>1, JoinIs
  <2>3. Len(s) = Start[n + 1] /\ Len(s) + Len(w) = Start[n + 2]
    BY <1>2, <1>3, <1>5
  <2>4. /\ Len(r) = Start[n + 2]
        /\ \A j \in 1 .. Start[n + 1] : r[j] = s[j]
        /\ \A j \in Start[n + 1] + 1 .. Start[n + 2] : r[j] = w[j - Start[n + 1]]
    BY <2>2, <2>3 DEF IsJoin
  <2> QED
    BY <2>1, <2>4
<1>8. ASSUME NEW j \in 1 .. Start[n + 2]
      PROVE  (s \o w)[j] = Plan[j]
  <2>1. CASE j <= Start[n + 1]
    BY <1>2, <1>5, <1>7, <2>1
  <2>2. CASE j > Start[n + 1]
    <3>1. /\ j - Start[n + 1] \in 1 .. TestLength[n + 1] + 1
          /\ Start[n + 1] + (j - Start[n + 1]) = j
      BY <1>2, <2>2
    <3>2. j \in Start[n + 1] + 1 .. Start[n + 2]
      BY <1>2, <2>2
    <3>3. (s \o w)[j] = w[j - Start[n + 1]]
      BY <1>7, <3>2
    <3>4. w[j - Start[n + 1]] = Plan[Start[n + 1] + (j - Start[n + 1])]
      BY <1>6, <3>1
    <3> QED
      BY <3>1, <3>3, <3>4
  <2>3. j <= Start[n + 1] \/ j > Start[n + 1]
    BY <1>2
  <2> QED
    BY <2>1, <2>2, <2>3
<1>9. Len(t) = Start[(n + 1) + 1] /\ \A j \in 1 .. Len(t) : t[j] = Plan[j]
  <2>1. (n + 1) + 1 = n + 2
    OBVIOUS
  <2> HIDE DEF t
  <2> QED
    BY <1>4, <1>7, <1>8, <2>1
<1> QED
  BY <1>9 DEF Begins

\* What the user may choose.
LEMMA ScriptChosen ==
  ASSUME NEW n \in 0 .. 8
  PROVE  \E m \in 1 .. 8 : Scripted(Script(n), Start[m] + 1)
<1>1. CASE n = 0
  <2>1. Script(0) = FlattenSeq([k \in 1 .. 8 |-> WithVerdict(k)])
    BY DEF Script, WithVerdict
  <2>2. Script(0) = FlattenSeq(Tests(8))
    BY <2>1 DEF Tests
  <2>3. Begins(0)
    <3>1. Tests(0) = <<>>
      BY DEF Tests
    <3>2. FlattenSeq(Tests(0)) = <<>>
      BY <3>1, EmptySequence DEF FlattenSeq
    <3>3. Start[0 + 1] = 0
      BY Starts
    <3> QED
      BY <3>2, <3>3, EmptySequence DEF Begins
  <2>4. Begins(8)
    <3>1. Begins(1) /\ Begins(2)
      BY <2>3, BeginsStep
    <3>2. Begins(3) /\ Begins(4)
      BY <3>1, BeginsStep
    <3>3. Begins(5) /\ Begins(6)
      BY <3>2, BeginsStep
    <3>4. Begins(7)
      BY <3>3, BeginsStep
    <3> QED
      BY <3>4, BeginsStep
  <2>5. IsSequence(FlattenSeq(Tests(8)))
    BY TestsSequences, FlattenIsSequence
  <2> DEFINE s == FlattenSeq(Tests(8))
  <2>9. IsSequence(s)
    BY <2>5
  <2>6. Len(s) = 57 /\ \A j \in 1 .. 57 : s[j] = Plan[j]
    <3>1. Start[8 + 1] = 57
      BY Starts
    <3> QED
      BY <2>4, <3>1 DEF Begins
  <2> HIDE DEF s
  <2>7. Scripted(s, 1)
    <3>1. \A j \in 1 .. 57 : 1 + j - 1 = j
      OBVIOUS
    <3> QED
      BY <2>6, <3>1, <2>9 DEF Scripted
  <2>8. Start[1] + 1 = 1
    BY Starts
  <2> QED
    BY <1>1, <2>2, <2>7, <2>8 DEF s
<1>2. CASE n # 0
  <2>1. n \in 1 .. 8
    BY <1>2
  <2>2. Script(n) = WithVerdict(n)
    BY <2>1 DEF Script, WithVerdict
  <2> QED
    BY <2>1, <2>2, OneTestScripted
<1> QED
  BY <1>1, <1>2

-----------------------------------------------------------------------------
(* System calls *)

\* With one terminal the process displayed is the caller.
LEMMA OneTerminal ==
  ASSUME TypeOK
  PROVE  /\ curr_terminal = 1 /\ curr_scheduled = 1 /\ Terminals = {1}
         /\ Me = depth[1] /\ Me \in 1 .. MaxDepth
         /\ Displayed = <<1, Me>> /\ Caller = Displayed /\ Displayed \in Processes
<1>1. Terminals = {1}
  BY OneTerminalAssumption DEF Terminals
<1>2. curr_terminal = 1 /\ curr_scheduled = 1 /\ depth[1] \in 1 .. MaxDepth
  BY <1>1 DEF TypeOK
<1> QED
  BY <1>1, <1>2 DEF Me, Displayed, Caller, Processes

\* What a call leaves alone.
SameProcess == UNCHANGED <<curr_terminal, curr_scheduled, depth>>
KernelStep  == [WholeCall]_vars \/ \E fd \in Fds, n \in Nat : FileRead(fd, n)

LEMMA LookupEntries ==
  ASSUME NEW name, NEW k \in Lookup(name)
  PROVE  k \in 1 .. NumEntries /\ Entries[k].name = Cut(name) /\ Entries[k].type \in {0, 1, 2}
<1>1. k \in 1 .. NumEntries /\ Entries[k].name = Cut(name)
  BY DEF Lookup
<1> QED
  BY <1>1, ImageAssumption

\* "." is there and is the directory.
LEMMA DotListed == Lookup(Dot) # {} /\ \A k \in Lookup(Dot) : Entries[k].type = 1
<1>1. PICK k \in 1 .. NumEntries : Entries[k].name = Dot
  BY NamesAssumption
<1>2. Cut(Dot) = Dot
  <2>1. IsSequence(Dot) /\ Len(Dot) \in 1 .. FILE_NAME_SIZE /\ FILE_NAME_SIZE \in Nat
    BY <1>1, NamesAssumption, ProgramSizesAssumption
  <2>2. Cut(Dot) = SubSeq(Dot, 1, Len(Dot))
    BY <2>1 DEF Cut
  <2> QED
    BY <2>1, <2>2, Prefix
<1> QED
  BY <1>1, <1>2, NamesAssumption DEF Lookup

LEMMA NothingCalled ==
  ASSUME UNCHANGED vars
  PROVE  SameProcess /\ KernelStep
BY DEF vars, SameProcess, KernelStep

LEMMA OpenCalls ==
  ASSUME NEW name, OpenCall(name)
  PROVE  SameProcess /\ KernelStep
<1>1. ASSUME NEW k \in Lookup(name), OpenFile(k)
      PROVE  SameProcess /\ KernelStep
  BY <1>1, LookupEntries DEF OpenFile, schedVars, SameProcess, KernelStep, WholeCall
<1> QED
  BY <1>1, NothingCalled DEF OpenCall

LEMMA CloseCalls ==
  ASSUME NEW fd, CloseCall(fd)
  PROVE  SameProcess /\ KernelStep
<1>1. ASSUME CanClose(fd), Close(fd)
      PROVE  SameProcess /\ KernelStep
  <2>1. fd \in Fds
    BY <1>1 DEF CanClose
  <2> QED
    BY <1>1, <2>1 DEF Close, schedVars, SameProcess, KernelStep, WholeCall
<1> QED
  BY <1>1, NothingCalled DEF CloseCall

LEMMA ReadCalls ==
  ASSUME NEW fd, NEW n \in Nat, ReadCall(fd, n), CanRead(fd) => fd \in Fds
  PROVE  SameProcess /\ KernelStep
<1>1. CASE CanRead(fd) /\ FileRead(fd, n)
  BY <1>1 DEF FileRead, schedVars, SameProcess, KernelStep
<1>2. CASE CanRead(fd) /\ DirRead(fd)
  BY <1>2 DEF DirRead, schedVars, SameProcess, KernelStep, WholeCall
<1>3. CASE CanRead(fd) /\ DirReadEnd(fd)
  <2>1. UNCHANGED vars
    BY <1>3 DEF DirReadEnd
  <2> QED
    BY <2>1, NothingCalled
<1>4. CASE UNCHANGED vars
  BY <1>4, NothingCalled
<1> QED
  BY <1>1, <1>2, <1>3, <1>4 DEF ReadCall

\* open takes the lowest free descriptor.
LEMMA LowestIsFree ==
  ASSUME Counted, file_arr_size[Displayed] < MAX_OPEN_FILES
  PROVE  /\ LowestFree \in Fds \ Open(Displayed)
         /\ \A g \in Fds \ Open(Displayed) : LowestFree <= g
<1>1. Fds \ Open(Displayed) # {}
  <2> SUFFICES ASSUME Fds \ Open(Displayed) = {}
               PROVE  FALSE
    OBVIOUS
  <2>1. Open(Displayed) = Fds
    BY DEF Open
  <2>2. Cardinality(Fds) = MAX_OPEN_FILES - STDI_O
    BY SizesAssumption, FS_Interval DEF Fds, STDI_O
  <2>3. file_arr_size[Displayed] = STDI_O + Cardinality(Fds)
    BY <2>1, Lookups DEF Counted, SizeCountsOpen
  <2> QED
    BY <2>2, <2>3, SizesAssumption DEF STDI_O
<1> DEFINE free == Fds \ Open(Displayed)
<1>2. free \subseteq Nat
  BY SizesAssumption DEF Fds, STDI_O
<1>3. LowestFree = CHOOSE fd \in free : \A g \in free : fd <= g
  BY DEF LowestFree
<1> HIDE DEF free
<1>4. \E fd \in free : \A g \in free : fd <= g
  BY <1>1, <1>2, LeastNumber DEF free
<1>5. LowestFree \in free /\ \A g \in free : LowestFree <= g
  BY <1>3, <1>4
<1> QED
  BY <1>5 DEF free

LEMMA OpensLowest ==
  ASSUME Counted, NEW k \in 1 .. NumEntries, OpenFile(k)
  PROVE  /\ LowestFree \in Fds \ Open(Displayed) /\ Displayed \in Processes
         /\ file_array' = [file_array EXCEPT ![Displayed][LowestFree] = KindOf(Entries[k])]
         /\ dir_index' = DirOpen(KindOf(Entries[k]).kind)
<1>1. /\ LowestFree \in Fds \ Open(Displayed)
      /\ \A g \in Fds \ Open(Displayed) : LowestFree <= g
  BY LowestIsFree DEF OpenFile
<1>2. PICK fd \in Fds \ Open(Displayed) :
        /\ \A lower \in Fds \ Open(Displayed) : fd <= lower
        /\ file_array' = [file_array EXCEPT ![Displayed][fd] = KindOf(Entries[k])]
  BY DEF OpenFile
<1>3. fd = LowestFree
  <2>1. fd <= LowestFree /\ LowestFree <= fd
    BY <1>1, <1>2
  <2>2. fd \in Nat /\ LowestFree \in Nat
    BY <1>1, <1>2, SizesAssumption DEF Fds, STDI_O
  <2> HIDE DEF LowestFree
  <2> QED
    BY <2>1, <2>2
<1> QED
  BY <1>1, <1>2, <1>3, Lookups DEF OpenFile, Counted

-----------------------------------------------------------------------------
(* The invariant *)

LocalFields == {"fd", "file_fd", "buf", "search", "data", "last", "dirt", "script",
                "fail", "cnt", "status"}
LocalTyped(l) ==
  /\ DOMAIN l = LocalFields
  /\ l.last \in 0 .. BUFSIZE /\ DOMAIN l.data = 0 .. BUFSIZE
  /\ l.status \in 0 .. 255

\* The bottom program is a shell; only a program that ends has a status, and
\* syserr's is 0.
StateTyped ==
  /\ disk \in Disks
  /\ DOMAIN prog = 1 .. MaxDepth /\ \A d \in 1 .. MaxDepth : prog[d] \in ProgramNames
  /\ prog[1] = "shell"
  /\ DOMAIN command = 1 .. MaxDepth
  /\ DOMAIN args = 1 .. MaxDepth
  /\ LocalTyped(local)
  /\ (pc = "halt" /\ prog[Me] # "syserr") \/ local.status = 0

\* The slots above the running program hold no arguments.
ArgsIn ==
  \A d \in 1 .. MaxDepth :
    IF 1 < d /\ d <= depth[1]
    THEN command[d] \in Lines /\ args[d] = Overwrite(NoArgs, Arguments(command[d]))
    ELSE args[d] = NoArgs

LineIn == pc = "execute" => local.buf \in Lines /\ out = <<>>

\* Where a program reads or closes, its variables hold what open returned.
FdsIn ==
  /\ prog[Me] \in {"cat", "ls"} /\ pc \in {"loop", "write"} => local.fd \in Fds
  /\ prog[Me] = "grep" /\ pc \in {"readdir", "open", "readfile", "scan", "close"} =>
       local.fd \in Fds
  /\ prog[Me] = "grep" /\ pc \in {"readfile", "scan", "close"} => local.file_fd \in Fds

\* syserr's third test opens all descriptors, fails once and closes them; every
\* other call of the tests finds none open.
OpenAt(n, p) == IF n = 3 THEN IF p <= 7 THEN 2 .. p ELSE p - 6 .. 7 ELSE {}
CntAt(n, p)  == IF n = 3 /\ p >= 8 THEN 1 ELSE 0

SyserrAt(n, p) ==
  /\ Scripted(local.script, Start[n] + p)
  /\ Open(Displayed) = OpenAt(n, p) /\ local.fail = FALSE /\ local.cnt = CntAt(n, p)
SyserrIn ==
  prog[Me] = "syserr" =>
    /\ pc \in {"main", "choose"} =>
         Open(Displayed) = {} /\ local.fail = FALSE /\ local.cnt = 0
    /\ pc = "test" =>
         \/ local.script = <<>>
         \/ \E n \in 1 .. 8 : \E p \in 1 .. TestLength[n] + 1 : SyserrAt(n, p)

Base == Counted /\ StateTyped /\ ArgsIn /\ LineIn /\ FdsIn /\ SyserrIn

\* A step of a program that neither starts nor ends one.
Quiet == KernelStep /\ SameProcess /\ Stay

LEMMA QuietSame ==
  ASSUME SameProcess, Stay
  PROVE  /\ Me' = Me /\ prog'[Me'] = prog[Me] /\ command'[Me'] = command[Me]
         /\ Displayed' = Displayed
BY DEF SameProcess, Stay, Me, Displayed

LEMMA QuietBase ==
  ASSUME Base, Quiet, LocalTyped(local'),
         (pc' = "halt" /\ prog[Me] # "syserr") \/ local'.status = 0,
         LineIn', FdsIn', SyserrIn'
  PROVE  Base'
<1>1. Counted'
  BY CountedStep DEF Base, Quiet, KernelStep
<1>2. StateTyped'
  BY QuietSame DEF Base, StateTyped, Quiet, Stay
<1>3. ArgsIn'
  BY DEF Base, ArgsIn, Quiet, Stay, SameProcess
<1> QED
  BY <1>1, <1>2, <1>3 DEF Base

LEMMA LocalsTyped ==
  ASSUME NEW dirt
  PROVE  LocalTyped(Locals(dirt)) /\ Locals(dirt).status = 0
BY ProgramSizesAssumption DEF LocalTyped, Locals, LocalFields

-----------------------------------------------------------------------------
(* shell and halt *)

LEMMA ShellSteps ==
  ASSUME Base, (\E line \in Lines : ShellRead(line)) \/ (ShellExecute /\ depth' = depth)
  PROVE  Base'
<1>0. TypeOK
  BY DEF Base, Counted
<1>1. ASSUME NEW line \in Lines, ShellRead(line)
      PROVE  Base'
  <2>1. Quiet /\ prog[Me] = "shell"
    BY <1>1, NothingCalled DEF ShellRead, Quiet, At
  <2>2. /\ LocalTyped(local') /\ local'.status = 0
        /\ LineIn'
    BY <1>1 DEF ShellRead, Goto, Base, StateTyped, LocalTyped, LocalFields, LineIn, At
  <2>3. FdsIn' /\ SyserrIn'
    BY <2>1, QuietSame DEF Quiet, FdsIn, SyserrIn
  <2> QED
    BY <2>1, <2>2, <2>3, QuietBase
<1>2. ASSUME ShellExecute, depth' = depth
      PROVE  Base'
  <2>1. ~Execute
    <3>1. depth[curr_terminal] \in Int /\ curr_terminal \in Terminals /\ DOMAIN depth = Terminals
      BY <1>0 DEF TypeOK
    <3> QED
      BY <1>2, <3>1 DEF Execute
  <2>2. UNCHANGED vars /\ Stay /\ pc' = "read" /\ local' = Locals(NUL) /\ prog[Me] = "shell"
    BY <1>2, <2>1 DEF ShellExecute, Goto, At
  <2>3. Quiet
    BY <2>2, NothingCalled DEF Quiet
  <2>4. LineIn' /\ FdsIn' /\ SyserrIn'
    BY <2>2, <2>3, QuietSame DEF Quiet, LineIn, FdsIn, SyserrIn
  <2> QED
    BY <2>2, <2>3, <2>4, LocalsTyped, QuietBase
<1> QED
  BY <1>1, <1>2

\* The arguments go into the slot of the child, which holds none.
LEMMA ExecuteBase ==
  ASSUME Base, ShellExecute, Execute
  PROVE  Base'
<1>0. TypeOK /\ curr_terminal = 1 /\ Me = depth[1] /\ Me \in 1 .. MaxDepth
  BY OneTerminal DEF Base, Counted
<1>1. Counted'
  BY CountedStep DEF Base, WholeCall
<1>2. /\ depth' = [depth EXCEPT ![1] = Me + 1] /\ Me + 1 <= MaxDepth /\ Me' = Me + 1
      /\ curr_terminal' = 1 /\ curr_scheduled' = curr_scheduled
  <2>1. /\ depth' = [depth EXCEPT ![1] = Me + 1] /\ Me < MaxDepth /\ curr_terminal' = 1
        /\ curr_scheduled' = curr_scheduled
    BY <1>0 DEF Execute, schedVars
  <2>2. 1 \in DOMAIN depth /\ MaxDepth \in Nat
    BY <1>0, SizesAssumption DEF TypeOK
  <2> QED
    BY <1>0, <2>1, <2>2 DEF Me
<1>3. \E k \in Executable(local.buf.word) :
        /\ prog' = [prog EXCEPT ![Me + 1] = ProgramOf[Entries[k].inode]]
        /\ command' = [command EXCEPT ![Me + 1] = local.buf]
        /\ args' = [args EXCEPT ![Me + 1] = Overwrite(@, Arguments(local.buf))]
        /\ Goto(IF ProgramOf[Entries[k].inode] = "shell" THEN "read" ELSE "main", Locals(NUL))
        /\ UNCHANGED <<disk, out>>
  <2>1. depth' # depth
    <3>1. 1 \in DOMAIN depth /\ depth[1] = Me
      BY <1>0 DEF TypeOK
    <3> QED
      BY <1>0, <1>2, <3>1
  <2> QED
    BY <2>1 DEF ShellExecute, vars
<1>4. PICK k \in Executable(local.buf.word) :
        /\ prog' = [prog EXCEPT ![Me + 1] = ProgramOf[Entries[k].inode]]
        /\ command' = [command EXCEPT ![Me + 1] = local.buf]
        /\ args' = [args EXCEPT ![Me + 1] = Overwrite(@, Arguments(local.buf))]
        /\ Goto(IF ProgramOf[Entries[k].inode] = "shell" THEN "read" ELSE "main", Locals(NUL))
        /\ UNCHANGED <<disk, out>>
  BY <1>3
<1>5. ProgramOf[Entries[k].inode] \in ProgramNames
  BY ProgramSizesAssumption DEF Executable
<1>6. pc' \in {"read", "main"} /\ local' = Locals(NUL) /\ LocalTyped(local') /\ local'.status = 0
  BY <1>4, LocalsTyped DEF Goto
<1>7. StateTyped'
  BY <1>0, <1>2, <1>4, <1>5, <1>6 DEF Base, StateTyped
<1>8. ArgsIn'
  <2>1. local.buf \in Lines
    BY DEF Base, LineIn, ShellExecute, At
  <2>2. args[Me + 1] = NoArgs /\ Me + 1 \in 1 .. MaxDepth
    BY <1>0, <1>2 DEF Base, ArgsIn
  <2>3. depth'[1] = Me + 1
    BY <1>0, <1>2 DEF TypeOK
  <2>4. ASSUME NEW d \in 1 .. MaxDepth
        PROVE  IF 1 < d /\ d <= depth'[1]
               THEN command'[d] \in Lines /\ args'[d] = Overwrite(NoArgs, Arguments(command'[d]))
               ELSE args'[d] = NoArgs
    <3>1. CASE d = Me + 1
      BY <1>0, <1>4, <2>1, <2>2, <2>3, <3>1 DEF Base, StateTyped
    <3>2. CASE d # Me + 1
      <4>1. command'[d] = command[d] /\ args'[d] = args[d]
        BY <1>4, <3>2
      <4>2. d <= depth'[1] <=> d <= depth[1]
        BY <1>0, <2>3, <3>2
      <4> QED
        BY <4>1, <4>2 DEF Base, ArgsIn
    <3> QED
      BY <3>1, <3>2
  <2> QED
    BY <2>4 DEF ArgsIn
<1>9. LineIn' /\ FdsIn'
  BY <1>6 DEF LineIn, FdsIn
<1>10. SyserrIn'
  <2>1. Open(Displayed)' = {}
    <3>1. file_array' = [file_array EXCEPT ![<<1, Me + 1>>] = FreshTable]
      BY <1>0 DEF Execute
    <3>2. Displayed' = <<1, Me + 1>>
      BY <1>2 DEF Displayed, Me
    <3>3. <<1, Me + 1>> \in Processes
      BY <1>0, <1>2, OneTerminal DEF Processes
    <3>4. file_array'[Displayed'] = FreshTable
      BY <1>0, <3>1, <3>2, <3>3 DEF TypeOK
    <3> QED
      BY <3>4, FreshTables DEF Open
  <2> QED
    BY <1>6, <2>1 DEF SyserrIn, Locals
<1> QED
  BY <1>1, <1>7, <1>8, <1>9, <1>10 DEF Base

LEMMA HaltBase ==
  ASSUME Base, Halt
  PROVE  Base'
<1>0. TypeOK /\ curr_terminal = 1 /\ curr_scheduled = 1 /\ Me = depth[1] /\ Me \in 1 .. MaxDepth
  BY OneTerminal DEF Base, Counted
<1>1. Counted'
  BY CountedStep DEF Base, Halt, WholeCall
<1>2. /\ curr_terminal' = 1 /\ depth'[1] \in Int
      /\ depth'[1] = Me - 1 \/ (depth'[1] = Me /\ Me = 1)
  <2>1. CASE HaltChild
    <3>1. depth' = [depth EXCEPT ![1] = Me - 1] /\ curr_terminal' = 1
      BY <1>0, <2>1 DEF HaltChild, HaltAt, schedVars
    <3> QED
      BY <1>0, <3>1 DEF TypeOK
  <2>2. CASE Me = 1 /\ HaltShell
    BY <1>0, <2>2 DEF HaltShell, schedVars
  <2> QED
    BY <2>1, <2>2 DEF Halt
<1>3. /\ args' = [args EXCEPT ![Me] = NoArgs] /\ UNCHANGED <<disk, prog, command>>
      /\ pc' = "read" /\ local' = Locals(NUL)
  BY DEF Halt, ClearArgs, Goto
<1>4. StateTyped'
  BY <1>3, LocalsTyped DEF Base, StateTyped
<1>5. ArgsIn'
  <2>1. ASSUME NEW d \in 1 .. MaxDepth
        PROVE  IF 1 < d /\ d <= depth'[1]
               THEN command'[d] \in Lines /\ args'[d] = Overwrite(NoArgs, Arguments(command'[d]))
               ELSE args'[d] = NoArgs
    <3>1. CASE d = Me
      BY <1>0, <1>2, <1>3, <3>1 DEF Base, StateTyped
    <3>2. CASE d # Me
      <4>1. command'[d] = command[d] /\ args'[d] = args[d]
        BY <1>3, <3>2
      <4>2. 1 < d /\ d <= depth'[1] <=> 1 < d /\ d <= depth[1]
        BY <1>0, <1>2, <3>2
      <4> QED
        BY <4>1, <4>2 DEF Base, ArgsIn
    <3> QED
      BY <3>1, <3>2
  <2> QED
    BY <2>1 DEF ArgsIn
<1>6. LineIn' /\ FdsIn' /\ SyserrIn'
  BY <1>3 DEF LineIn, FdsIn, SyserrIn
<1> QED
  BY <1>1, <1>4, <1>5, <1>6 DEF Base

-----------------------------------------------------------------------------
(* The steps of the other programs *)

LEMMA OpenedFd ==
  ASSUME Counted, NEW name, CanOpen(name)
  PROVE  LowestFree \in Fds
BY LowestIsFree DEF CanOpen

\* A step to a point, with one of the variables set.
StatusSet == \E s \in 0 .. 255 : local' = [local EXCEPT !.status = s]
BufSet    == \E v : local' = [local EXCEPT !.buf = v]
FdSet     == \E v \in Fds : local' = [local EXCEPT !.fd = v]

LEMMA FieldsSet ==
  ASSUME Base, StatusSet \/ BufSet \/ FdSet \/ local' = local
  PROVE  /\ LocalTyped(local')
         /\ BufSet \/ FdSet \/ local' = local => local'.status = local.status
         /\ FdSet => local'.fd \in Fds
         /\ BufSet => local'.fd = local.fd
<1>1. LocalTyped(local)
  BY DEF Base, StateTyped
<1>2. ASSUME NEW s \in 0 .. 255, local' = [local EXCEPT !.status = s]
      PROVE  LocalTyped(local')
  BY <1>1, <1>2 DEF LocalTyped, LocalFields
<1>3. ASSUME NEW v, local' = [local EXCEPT !.buf = v]
      PROVE  LocalTyped(local') /\ local'.status = local.status /\ local'.fd = local.fd
  BY <1>1, <1>3 DEF LocalTyped, LocalFields
<1>4. ASSUME NEW v \in Fds, local' = [local EXCEPT !.fd = v]
      PROVE  LocalTyped(local') /\ local'.status = local.status /\ local'.fd \in Fds
  BY <1>1, <1>4 DEF LocalTyped, LocalFields
<1> QED
  BY <1>1, <1>2, <1>3, <1>4 DEF StatusSet, BufSet, FdSet

\* main returns, with or without a message.
LEMMA Returns ==
  ASSUME NEW s \in 0 .. 255, Return(s) \/ \E message : Fail(message, s)
  PROVE  pc' = "halt" /\ StatusSet
BY DEF Return, Fail, Goto, StatusSet

\* What main does after open.
LEMMA OpenReturns ==
  ASSUME Counted, NEW name, NEW point, NEW message,
         IF CanOpen(name)
           THEN Goto(point, [local EXCEPT !.fd = LowestFree]) /\ UNCHANGED out
           ELSE Fail(message, 2)
  PROVE  (pc' = "halt" /\ StatusSet) \/ (pc' = point /\ FdSet)
<1>1. CASE CanOpen(name)
  <2>1. LowestFree \in Fds
    BY <1>1, OpenedFd
  <2>2. pc' = point /\ local' = [local EXCEPT !.fd = LowestFree]
    BY <1>1 DEF Goto
  <2> QED
    BY <2>1, <2>2 DEF FdSet
<1>2. CASE ~CanOpen(name)
  <2>1. Fail(message, 2) /\ 2 \in 0 .. 255
    BY <1>2
  <2> QED
    BY <2>1, Returns
<1> QED
  BY <1>1, <1>2

LEMMA CatQuiet ==
  ASSUME Base, CatArgs \/ CatOpen \/ CatRead \/ CatWrite
  PROVE  Quiet
<1>1. CASE CatArgs \/ CatWrite
  BY <1>1, NothingCalled DEF CatArgs, CatWrite, Quiet
<1>2. CASE CatOpen
  BY <1>2, OpenCalls DEF CatOpen, Quiet
<1>3. CASE CatRead
  <2>1. local.fd \in Fds /\ BUFSIZE \in Nat
    BY <1>3, ProgramSizesAssumption DEF Base, FdsIn, CatRead, At
  <2> QED
    BY <1>3, <2>1, ReadCalls DEF CatRead, Quiet
<1> QED
  BY <1>1, <1>2, <1>3

LEMMA CatSteps ==
  ASSUME Base, CatArgs \/ CatOpen \/ CatRead \/ CatWrite
  PROVE  Base'
<1>0. prog[Me] = "cat" /\ Counted /\ local.status = 0
  BY DEF CatArgs, CatOpen, CatRead, CatWrite, At, Base, StateTyped
<1>1. Quiet
  BY CatQuiet
<1>2. \/ pc' = "halt" /\ StatusSet
      \/ pc' = "open" /\ BufSet
      \/ pc' = "loop" /\ FdSet
      \/ pc' = "write" /\ BufSet /\ local.fd \in Fds
      \/ pc' = "loop" /\ local' = local /\ local.fd \in Fds
  <2>0. 2 \in 0 .. 255 /\ 3 \in 0 .. 255 /\ 0 \in 0 .. 255
    OBVIOUS
  <2>1. CASE CatArgs
    BY <2>0, <2>1, Returns DEF CatArgs, Goto, BufSet
  <2>2. CASE CatOpen
    <3>1. (pc' = "halt" /\ StatusSet) \/ (pc' = "loop" /\ FdSet)
      BY <1>0, <2>2, OpenReturns DEF CatOpen
    <3> QED
      BY <3>1
  <2>3. CASE CatRead
    <3>1. local.fd \in Fds
      BY <2>3 DEF Base, FdsIn, CatRead, At
    <3> QED
      BY <2>0, <2>3, <3>1, Returns DEF CatRead, Goto, BufSet
  <2>4. CASE CatWrite
    <3>1. local.fd \in Fds
      BY <2>4 DEF Base, FdsIn, CatWrite, At
    <3> QED
      BY <2>0, <2>4, <3>1, Returns DEF CatWrite, Goto
  <2> QED
    BY <2>1, <2>2, <2>3, <2>4
<1>3. /\ LocalTyped(local') /\ (pc' = "halt" \/ local'.status = 0)
      /\ pc' \in {"open", "loop", "write", "halt"}
      /\ (pc' \in {"loop", "write"} => local'.fd \in Fds)
  BY <1>0, <1>2, FieldsSet
<1>4. LineIn' /\ FdsIn' /\ SyserrIn'
  BY <1>0, <1>1, <1>3, QuietSame DEF Quiet, LineIn, FdsIn, SyserrIn
<1> QED
  BY <1>0, <1>1, <1>3, <1>4, QuietBase

LEMMA LsQuiet ==
  ASSUME Base, LsOpen \/ LsRead \/ LsWrite
  PROVE  Quiet
<1>1. CASE LsWrite
  BY <1>1, NothingCalled DEF LsWrite, Quiet
<1>2. CASE LsOpen
  BY <1>2, OpenCalls DEF LsOpen, Quiet
<1>3. CASE LsRead
  <2>1. FILE_NAME_SIZE \in Nat
    BY ProgramSizesAssumption
  <2>2. local.fd \in Fds
    BY <1>3 DEF Base, FdsIn, LsRead, At
  <2> QED
    BY <1>3, <2>1, <2>2, ReadCalls DEF LsRead, Quiet
<1> QED
  BY <1>1, <1>2, <1>3

LEMMA LsSteps ==
  ASSUME Base, LsOpen \/ LsRead \/ LsWrite
  PROVE  Base'
<1>0. prog[Me] = "ls" /\ Counted /\ local.status = 0
  BY DEF LsOpen, LsRead, LsWrite, At, Base, StateTyped
<1>1. Quiet
  BY LsQuiet
<1>2. \/ pc' = "halt" /\ StatusSet
      \/ pc' = "loop" /\ FdSet
      \/ pc' = "write" /\ BufSet /\ local.fd \in Fds
      \/ pc' = "loop" /\ local' = local /\ local.fd \in Fds
  <2>0. 2 \in 0 .. 255 /\ 3 \in 0 .. 255 /\ 0 \in 0 .. 255
    OBVIOUS
  <2>1. CASE LsOpen
    <3>1. (pc' = "halt" /\ StatusSet) \/ (pc' = "loop" /\ FdSet)
      BY <1>0, <2>1, OpenReturns DEF LsOpen
    <3> QED
      BY <3>1
  <2>2. CASE LsRead
    <3>1. local.fd \in Fds
      BY <2>2 DEF Base, FdsIn, LsRead, At
    <3> QED
      BY <2>0, <2>2, <3>1, Returns DEF LsRead, Goto, BufSet
  <2>3. CASE LsWrite
    <3>1. local.fd \in Fds
      BY <2>3 DEF Base, FdsIn, LsWrite, At
    <3> QED
      BY <2>0, <2>3, <3>1, Returns DEF LsWrite, Goto
  <2> QED
    BY <2>1, <2>2, <2>3
<1>3. /\ LocalTyped(local') /\ (pc' = "halt" \/ local'.status = 0)
      /\ pc' \in {"loop", "write", "halt"}
      /\ (pc' \in {"loop", "write"} => local'.fd \in Fds)
  BY <1>0, <1>2, FieldsSet
<1>4. LineIn' /\ FdsIn' /\ SyserrIn'
  BY <1>0, <1>1, <1>3, QuietSame DEF Quiet, LineIn, FdsIn, SyserrIn
<1> QED
  BY <1>0, <1>1, <1>3, <1>4, QuietBase

LEMMA HelloSteps ==
  ASSUME Base, HelloAsk \/ HelloAnswer \/ TestPrint
  PROVE  Base'
<1>0. prog[Me] \in {"hello", "testprint"} /\ local.status = 0
  BY DEF HelloAsk, HelloAnswer, TestPrint, At, Base, StateTyped
<1>1. Quiet
  BY NothingCalled DEF HelloAsk, HelloAnswer, TestPrint, Quiet
<1>2. pc' \in {"answer", "halt"} /\ (local' = local \/ (pc' = "halt" /\ StatusSet))
  <2>1. 3 \in 0 .. 255 /\ 0 \in 0 .. 255
    OBVIOUS
  <2> QED
    BY <2>1, Returns DEF HelloAsk, HelloAnswer, TestPrint, Goto
<1>3. LocalTyped(local') /\ (pc' = "halt" \/ local'.status = 0)
  BY <1>0, <1>2, FieldsSet
<1>4. LineIn' /\ FdsIn' /\ SyserrIn'
  BY <1>0, <1>1, <1>2, QuietSame DEF Quiet, LineIn, FdsIn, SyserrIn
<1> QED
  BY <1>0, <1>1, <1>3, <1>4, QuietBase

-----------------------------------------------------------------------------
(* grep *)

\* A read delivers no more than it was asked for.
LEMMA DeliversAtMost ==
  ASSUME Counted, NEW fd \in Fds, NEW n \in Nat
  PROVE  Len(Delivered(fd, n)) \in 0 .. n /\ IsSequence(Delivered(fd, n))
<1> DEFINE e == file_array[Displayed][fd]
<1>0. Displayed \in Processes /\ TypeOK
  BY Lookups DEF Counted
<1>1. CASE e.kind = "file"
  <2>1. e.inode \in Inodes /\ e.f_pos \in Nat
    BY <1>0, <1>1 DEF TypeOK
  <2> DEFINE cells == ReadData(e.inode, e.f_pos, n)
             m == IF e.f_pos > FileLength[e.inode] THEN 0
                  ELSE IF n < FileLength[e.inode] THEN n ELSE FileLength[e.inode]
  <2>2. Delivered(fd, n) = [k \in DOMAIN cells |-> disk[cells[k][1]][cells[k][2]]]
    BY <1>1 DEF Delivered
  <2>3. m \in 0 .. n
    <3>1. FileLength[e.inode] \in Nat
      BY <2>1, ImageAssumption
    <3> QED
      BY <3>1
  <2>4. DOMAIN cells = 1 .. m
    <3>1. cells = [k \in 1 .. m |-> ByteOf(e.inode, e.f_pos + k - 1)]
      <4> HIDE DEF e
      <4> QED
        BY <2>1, ReadDataReturns
    <3> QED
      BY <3>1
  <2> HIDE DEF cells, m
  <2> DEFINE s == Delivered(fd, n)
  <2>5. s = [k \in 1 .. m |-> s[k]]
    BY <2>2, <2>4
  <2> HIDE DEF s
  <2>6. IsSequence(s) /\ Len(s) = m
    BY <2>3, <2>5, MadeSequence
  <2> QED
    BY <2>3, <2>6 DEF s
<1>2. CASE e.kind = "dir"
  <2>1. CASE dir_index >= NumEntries
    <3>1. Delivered(fd, n) = <<>>
      BY <1>2, <2>1 DEF Delivered
    <3> QED
      BY <3>1, EmptySequence
  <2>2. CASE ~(dir_index >= NumEntries)
    <3> DEFINE name == Entries[dir_index + 1].name
               l == IF Len(name) < n THEN Len(name) ELSE n
    <3>1. Delivered(fd, n) = SubSeq(name, 1, l)
      BY <1>2, <2>2 DEF Delivered
    <3>2. IsSequence(name)
      <4>1. dir_index + 1 \in 1 .. NumEntries
        BY <1>0, <2>2, ImageAssumption DEF TypeOK
      <4> QED
        BY <4>1, NamesAssumption
    <3>3. Len(name) \in Nat /\ l \in 0 .. n /\ l <= Len(name)
      BY <3>2 DEF IsSequence
    <3> HIDE DEF name, l
    <3>4. PICK T : name \in Seq(T)
      BY <3>2, SequenceTyped
    <3>5. SubSeq(name, 1, l) \in Seq(T) /\ Len(SubSeq(name, 1, l)) = l
      BY <3>3, <3>4, SubSeqProperties
    <3> QED
      BY <3>1, <3>3, <3>5, SeqIsSequence
  <2> QED
    BY <2>1, <2>2
<1>3. CASE e.kind \notin {"file", "dir"}
  <2>1. Delivered(fd, n) = <<>>
    BY <1>3 DEF Delivered
  <2> QED
    BY <2>1, EmptySequence
<1> QED
  BY <1>1, <1>2, <1>3

LEMMA GrepQuiet ==
  ASSUME Base, GrepArgs \/ GrepOpenDir \/ GrepReadDir \/ GrepOpen \/ GrepReadFile
               \/ GrepScan \/ GrepClose
  PROVE  Quiet
<1>1. CASE GrepArgs \/ GrepScan
  BY <1>1, NothingCalled DEF GrepArgs, GrepScan, Quiet
<1>2. CASE GrepOpenDir
  BY <1>2, OpenCalls DEF GrepOpenDir, Quiet
<1>3. CASE GrepReadDir
  <2>1. FILE_NAME_SIZE \in Nat
    BY ProgramSizesAssumption
  <2>2. local.fd \in Fds
    BY <1>3 DEF Base, FdsIn, GrepReadDir, At
  <2> QED
    BY <1>3, <2>1, <2>2, ReadCalls DEF GrepReadDir, Quiet
<1>4. CASE GrepOpen
  BY <1>4, OpenCalls DEF GrepOpen, Quiet
<1>5. CASE GrepReadFile
  <2>1. Room \in Nat
    BY ProgramSizesAssumption DEF Room, Base, StateTyped, LocalTyped
  <2>2. local.file_fd \in Fds
    BY <1>5 DEF Base, FdsIn, GrepReadFile, At
  <2>3. ReadCall(local.file_fd, Room) /\ Stay
    BY <1>5 DEF GrepReadFile
  <2> QED
    BY <2>1, <2>2, <2>3, ReadCalls DEF Quiet
<1>6. CASE GrepClose
  BY <1>6, CloseCalls DEF GrepClose, Quiet
<1> QED
  BY <1>1, <1>2, <1>3, <1>4, <1>5, <1>6, Zenon

\* What is kept of the buffer moves to its start.
LEMMA ScanKeepsRoom ==
  ASSUME Base, GrepScan
  PROVE  /\ LocalTyped(local') /\ local'.status = local.status
         /\ local'.fd = local.fd /\ local'.file_fd = local.file_fd
         /\ pc' \in {"close", "readfile"}
<1> DEFINE kept  == Kept(local.data, local.last, local.cnt)
           ended == Ended(local.data, local.last)
<1>0. LocalTyped(local) /\ BUFSIZE \in Nat
  BY ProgramSizesAssumption DEF Base, StateTyped
<1>1. \/ Goto(IF local.cnt = 0 THEN "close" ELSE "readfile",
              [local EXCEPT !.data = ended, !.last = 0])
      \/ \E start \in kept :
           Goto("readfile", [local EXCEPT !.data = Moved(ended, local.last, start),
                                          !.last = @ - start])
  BY DEF GrepScan
<1>2. CASE Goto(IF local.cnt = 0 THEN "close" ELSE "readfile",
                [local EXCEPT !.data = ended, !.last = 0])
  <2>1. DOMAIN ended = 0 .. BUFSIZE /\ 0 \in 0 .. BUFSIZE
    BY <1>0 DEF Ended
  <2> HIDE DEF ended
  <2>2. local' = [local EXCEPT !.data = ended, !.last = 0] /\ pc' \in {"close", "readfile"}
    BY <1>2 DEF Goto
  <2> QED
    BY <1>0, <2>1, <2>2 DEF LocalTyped, LocalFields
<1>3. ASSUME NEW start \in kept,
             Goto("readfile", [local EXCEPT !.data = Moved(ended, local.last, start),
                                            !.last = @ - start])
      PROVE  /\ LocalTyped(local') /\ local'.status = local.status
             /\ local'.fd = local.fd /\ local'.file_fd = local.file_fd
             /\ pc' \in {"close", "readfile"}
  <2> DEFINE moved == Moved(ended, local.last, start)
  <2>1. DOMAIN moved = 0 .. BUFSIZE
    BY DEF Moved
  <2>2. local.last - start \in 0 .. BUFSIZE
    <3>1. start # 0 /\ start \in LineStarts(local.data, local.last)
      BY DEF Kept
    <3>2. start \in 1 .. local.last - 1
      BY <3>1 DEF LineStarts
    <3> QED
      BY <1>0, <3>2 DEF LocalTyped
  <2> HIDE DEF moved
  <2>3. local' = [local EXCEPT !.data = moved, !.last = @ - start] /\ pc' = "readfile"
    BY <1>3 DEF Goto, moved
  <2> QED
    BY <1>0, <2>1, <2>2, <2>3 DEF LocalTyped, LocalFields
<1> QED
  BY <1>1, <1>2, <1>3

\* A read fills at most the room that is left.
LEMMA ReadFillsRoom ==
  ASSUME Base, GrepReadFile
  PROVE  \/ pc' = "halt" /\ StatusSet
         \/ /\ LocalTyped(local') /\ local'.status = local.status
            /\ local'.fd = local.fd /\ local'.file_fd = local.file_fd
            /\ pc' = "scan"
<1> DEFINE got  == Delivered(local.file_fd, Room)
           data == [k \in 0 .. BUFSIZE |-> IF k \in local.last .. local.last + Len(got) - 1
                                           THEN got[k - local.last + 1] ELSE local.data[k]]
<1>0. LocalTyped(local) /\ BUFSIZE \in Nat
  BY ProgramSizesAssumption DEF Base, StateTyped
<1>1. CASE ~CanRead(local.file_fd)
  <2>1. 3 \in 0 .. 255
    OBVIOUS
  <2> QED
    BY <1>1, <2>1, Returns DEF GrepReadFile
<1>2. CASE CanRead(local.file_fd)
  <2>1. Goto("scan", [local EXCEPT !.data = data, !.last = @ + Len(got), !.cnt = Len(got)])
    BY <1>2 DEF GrepReadFile
  <2>2. local.last + Len(got) \in 0 .. BUFSIZE
    <3>1. local.file_fd \in Fds
      BY DEF Base, FdsIn, GrepReadFile, At
    <3>2. Room \in Nat /\ Room = BUFSIZE - local.last
      BY <1>0 DEF Room, LocalTyped
    <3> HIDE DEF Room
    <3>3. Len(got) \in 0 .. Room
      BY <3>1, <3>2, DeliversAtMost DEF Base
    <3> HIDE DEF got
    <3> QED
      BY <1>0, <3>2, <3>3 DEF LocalTyped
  <2>3. DOMAIN data = 0 .. BUFSIZE
    OBVIOUS
  <2> HIDE DEF data, got
  <2>4. local' = [local EXCEPT !.data = data, !.last = @ + Len(got), !.cnt = Len(got)] /\ pc' = "scan"
    BY <2>1 DEF Goto
  <2> QED
    BY <1>0, <2>2, <2>3, <2>4 DEF LocalTyped, LocalFields
<1> QED
  BY <1>1, <1>2

LEMMA GrepSteps ==
  ASSUME Base, GrepArgs \/ GrepOpenDir \/ GrepReadDir \/ GrepOpen \/ GrepReadFile
               \/ GrepScan \/ GrepClose
  PROVE  Base'
<1>0. prog[Me] = "grep" /\ Counted /\ local.status = 0 /\ LocalTyped(local)
  BY DEF GrepArgs, GrepOpenDir, GrepReadDir, GrepOpen, GrepReadFile, GrepScan, GrepClose,
         At, Base, StateTyped
<1>1. 2 \in 0 .. 255 /\ 3 \in 0 .. 255 /\ 0 \in 0 .. 255
  OBVIOUS
<1> DEFINE Good == /\ LocalTyped(local') /\ (pc' = "halt" \/ local'.status = 0)
                   /\ pc' \in {"opendir", "readdir", "open", "readfile", "scan", "close", "halt"}
                   /\ pc' \in {"readdir", "open", "readfile", "scan", "close"} => local'.fd \in Fds
                   /\ pc' \in {"readfile", "scan", "close"} => local'.file_fd \in Fds
<1>2. ASSUME StatusSet, pc' = "halt" PROVE Good
  BY <1>2, FieldsSet
<1>3. ASSUME GrepArgs PROVE Good
  <2>1. CASE pc' = "halt" /\ StatusSet
    BY <1>2, <2>1
  <2>2. ASSUME NEW dirt, Goto("opendir", [Locals(dirt) EXCEPT !.search = GetArgs])
        PROVE  Good
    <3>1. LocalTyped(Locals(dirt)) /\ Locals(dirt).status = 0
      BY LocalsTyped
    <3> DEFINE l == Locals(dirt)
    <3> HIDE DEF l
    <3>2. local' = [l EXCEPT !.search = GetArgs] /\ pc' = "opendir"
      BY <2>2 DEF Goto, l
    <3>3. LocalTyped(l) /\ l.status = 0
      BY <3>1 DEF l
    <3> QED
      BY <3>2, <3>3 DEF LocalTyped, LocalFields
  <2> QED
    BY <1>1, <1>3, <2>1, <2>2, Returns DEF GrepArgs
<1>4. ASSUME GrepOpenDir PROVE Good
  <2>1. (pc' = "halt" /\ StatusSet) \/ (pc' = "readdir" /\ FdSet)
    BY <1>0, <1>4, OpenReturns DEF GrepOpenDir
  <2> QED
    BY <1>0, <1>2, <2>1, FieldsSet
<1>5. ASSUME GrepReadDir PROVE Good
  <2>1. local.fd \in Fds
    BY <1>5 DEF Base, FdsIn, GrepReadDir, At
  <2>2. (pc' = "halt" /\ StatusSet) \/ (pc' \in {"readdir", "open"} /\ BufSet)
    BY <1>1, <1>5, Returns DEF GrepReadDir, Goto, BufSet
  <2> QED
    BY <1>0, <1>2, <2>1, <2>2, FieldsSet
<1>6. ASSUME GrepOpen PROVE Good
  <2>1. local.fd \in Fds
    BY <1>6 DEF Base, FdsIn, GrepOpen, At
  <2>2. CASE CanOpen(local.buf)
    <3>1. LowestFree \in Fds
      BY <1>0, <2>2, OpenedFd
    <3>2. local' = [local EXCEPT !.file_fd = LowestFree, !.last = 0] /\ pc' = "readfile"
      BY <1>6, <2>2 DEF GrepOpen, Goto
    <3>3. 0 \in 0 .. BUFSIZE
      BY ProgramSizesAssumption
    <3> QED
      BY <1>0, <2>1, <3>1, <3>2, <3>3 DEF LocalTyped, LocalFields
  <2>3. CASE ~CanOpen(local.buf)
    BY <1>1, <1>2, <1>6, <2>3, Returns DEF GrepOpen
  <2> QED
    BY <2>2, <2>3
<1>7. ASSUME GrepReadFile PROVE Good
  <2>1. local.fd \in Fds /\ local.file_fd \in Fds
    BY <1>7 DEF Base, FdsIn, GrepReadFile, At
  <2> QED
    BY <1>0, <1>2, <1>7, <2>1, ReadFillsRoom
<1>8. ASSUME GrepScan PROVE Good
  <2>1. local.fd \in Fds /\ local.file_fd \in Fds
    BY <1>8 DEF Base, FdsIn, GrepScan, At
  <2> QED
    BY <1>0, <1>8, <2>1, ScanKeepsRoom
<1>9. ASSUME GrepClose PROVE Good
  <2>1. local.fd \in Fds
    BY <1>9 DEF Base, FdsIn, GrepClose, At
  <2>2. (pc' = "halt" /\ StatusSet) \/ (pc' = "readdir" /\ local' = local)
    BY <1>1, <1>9, Returns DEF GrepClose, Goto
  <2> QED
    BY <1>0, <1>2, <2>1, <2>2
<1>10. Good
  BY <1>3, <1>4, <1>5, <1>6, <1>7, <1>8, <1>9
<1>11. Quiet
  BY GrepQuiet
<1>12. LineIn' /\ FdsIn' /\ SyserrIn'
  BY <1>0, <1>10, <1>11, QuietSame DEF Quiet, LineIn, FdsIn, SyserrIn
<1> QED
  BY <1>0, <1>10, <1>11, <1>12, QuietBase

-----------------------------------------------------------------------------
(* syserr *)

LEMMA OpensOne ==
  ASSUME Counted, NEW name, CanOpen(name), OpenCall(name)
  PROVE  /\ LowestFree \in Fds \ Open(Displayed)
         /\ Open(Displayed)' = Open(Displayed) \cup {LowestFree}
<1>1. PICK k \in Lookup(name) : OpenFile(k)
  BY DEF OpenCall
<1>2. k \in 1 .. NumEntries
  BY LookupEntries
<1>3. /\ LowestFree \in Fds \ Open(Displayed) /\ Displayed \in Processes
      /\ file_array' = [file_array EXCEPT ![Displayed][LowestFree] = KindOf(Entries[k])]
  BY <1>1, <1>2, OpensLowest
<1>4. KindOf(Entries[k]).kind # "none"
  BY <1>2, KindOfEntry
<1>5. Displayed' = Displayed
  BY OpenCalls DEF SameProcess, Displayed
<1>6. PICK p \in Processes : p = Displayed
  BY <1>3
<1>7. PICK low \in Fds : low = LowestFree
  BY <1>3
<1>8. Open(p)' = Open(p) \cup {low}
  <2>1. DOMAIN file_array = Processes /\ DOMAIN file_array[p] = Fds
    BY DEF Counted, TypeOK
  <2>2. file_array' = [file_array EXCEPT ![p][low] = KindOf(Entries[k])]
    BY <1>3, <1>6, <1>7
  <2> QED
    BY <1>4, <2>1, <2>2 DEF Open
<1> QED
  BY <1>3, <1>5, <1>6, <1>7, <1>8

LEMMA ClosesOne ==
  ASSUME Counted, NEW fd, CanClose(fd), CloseCall(fd)
  PROVE  Open(Displayed)' = Open(Displayed) \ {fd}
<1>1. Close(fd) /\ fd \in Fds
  BY DEF CloseCall, CanClose
<1>2. file_array' = [file_array EXCEPT ![Displayed][fd] = Absent]
  BY <1>1 DEF Close
<1>3. PICK p \in Processes : p = Displayed
  BY Lookups DEF Counted
<1>4. Displayed' = Displayed
  BY CloseCalls DEF SameProcess, Displayed
<1>5. Open(p)' = Open(p) \ {fd}
  <2>1. DOMAIN file_array = Processes /\ DOMAIN file_array[p] = Fds
    BY DEF Counted, TypeOK
  <2>2. file_array' = [file_array EXCEPT ![p][fd] = Absent]
    BY <1>2, <1>3
  <2> QED
    BY <1>1, <2>1, <2>2 DEF Open, Absent, Fd
<1> QED
  BY <1>3, <1>4, <1>5

LEMMA SameOpenSet ==
  ASSUME UNCHANGED vars
  PROVE  Open(Displayed)' = Open(Displayed)
BY DEF vars, Open, Displayed

\* The effect of the call, as in SyserrCall.
Called(e) ==
  CASE e.call = "read"  -> ReadCall(e.arg, 31)
    [] e.call = "close" -> CloseCall(e.arg)
    [] e.call = "open"  -> OpenCall(e.arg)
    [] OTHER -> UNCHANGED vars

\* Every call of the other tests is to fail, and fails with no file open.
LEMMA FailingCall ==
  ASSUME Counted, Open(Displayed) = {}, NEW n \in 1 .. 8, n # 3, NEW p \in 1 .. TestLength[n]
  PROVE  LET e == Test(n)[p] IN
         /\ e.must = "fail" /\ ~Succeeds(e)
         /\ e.call \in {"read", "write", "close", "open", "vidmap", "number"}
<1> DEFINE Fails(e) == /\ e.must = "fail" /\ ~Succeeds(e)
                       /\ e.call \in {"read", "write", "close", "open", "vidmap", "number"}
<1>1. /\ \A fd : CanRead(fd) => fd = 0
      /\ \A fd : CanWrite(fd) => fd = 1
      /\ \A fd : ~CanClose(fd)
  <2>1. MAX_OPEN_FILES = 8 /\ Fds = 2 .. 7
    BY ProgramSizesAssumption DEF Fds, STDI_O
  <2> QED
    BY <2>1 DEF CanRead, CanWrite, CanClose, Present
<1>2. ASSUME NEW fd
      PROVE  /\ fd # 0 => Fails(Entry("read", fd, "fail"))
             /\ fd # 1 => Fails(Entry("write", fd, "fail"))
             /\ Fails(Entry("close", fd, "fail"))
  BY <1>1 DEF Entry, Succeeds
<1>3. ASSUME NEW name \in WrongNames \cup {<<>>}
      PROVE  Fails(Entry("open", name, "fail"))
  <2>1. Lookup(name) = {}
    <3>1. CASE name \in WrongNames
      BY <3>1, WrongNamesAssumption DEF Lookup
    <3>2. CASE name = <<>>
      <4>1. Cut(<<>>) = <<>>
        BY ProgramSizesAssumption, EmptySequence DEF Cut
      <4>2. \A k \in 1 .. NumEntries : Entries[k].name # <<>>
        BY NamesAssumption, EmptySequence
      <4> QED
        BY <3>2, <4>1, <4>2 DEF Lookup
    <3> QED
      BY <3>1, <3>2
  <2> QED
    BY <2>1 DEF Entry, Succeeds, CanOpen
<1>4. ASSUME NEW mb \in {0, 4}
      PROVE  Fails(Entry("vidmap", mb, "fail"))
  BY DEF Entry, Succeeds, CanVidmap
<1>5. ASSUME NEW num \in {0, BIG, NEG}
      PROVE  Fails(Entry("number", num, "fail"))
  BY DEF Entry, Succeeds, CanCall, BIG, NEG
<1>6. NEG # 0 /\ NEG # 1 /\ BIG # 0 /\ BIG # 1
  BY DEF NEG, BIG
<1> HIDE DEF Fails
<1>7. /\ TestLength[1] = 3 /\ TestLength[2] = 3 /\ TestLength[4] = 3 /\ TestLength[5] = 20
      /\ TestLength[6] = 2 /\ TestLength[7] = 2 /\ TestLength[8] = 3
  BY DEF TestLength
<1>8. Fails(Test(n)[p])
  <2>1. CASE n = 1
    <3>1. p \in {1, 2, 3}
      BY <1>7, <2>1
    <3> QED
      BY <1>2, <1>6, <2>1, <3>1, Test1
  <2>2. CASE n = 2
    <3>1. p \in {1, 2, 3}
      BY <1>7, <2>2
    <3> QED
      BY <1>2, <1>6, <2>2, <3>1, Test2
  <2>3. CASE n = 4
    <3>1. p \in 1 .. 3
      BY <1>7, <2>3
    <3>2. PICK name \in WrongNames \cup {<<>>} : Test(4)[p] = Entry("open", name, "fail")
      BY <3>1, Test4
    <3> QED
      BY <1>3, <2>3, <3>2
  <2>4. CASE n = 5
    <3>1. p \in 1 .. 8 \/ p \in 9 .. 14 \/ p \in 15 .. 20
      BY <1>7, <2>4
    <3>2. p \in 9 .. 14 => p - 7 # 0
      OBVIOUS
    <3>3. p \in 15 .. 20 => p - 13 # 1
      OBVIOUS
    <3> QED
      BY <1>2, <2>4, <3>1, <3>2, <3>3, Test5
  <2>5. CASE n = 6
    <3>1. p \in 1 .. 2
      BY <1>7, <2>5
    <3>2. PICK mb \in {0, 4} : Test(6)[p] = Entry("vidmap", mb, "fail")
      BY <3>1, Test6
    <3> QED
      BY <1>4, <2>5, <3>2
  <2>6. CASE n = 7
    <3>1. p \in {1, 2} /\ 0 # 1
      BY <1>7, <2>6
    <3> QED
      BY <1>2, <2>6, <3>1, Test7
  <2>7. CASE n = 8
    <3>1. p \in 1 .. 3
      BY <1>7, <2>7
    <3>2. PICK num \in {0, BIG, NEG} : Test(8)[p] = Entry("number", num, "fail")
      BY <3>1, Test8
    <3> QED
      BY <1>5, <2>7, <3>2
  <2> QED
    BY <2>1, <2>2, <2>3, <2>4, <2>5, <2>6, <2>7
<1> QED
  BY <1>8 DEF Fails

\* The third test: how many files are open decides.
LEMMA ThirdTest ==
  ASSUME Counted, NEW p \in 1 .. 13, Open(Displayed) = OpenAt(3, p), Called(Test(3)[p])
  PROVE  LET e == Test(3)[p] IN
         /\ SameProcess /\ KernelStep
         /\ Open(Displayed)' = OpenAt(3, p + 1)
         /\ e.must # "fail"
         /\ e.must = "count" /\ ~Succeeds(e) <=> p = 7
<1>1. MAX_OPEN_FILES = 8 /\ Fds = 2 .. 7
  BY ProgramSizesAssumption DEF Fds, STDI_O
<1>2. CASE p \in 1 .. 7
  <2>1. Test(3)[p] = Entry("open", Dot, "count")
    BY <1>2, Test3
  <2> DEFINE e == Entry("open", Dot, "count")
  <2>2. e.call = "open" /\ e.arg = Dot /\ e.must = "count"
    BY DEF Entry
  <2>3. OpenCall(Dot) /\ (Succeeds(e) <=> CanOpen(Dot))
    BY <2>1, <2>2 DEF Called, Succeeds
  <2>4. Open(Displayed) = 2 .. p
    BY <1>2 DEF OpenAt
  <2>5. CanOpen(Dot) <=> p # 7
    <3>1. Cardinality(Open(Displayed)) = p - 1
      BY <1>2, <2>4, FS_Interval
    <3>2. file_arr_size[Displayed] = 2 + Cardinality(Open(Displayed))
      BY Lookups DEF Counted, SizeCountsOpen, STDI_O
    <3>3. Lookup(Dot) # {}
      BY DotListed
    <3>4. p \in 1 .. 7 /\ 2 + (p - 1) < 8 <=> p # 7
      BY <1>2
    <3> QED
      BY <1>1, <3>1, <3>2, <3>3, <3>4 DEF CanOpen
  <2>6. Open(Displayed)' = OpenAt(3, p + 1)
    <3>1. CASE p # 7
      <4>1. /\ LowestFree \in Fds \ Open(Displayed)
            /\ Open(Displayed)' = Open(Displayed) \cup {LowestFree}
        BY <2>3, <2>5, <3>1, OpensOne
      <4>2. \A g \in Fds \ Open(Displayed) : LowestFree <= g
        BY <2>5, <3>1, LowestIsFree DEF CanOpen
      <4> DEFINE low == LowestFree
      <4>3. low \in (2 .. 7) \ (2 .. p) /\ \A g \in (2 .. 7) \ (2 .. p) : low <= g
        BY <1>1, <2>4, <4>1, <4>2
      <4> HIDE DEF low
      <4>4. low = p + 1
        BY <1>2, <3>1, <4>3
      <4>5. OpenAt(3, p + 1) = 2 .. p + 1
        BY <1>2, <3>1 DEF OpenAt
      <4>6. (2 .. p) \cup {low} = 2 .. p + 1
        BY <1>2, <4>4
      <4> QED
        BY <2>4, <4>1, <4>5, <4>6 DEF low
    <3>2. CASE p = 7
      <4>1. Open(Displayed)' = Open(Displayed)
        BY <2>3, <2>5, <3>2, SameOpenSet DEF OpenCall
      <4>2. OpenAt(3, p + 1) = 2 .. 7
        BY <3>2 DEF OpenAt
      <4> QED
        BY <2>4, <3>2, <4>1, <4>2
    <3> QED
      BY <3>1, <3>2
  <2> QED
    BY <2>1, <2>2, <2>3, <2>5, <2>6, OpenCalls
<1>3. CASE p \in 8 .. 13
  <2>1. Test(3)[p] = Entry("close", p - 6, "any")
    BY <1>3, Test3
  <2> DEFINE e == Entry("close", p - 6, "any")
  <2>2. e.call = "close" /\ e.arg = p - 6 /\ e.must = "any"
    BY DEF Entry
  <2>3. CloseCall(p - 6)
    BY <2>1, <2>2 DEF Called
  <2>4. Open(Displayed) = p - 6 .. 7 /\ OpenAt(3, p + 1) = p - 5 .. 7
    <3>1. ~(p <= 7) /\ ~(p + 1 <= 7) /\ (p + 1) - 6 = p - 5
      BY <1>3
    <3> QED
      BY <3>1 DEF OpenAt
  <2>5. p - 6 \in Fds /\ p - 6 \in Open(Displayed)
    BY <1>1, <1>3, <2>4
  <2>6. CanClose(p - 6)
    BY <2>5 DEF CanClose, Present
  <2>7. Open(Displayed)' = Open(Displayed) \ {p - 6}
    BY <2>3, <2>6, ClosesOne
  <2>8. (p - 6 .. 7) \ {p - 6} = p - 5 .. 7
    BY <1>3
  <2> QED
    BY <1>3, <2>1, <2>2, <2>3, <2>4, <2>7, <2>8, CloseCalls
<1> QED
  BY <1>2, <1>3

LEMMA CallEffect ==
  ASSUME Counted, NEW n \in 1 .. 8, NEW p \in 1 .. TestLength[n],
         Open(Displayed) = OpenAt(n, p), Called(Test(n)[p])
  PROVE  LET e == Test(n)[p] IN
         /\ SameProcess /\ KernelStep
         /\ Open(Displayed)' = OpenAt(n, p + 1)
         /\ ~(e.must = "fail" /\ Succeeds(e))
         /\ CntAt(n, p + 1) = IF e.must = "count" /\ ~Succeeds(e) THEN CntAt(n, p) + 1
                                                                  ELSE CntAt(n, p)
<1>1. CASE n = 3
  <2>1. p \in 1 .. 13
    BY <1>1 DEF TestLength
  <2>2. CntAt(3, p + 1) = IF p = 7 THEN CntAt(3, p) + 1 ELSE CntAt(3, p)
    BY <2>1 DEF CntAt
  <2> QED
    BY <1>1, <2>1, <2>2, ThirdTest
<1>2. CASE n # 3
  <2>1. OpenAt(n, p) = {} /\ OpenAt(n, p + 1) = {} /\ CntAt(n, p + 1) = CntAt(n, p)
    BY <1>2 DEF OpenAt, CntAt
  <2> DEFINE e == Test(n)[p]
  <2>2. /\ e.must = "fail" /\ ~Succeeds(e)
        /\ e.call \in {"read", "write", "close", "open", "vidmap", "number"}
    BY <1>2, <2>1, FailingCall
  <2>3. Called(e)
    OBVIOUS
  <2> HIDE DEF e
  <2>4. UNCHANGED vars
    <3>1. CASE e.call = "read"
      BY <2>2, <2>3, <3>1 DEF Called, Succeeds, ReadCall
    <3>2. CASE e.call = "close"
      BY <2>2, <2>3, <3>2 DEF Called, Succeeds, CloseCall
    <3>3. CASE e.call = "open"
      BY <2>2, <2>3, <3>3 DEF Called, Succeeds, OpenCall
    <3>4. CASE e.call \in {"write", "vidmap", "number"}
      BY <2>3, <3>4 DEF Called
    <3> QED
      BY <2>2, <3>1, <3>2, <3>3, <3>4
  <2> QED
    BY <2>1, <2>2, <2>4, NothingCalled, SameOpenSet DEF e
<1> QED
  BY <1>1, <1>2

LEMMA ScriptedRest ==
  ASSUME NEW s, NEW a \in 1 .. 57, Scripted(s, a), s # <<>>
  PROVE  /\ Head(s) = Plan[a] /\ Scripted(Tail(s), a + 1)
         /\ Tail(s) # <<>> => a + 1 <= 57
<1>1. IsSequence(s) /\ a + Len(s) <= 58 /\ \A j \in 1 .. Len(s) : s[j] = Plan[a + j - 1]
  BY DEF Scripted
<1>2. PICK T : s \in Seq(T)
  BY <1>1, SequenceTyped
<1> DEFINE r == Tail(s)
           m == Len(s)
<1>3. m \in Nat /\ m # 0
  BY <1>1, NoElements DEF IsSequence
<1>4. /\ r \in Seq(T) /\ Len(r) = m - 1
      /\ \A j \in 1 .. m - 1 : r[j] = s[j + 1]
      /\ Head(s) = s[1]
  BY <1>2, <1>3
<1>5. IsSequence(r)
  BY <1>4, SeqIsSequence
<1>6. r # <<>> => Len(r) # 0
  BY <1>5, NoElements
<1> HIDE DEF r, m
<1>7. ASSUME NEW j \in 1 .. Len(r)
      PROVE  r[j] = Plan[(a + 1) + j - 1]
  <2>1. j + 1 \in 1 .. m /\ a + (j + 1) - 1 = (a + 1) + j - 1 /\ j \in 1 .. m - 1
    BY <1>3, <1>4
  <2> QED
    BY <1>1, <1>4, <2>1 DEF m
<1>8. (a + 1) + Len(r) <= 58 /\ (Len(r) # 0 => a + 1 <= 57)
  BY <1>1, <1>3, <1>4 DEF m
<1>9. Head(s) = Plan[a]
  <2>1. a + 1 - 1 = a /\ 1 \in 1 .. m
    BY <1>3
  <2> QED
    BY <1>1, <1>4, <2>1 DEF m
<1> QED
  BY <1>5, <1>6, <1>7, <1>8, <1>9 DEF Scripted, r

LEMMA NoVerdict ==
  ASSUME NEW n \in 1 .. 8, NEW p \in 1 .. TestLength[n]
  PROVE  Test(n)[p].call # "verdict"
<1> DEFINE IsCall(e) == e.call # "verdict"
<1>1. /\ \A fd : IsCall(Entry("read", fd, "fail")) /\ IsCall(Entry("write", fd, "fail"))
                 /\ IsCall(Entry("close", fd, "fail")) /\ IsCall(Entry("close", fd, "any"))
      /\ \A name : IsCall(Entry("open", name, "count")) /\ IsCall(Entry("open", name, "fail"))
      /\ \A x : IsCall(Entry("vidmap", x, "fail")) /\ IsCall(Entry("number", x, "fail"))
  BY DEF Entry
<1> HIDE DEF IsCall
<1>2. /\ TestLength[1] = 3 /\ TestLength[2] = 3 /\ TestLength[3] = 13 /\ TestLength[4] = 3
      /\ TestLength[5] = 20 /\ TestLength[6] = 2 /\ TestLength[7] = 2 /\ TestLength[8] = 3
  BY DEF TestLength
<1>3. n \in {1, 2, 7} => IsCall(Test(n)[p])
  <2>1. n \in {1, 2} => p \in {1, 2, 3}
    BY <1>2
  <2>2. n = 7 => p \in {1, 2}
    BY <1>2
  <2> QED
    BY <1>1, <2>1, <2>2, Test1, Test2, Test7
<1>4. n \in {4, 6, 8} => IsCall(Test(n)[p])
  <2>1. n \in {4, 8} => p \in 1 .. 3
    BY <1>2
  <2>2. n = 6 => p \in 1 .. 2
    BY <1>2
  <2> QED
    BY <1>1, <2>1, <2>2, Test4, Test6, Test8
<1>5. n = 3 => IsCall(Test(n)[p])
  <2>1. n = 3 => p \in 1 .. 7 \/ p \in 8 .. 13
    BY <1>2
  <2> QED
    BY <1>1, <2>1, Test3
<1>6. n = 5 => IsCall(Test(n)[p])
  <2>1. n = 5 => p \in 1 .. 8 \/ p \in 9 .. 14 \/ p \in 15 .. 20
    BY <1>2
  <2> QED
    BY <1>1, <2>1, Test5
<1>7. n \in {1, 2, 3, 4, 5, 6, 7, 8}
  OBVIOUS
<1> QED
  BY <1>3, <1>4, <1>5, <1>6, <1>7 DEF IsCall

\* Where the script stands: in test n, before its call p or its verdict.
LEMMA NextCall ==
  ASSUME NEW n \in 1 .. 8, NEW p \in 1 .. TestLength[n] + 1, SyserrAt(n, p),
         local.script # <<>>
  PROVE  LET e    == Head(local.script)
             rest == Tail(local.script)
         IN  /\ p <= TestLength[n] =>
                  /\ e = Test(n)[p] /\ p + 1 \in 1 .. TestLength[n] + 1
                  /\ Scripted(rest, Start[n] + (p + 1))
             /\ p = TestLength[n] + 1 =>
                  /\ e = Entry("verdict", n, "any")
                  /\ rest # <<>> => n + 1 \in 1 .. 8 /\ Scripted(rest, Start[n + 1] + 1)
<1> DEFINE e    == Head(local.script)
           rest == Tail(local.script)
           a    == Start[n] + p
<1>1. a \in 1 .. 57 /\ Plan[a] = WithVerdict(n)[p]
  BY PlanAt
<1>2. /\ e = Plan[a] /\ Scripted(rest, a + 1)
      /\ rest # <<>> => a + 1 <= 57
  BY <1>1, ScriptedRest DEF SyserrAt
<1>3. /\ TestLength[n] \in Nat /\ Start[n] \in 0 .. 57 /\ Start[n + 1] \in 0 .. 57
      /\ Start[n + 1] = Start[n] + TestLength[n] + 1
  <2>1. n \in 1 .. 9 /\ n + 1 \in 1 .. 9
    OBVIOUS
  <2> QED
    BY <2>1, Starts
<1>4. /\ \A q \in 1 .. TestLength[n] : WithVerdict(n)[q] = Test(n)[q]
      /\ WithVerdict(n)[TestLength[n] + 1] = Entry("verdict", n, "any")
  BY VerdictSequence
<1>5. Start[8 + 1] = 57
  BY Starts
<1> DEFINE b == Start[n]
           f == Start[n + 1]
           l == TestLength[n]
<1>6. l \in Nat /\ b \in 0 .. 57 /\ f \in 0 .. 57 /\ f = b + l + 1 /\ p \in 1 .. l + 1
      /\ a = b + p
  BY <1>3
<1>7. n = 8 => f = 57
  BY <1>5
<1>8. n # 8 => n + 1 \in 1 .. 8
  OBVIOUS
<1> HIDE DEF e, rest, a, b, f, l
<1>9. ASSUME p <= l
      PROVE  p \in 1 .. l /\ p + 1 \in 1 .. l + 1 /\ a + 1 = b + (p + 1)
  BY <1>6, <1>9
<1>10. ASSUME p = l + 1
       PROVE  a = f /\ a + 1 = f + 1
  BY <1>6, <1>10
<1>11. ASSUME p <= l
       PROVE  /\ e = Test(n)[p] /\ p + 1 \in 1 .. l + 1
              /\ Scripted(rest, b + (p + 1))
  <2>1. WithVerdict(n)[p] = Test(n)[p]
    BY <1>4, <1>9, <1>11 DEF l
  <2> QED
    BY <1>1, <1>2, <1>9, <1>11, <2>1
<1>12. ASSUME p = l + 1
       PROVE  /\ e = Entry("verdict", n, "any")
              /\ rest # <<>> => n + 1 \in 1 .. 8 /\ Scripted(rest, f + 1)
  <2>1. WithVerdict(n)[p] = Entry("verdict", n, "any")
    BY <1>4, <1>12 DEF l
  <2>2. rest # <<>> => n # 8
    BY <1>1, <1>2, <1>7, <1>10, <1>12
  <2> QED
    BY <1>1, <1>2, <1>8, <1>10, <1>12, <2>1, <2>2
<1> QED
  BY <1>11, <1>12 DEF e, rest, b, f, l

LEMMA SyserrSteps ==
  ASSUME Base, SyserrAsk \/ (\E n \in 0 .. 9 : SyserrChoose(n)) \/ SyserrCall
               \/ SyserrVerdict \/ SyserrEnd
  PROVE  Base'
<1>0. prog[Me] = "syserr" /\ Counted /\ local.status = 0 /\ LocalTyped(local)
  BY DEF SyserrAsk, SyserrChoose, SyserrCall, SyserrVerdict, SyserrEnd, At, Base, StateTyped
<1> DEFINE Good == /\ Quiet /\ LocalTyped(local') /\ local'.status = 0
                   /\ pc' \in {"choose", "test", "halt"}
                   /\ pc' = "choose" =>
                        Open(Displayed)' = {} /\ local'.fail = FALSE /\ local'.cnt = 0
                   /\ pc' = "test" =>
                        \/ local'.script = <<>>
                        \/ \E n \in 1 .. 8 : \E p \in 1 .. TestLength[n] + 1 : SyserrAt(n, p)'
<1>1. ASSUME SyserrAsk PROVE Good
  <2>1. pc = "main" /\ UNCHANGED vars /\ Stay /\ pc' = "choose" /\ local' = local
    BY <1>1 DEF SyserrAsk, At, Goto
  <2>2. Open(Displayed) = {} /\ local.fail = FALSE /\ local.cnt = 0
    BY <1>0, <2>1 DEF Base, SyserrIn
  <2> QED
    BY <1>0, <2>1, <2>2, NothingCalled, SameOpenSet DEF Quiet
<1>2. ASSUME NEW n \in 0 .. 9, SyserrChoose(n) PROVE Good
  <2>1. CanRead(0)
    BY ProgramSizesAssumption DEF CanRead, Present
  <2>2. /\ pc = "choose" /\ UNCHANGED vars /\ Stay
        /\ pc' = IF n = 9 THEN "halt" ELSE "test"
        /\ local' = [local EXCEPT !.script = Script(n)]
    BY <1>2, <2>1 DEF SyserrChoose, At, Goto
  <2>3. Open(Displayed) = {} /\ local.fail = FALSE /\ local.cnt = 0
    BY <1>0, <2>2 DEF Base, SyserrIn
  <2>4. /\ LocalTyped(local') /\ local'.status = 0 /\ local'.script = Script(n)
        /\ local'.fail = FALSE /\ local'.cnt = 0
    BY <1>0, <2>2, <2>3 DEF LocalTyped, LocalFields
  <2>5. ASSUME n # 9
        PROVE  \E m \in 1 .. 8 : \E p \in 1 .. TestLength[m] + 1 : SyserrAt(m, p)'
    <3>1. n \in 0 .. 8
      BY <2>5
    <3>2. PICK m \in 1 .. 8 : Scripted(Script(n), Start[m] + 1)
      BY <3>1, ScriptChosen
    <3>3. 1 \in 1 .. TestLength[m] + 1
      <4>1. TestLength[m] \in Nat
        BY Starts
      <4> QED
        BY <4>1
    <3>4. OpenAt(m, 1) = {} /\ CntAt(m, 1) = 0
      BY DEF OpenAt, CntAt
    <3>5. SyserrAt(m, 1)'
      BY <2>2, <2>3, <2>4, <3>2, <3>4, SameOpenSet DEF SyserrAt
    <3> QED
      BY <3>3, <3>5
  <2> QED
    BY <2>2, <2>4, <2>5, NothingCalled DEF Quiet
<1>3. ASSUME pc = "test", local.script # <<>>
      PROVE  \E n \in 1 .. 8 : \E p \in 1 .. TestLength[n] + 1 : SyserrAt(n, p)
  BY <1>0, <1>3 DEF Base, SyserrIn
<1>4. ASSUME SyserrCall PROVE Good
  <2>1. /\ pc = "test" /\ local.script # <<>> /\ Stay /\ pc' = "test"
        /\ Head(local.script).call # "verdict" /\ Called(Head(local.script))
    BY <1>4 DEF SyserrCall, At, Goto, Called
  <2>20. PICK n \in 1 .. 8 : \E p \in 1 .. TestLength[n] + 1 : SyserrAt(n, p)
    BY <1>3, <2>1
  <2>2. PICK p \in 1 .. TestLength[n] + 1 : SyserrAt(n, p)
    BY <2>20
  <2>3. p # TestLength[n] + 1
    BY <2>1, <2>2, NextCall DEF Entry
  <2>4. p <= TestLength[n] /\ p \in 1 .. TestLength[n]
    <3>1. TestLength[n] \in Nat
      BY Starts
    <3> QED
      BY <2>3, <3>1
  <2> DEFINE e == Head(local.script)
  <2>5. /\ e = Test(n)[p] /\ p + 1 \in 1 .. TestLength[n] + 1
        /\ Scripted(Tail(local.script), Start[n] + (p + 1))
    BY <2>1, <2>2, <2>4, NextCall
  <2>6. Open(Displayed) = OpenAt(n, p) /\ local.fail = FALSE /\ local.cnt = CntAt(n, p)
    BY <2>2 DEF SyserrAt
  <2>7. /\ SameProcess /\ KernelStep
        /\ Open(Displayed)' = OpenAt(n, p + 1)
        /\ ~(e.must = "fail" /\ Succeeds(e))
        /\ CntAt(n, p + 1) = IF e.must = "count" /\ ~Succeeds(e) THEN CntAt(n, p) + 1
                                                                 ELSE CntAt(n, p)
    BY <1>0, <2>1, <2>4, <2>5, <2>6, CallEffect
  <2>8. local' = [local EXCEPT !.script = Tail(@),
                    !.fail = @ \/ (e.must = "fail" /\ Succeeds(e)),
                    !.cnt = IF e.must = "count" /\ ~Succeeds(e) THEN @ + 1 ELSE @]
    BY <1>4 DEF SyserrCall, Goto
  <2> HIDE DEF e
  <2>9. /\ LocalTyped(local') /\ local'.status = 0 /\ local'.script = Tail(local.script)
        /\ local'.fail = FALSE /\ local'.cnt = CntAt(n, p + 1)
    <3> DEFINE tail == Tail(local.script)
               bad  == e.must = "fail" /\ Succeeds(e)
               more == e.must = "count" /\ ~Succeeds(e)
               cnt2 == IF more THEN local.cnt + 1 ELSE local.cnt
               fail2 == local.fail \/ bad
    <3>1. local' = [local EXCEPT !.script = tail, !.fail = fail2, !.cnt = cnt2]
      BY <2>8
    <3>2. fail2 = FALSE /\ cnt2 = CntAt(n, p + 1)
      BY <2>6, <2>7
    <3> HIDE DEF tail, cnt2, fail2
    <3>3. /\ LocalTyped(local') /\ local'.status = 0 /\ local'.script = tail
          /\ local'.fail = fail2 /\ local'.cnt = cnt2
      BY <1>0, <3>1 DEF LocalTyped, LocalFields
    <3> QED
      BY <3>2, <3>3 DEF tail
  <2>10. SyserrAt(n, p + 1)'
    BY <2>5, <2>7, <2>9 DEF SyserrAt
  <2> QED
    BY <2>1, <2>5, <2>7, <2>9, <2>10 DEF Quiet
<1>5. ASSUME SyserrVerdict PROVE Good
  <2>1. /\ pc = "test" /\ local.script # <<>> /\ Stay /\ pc' = "test" /\ UNCHANGED vars
        /\ Head(local.script).call = "verdict"
    BY <1>5 DEF SyserrVerdict, At, Goto
  <2>20. PICK n \in 1 .. 8 : \E p \in 1 .. TestLength[n] + 1 : SyserrAt(n, p)
    BY <1>3, <2>1
  <2>2. PICK p \in 1 .. TestLength[n] + 1 : SyserrAt(n, p)
    BY <2>20
  <2> DEFINE e == Head(local.script)
  <2>3. p = TestLength[n] + 1
    <3>1. TestLength[n] \in Nat
      BY Starts
    <3>2. ASSUME p \in 1 .. TestLength[n]
          PROVE  FALSE
      <4>1. e = Test(n)[p]
        BY <2>1, <2>2, <3>1, <3>2, NextCall
      <4>2. e.call # "verdict"
        BY <3>2, <4>1, NoVerdict
      <4> QED
        BY <2>1, <4>2
    <3> QED
      BY <3>1, <3>2
  <2>4. /\ e = Entry("verdict", n, "any")
        /\ Tail(local.script) # <<>> =>
             n + 1 \in 1 .. 8 /\ Scripted(Tail(local.script), Start[n + 1] + 1)
    BY <2>1, <2>2, <2>3, NextCall
  <2>5. e.arg = n
    BY <2>4 DEF Entry
  <2>6. Open(Displayed) = OpenAt(n, p) /\ local.fail = FALSE /\ local.cnt = CntAt(n, p)
    BY <2>2 DEF SyserrAt
  <2>7. n = 3 => p = 14
    BY <2>3 DEF TestLength
  <2>8. Open(Displayed) = {} /\ (n = 3 => local.cnt = 1)
    BY <2>6, <2>7 DEF OpenAt, CntAt
  <2> DEFINE failed == IF e.arg = 3 THEN local.cnt # 1 ELSE local.fail
  <2>9. ~failed
    BY <2>5, <2>6, <2>8
  <2>10. local' = [local EXCEPT !.script = Tail(@), !.fail = FALSE, !.cnt = 0,
                                !.status = IF failed THEN @ + 2 ELSE @]
    BY <1>5 DEF SyserrVerdict, Goto
  <2> HIDE DEF e, failed
  <2>11. /\ LocalTyped(local') /\ local'.status = 0 /\ local'.script = Tail(local.script)
         /\ local'.fail = FALSE /\ local'.cnt = 0
    <3> DEFINE tail == Tail(local.script)
    <3>1. local' = [local EXCEPT !.script = tail, !.fail = FALSE, !.cnt = 0,
                                 !.status = local.status]
      BY <2>9, <2>10
    <3> HIDE DEF tail
    <3>2. /\ LocalTyped(local') /\ local'.status = 0 /\ local'.script = tail
          /\ local'.fail = FALSE /\ local'.cnt = 0
      BY <1>0, <3>1 DEF LocalTyped, LocalFields
    <3> QED
      BY <3>2 DEF tail
  <2>12. ASSUME Tail(local.script) # <<>>
         PROVE  \E m \in 1 .. 8 : \E q \in 1 .. TestLength[m] + 1 : SyserrAt(m, q)'
    <3>1. PICK m \in 1 .. 8 : m = n + 1
      BY <2>4, <2>12
    <3>2. 1 \in 1 .. TestLength[m] + 1
      <4>1. TestLength[m] \in Nat
        BY Starts
      <4> QED
        BY <4>1
    <3>3. OpenAt(m, 1) = {} /\ CntAt(m, 1) = 0
      BY DEF OpenAt, CntAt
    <3>4. SyserrAt(m, 1)'
      BY <2>1, <2>4, <2>8, <2>11, <2>12, <3>1, <3>3, SameOpenSet DEF SyserrAt
    <3> QED
      BY <3>2, <3>4
  <2> QED
    BY <2>1, <2>11, <2>12, NothingCalled DEF Quiet
<1>6. ASSUME SyserrEnd PROVE Good
  <2>1. UNCHANGED vars /\ Stay /\ pc' = "halt" /\ local' = local
    BY <1>6 DEF SyserrEnd, Goto
  <2> QED
    BY <1>0, <2>1, NothingCalled DEF Quiet
<1>7. Good
  BY <1>1, <1>2, <1>4, <1>5, <1>6
<1>8. LineIn' /\ FdsIn' /\ SyserrIn'
  BY <1>0, <1>7, QuietSame DEF Quiet, LineIn, FdsIn, SyserrIn
<1> QED
  BY <1>7, <1>8, QuietBase

-----------------------------------------------------------------------------
(* The invariant holds *)

LEMMA BaseInit == ProgramsInit => Base
<1> SUFFICES ASSUME ProgramsInit
             PROVE  Base
  OBVIOUS
<1>1. Counted
  BY InitCounted DEF ProgramsInit
<1>2. Me = 1 /\ depth[1] = 1 /\ 1 \in 1 .. MaxDepth
  <2>1. depth = [t \in Terminals |-> 1] /\ curr_terminal = 1 /\ 1 \in Terminals
    BY SizesAssumption DEF ProgramsInit, Init, Terminals
  <2> QED
    BY <2>1, SizesAssumption DEF Me
<1>3. pc = "read" /\ local = Locals(NUL) /\ prog[Me] = "shell"
  BY <1>2 DEF ProgramsInit
<1>4. StateTyped
  BY <1>2, <1>3, LocalsTyped DEF ProgramsInit, StateTyped, ProgramNames
<1>5. ArgsIn
  BY <1>2 DEF ProgramsInit, ArgsIn
<1>6. LineIn /\ FdsIn /\ SyserrIn
  BY <1>3 DEF LineIn, FdsIn, SyserrIn
<1> QED
  BY <1>1, <1>4, <1>5, <1>6 DEF Base

LEMMA BaseStep == Base /\ [ProgramsNext]_allVars => Base'
<1> SUFFICES ASSUME Base, [ProgramsNext]_allVars
             PROVE  Base'
  OBVIOUS
<1>1. CASE ShellExecute
  <2>1. CASE depth' = depth
    BY <1>1, <2>1, ShellSteps
  <2>2. CASE depth' # depth
    <3>1. Execute
      BY <1>1, <2>2 DEF ShellExecute, vars
    <3> QED
      BY <1>1, <3>1, ExecuteBase
  <2> QED
    BY <2>1, <2>2
<1>2. CASE Halt
  BY <1>2, HaltBase
<1>3. CASE CatArgs \/ CatOpen \/ CatRead \/ CatWrite
  BY <1>3, CatSteps
<1>4. CASE LsOpen \/ LsRead \/ LsWrite
  BY <1>4, LsSteps
<1>5. CASE HelloAsk \/ HelloAnswer \/ TestPrint
  BY <1>5, HelloSteps
<1>6. CASE GrepArgs \/ GrepOpenDir \/ GrepReadDir \/ GrepOpen \/ GrepReadFile \/ GrepScan
           \/ GrepClose
  BY <1>6, GrepSteps
<1>7. CASE SyserrAsk \/ (\E n \in 0 .. 9 : SyserrChoose(n)) \/ SyserrCall \/ SyserrVerdict
           \/ SyserrEnd
  BY <1>7, SyserrSteps
<1>8. CASE \E line \in Lines : ShellRead(line)
  BY <1>8, ShellSteps
<1>9. CASE UNCHANGED allVars
  <2>1. UNCHANGED vars /\ Stay /\ pc' = pc /\ local' = local /\ out' = out
    BY <1>9 DEF allVars, Stay
  <2>2. Quiet
    BY <2>1, NothingCalled DEF Quiet
  <2>3. LineIn' /\ FdsIn' /\ SyserrIn'
    BY <2>1, <2>2, QuietSame, SameOpenSet
       DEF Base, Quiet, LineIn, FdsIn, SyserrIn, SyserrAt
  <2>4. LocalTyped(local') /\ ((pc' = "halt" /\ prog[Me] # "syserr") \/ local'.status = 0)
    BY <2>1 DEF Base, StateTyped
  <2> QED
    BY <2>2, <2>3, <2>4, QuietBase
<1> QED
  BY <1>1, <1>2, <1>3, <1>4, <1>5, <1>6, <1>7, <1>8, <1>9 DEF ProgramsNext, Step, Typed

LEMMA BaseHolds == ProgramsSpec => []Base
BY BaseInit, BaseStep, PTL DEF ProgramsSpec

\* Every variable of the programs keeps its range.
THEOREM ProgramsTyped == ProgramsSpec => []ProgramsTypeOK
<1>1. Base => ProgramsTypeOK
  <2> SUFFICES ASSUME Base
               PROVE  ProgramsTypeOK
    OBVIOUS
  <2>1. ASSUME NEW d \in 1 .. MaxDepth
        PROVE  DOMAIN args[d] = 1 .. MAX_ARGS
    BY DEF Base, ArgsIn, NoArgs, Overwrite
  <2> QED
    BY <2>1 DEF Base, Counted, StateTyped, LocalTyped, ProgramsTypeOK
<1> QED
  BY <1>1, BaseHolds, PTL

\* What was copied over NULs is found again.
LEMMA FoundAgain ==
  ASSUME NEW s, IsSequence(s), Len(s) <= MAX_ARGS, \A k \in 1 .. Len(s) : s[k] # NUL
  PROVE  UpToNul(Overwrite(NoArgs, s)) = s
<1> DEFINE f    == Overwrite(NoArgs, s)
           n    == Len(s)
           ends == {k \in DOMAIN f : f[k] = NUL}
<1>1. n \in Nat /\ MAX_ARGS \in Nat /\ n <= MAX_ARGS
  BY ProgramSizesAssumption DEF IsSequence
<1>2. /\ DOMAIN f = 1 .. MAX_ARGS /\ f = [k \in 1 .. MAX_ARGS |-> f[k]]
      /\ \A k \in 1 .. MAX_ARGS : f[k] = IF k <= n THEN s[k] ELSE NUL
  BY DEF Overwrite, NoArgs
<1>3. UpToNul(f) = IF ends = {} THEN f ELSE SubSeq(f, 1, Min(ends) - 1)
  BY DEF UpToNul
<1> HIDE DEF f
<1>4. IsSequence(f) /\ Len(f) = MAX_ARGS
  BY <1>1, <1>2, MadeSequence
<1>5. ends = n + 1 .. MAX_ARGS
  BY <1>1, <1>2
<1> HIDE DEF ends
<1>6. CASE n = MAX_ARGS
  <2>1. f = s
    BY <1>1, <1>2, <1>4, <1>6, SameSequence
  <2>2. ends = {}
    BY <1>1, <1>5, <1>6
  <2> QED
    BY <1>3, <2>1, <2>2 DEF f
<1>7. CASE n < MAX_ARGS
  <2>1. n + 1 \in ends /\ \A k \in ends : k \in Int /\ n + 1 <= k
    BY <1>1, <1>5, <1>7
  <2>2. Min(ends) = n + 1
    <3> DEFINE m == Min(ends)
    <3>1. m \in ends /\ \A k \in ends : m <= k
      BY <2>1 DEF Min
    <3> HIDE DEF m
    <3>2. m = n + 1
      BY <1>1, <2>1, <3>1
    <3> QED
      BY <3>2 DEF m
  <2>3. UpToNul(f) = SubSeq(f, 1, n)
    BY <1>1, <1>3, <2>1, <2>2
  <2>4. n \in 0 .. Len(f)
    BY <1>1, <1>4
  <2>5. /\ IsSequence(SubSeq(f, 1, n)) /\ Len(SubSeq(f, 1, n)) = n
        /\ \A k \in 1 .. n : SubSeq(f, 1, n)[k] = f[k]
    BY <1>4, <2>4, Prefix
  <2>6. SubSeq(f, 1, n) = s
    <3> DEFINE r == SubSeq(f, 1, n)
    <3>1. IsSequence(r) /\ Len(r) = n /\ \A k \in 1 .. n : r[k] = f[k]
      BY <2>5
    <3> HIDE DEF r
    <3>2. ASSUME NEW k \in 1 .. n
          PROVE  r[k] = s[k]
      <4>1. k \in 1 .. MAX_ARGS /\ k <= n
        BY <1>1
      <4> QED
        BY <1>2, <3>1, <4>1
    <3> QED
      BY <3>1, <3>2, SameSequence DEF r
  <2> QED
    BY <2>3, <2>6 DEF f
<1> QED
  BY <1>1, <1>6, <1>7

\* getargs finds what was typed after the command, whatever ran in the slot
\* before: execute copies no terminator, and halt clears the field.
LEMMA OwnArgs ==
  ASSUME Base, NEW d \in 2 .. MaxDepth, d <= depth[1]
  PROVE  UpToNul(args[d]) = Arguments(command[d])
<1>1. d \in 1 .. MaxDepth /\ 1 < d
  OBVIOUS
<1>2. command[d] \in Lines /\ args[d] = Overwrite(NoArgs, Arguments(command[d]))
  BY <1>1 DEF Base, ArgsIn
<1> QED
  BY <1>2, LinesAssumption, FoundAgain

THEOREM ArgumentsAreOwn == ProgramsSpec => []ArgsAreOwn
<1>1. Base => ArgsAreOwn
  BY OwnArgs DEF ArgsAreOwn
<1> QED
  BY <1>1, BaseHolds, PTL

\* syserr's tests of the error returns pass, whatever ran before.
THEOREM SyserrTestsPass == ProgramsSpec => []SyserrPasses
<1>1. Base => SyserrPasses
  BY DEF Base, StateTyped, SyserrPasses, At
<1> QED
  BY <1>1, BaseHolds, PTL

-----------------------------------------------------------------------------
(* cat and ls *)

Cell(d, i, k) == d[ByteOf(i, k)[1]][ByteOf(i, k)[2]]
Past(i)       == IF FileLength[i] < BUFSIZE THEN FileLength[i] ELSE BUFSIZE
Lined(n, end) == [k \in 1 .. n |-> Entries[k].name \o end]
Names(n, end) == FlattenSeq(Lined(n, end))

\* What text shows of entry k through descriptor e, when next is the directory's
\* next entry: each name with end after it, the bytes up to f_pos.
Shown(d, e, next, k, end, text) ==
  /\ e.kind = KindOf(Entries[k]).kind /\ IsSequence(text)
  /\ e.kind = "rtc"  => text = <<>>
  /\ e.kind = "dir"  => text = Names(next, end)
  /\ e.kind = "file" =>
       /\ e.inode = Entries[k].inode
       /\ Len(text) = e.f_pos /\ e.f_pos <= FileLength[e.inode] + Past(e.inode)
       /\ \A j \in 1 .. Len(text) : text[j] = Cell(d, e.inode, j - 1)

AllShown(d, k, end, text) ==
  /\ Entries[k].type = 0 => text = <<>>
  /\ Entries[k].type = 1 => text = AllNames(end)
  /\ Entries[k].type = 2 =>
       LET i == Entries[k].inode IN
       /\ IsSequence(text) /\ Len(text) >= FileLength[i]
       /\ \A j \in 1 .. Len(text) :
            text[j] = IF j <= FileLength[i] THEN Cell(d, i, j - 1) ELSE NUL

LEMMA KindIsType ==
  ASSUME NEW k \in 1 .. NumEntries
  PROVE  LET e == KindOf(Entries[k]) IN
         /\ e.kind \in {"rtc", "dir", "file"} /\ e.f_pos = 0
         /\ e.kind = "rtc"  <=> Entries[k].type = 0
         /\ e.kind = "dir"  <=> Entries[k].type = 1
         /\ e.kind = "file" <=> Entries[k].type = 2
         /\ e.kind = "file" => e.inode = Entries[k].inode /\ e.inode \in Inodes
<1>1. Entries[k].type \in {0, 1, 2}
  BY ImageAssumption
<1> QED
  BY <1>1, ImageAssumption DEF KindOf, Fd

LEMMA LinedSequences ==
  ASSUME NEW n \in 0 .. NumEntries, NEW end, IsSequence(end)
  PROVE  /\ Sequences(Lined(n, end)) /\ Len(Lined(n, end)) = n
         /\ \A k \in 1 .. n : Lined(n, end)[k] = Entries[k].name \o end
<1> DEFINE s == Lined(n, end)
<1>1. n \in Nat /\ s = [k \in 1 .. n |-> s[k]] /\ \A k \in 1 .. n : s[k] = Entries[k].name \o end
  BY ImageAssumption DEF Lined
<1> HIDE DEF s
<1>2. IsSequence(s) /\ Len(s) = n
  BY <1>1, MadeSequence
<1>3. ASSUME NEW k \in 1 .. n
      PROVE  IsSequence(s[k])
  <2>1. k \in 1 .. NumEntries
    BY ImageAssumption
  <2>2. IsSequence(Entries[k].name)
    BY <2>1, NamesAssumption
  <2>3. IsSequence(Entries[k].name \o end)
    BY <2>2, Joined
  <2> QED
    BY <1>1, <2>3
<1> QED
  BY <1>1, <1>2, <1>3 DEF Sequences, s

LEMMA NamesNext ==
  ASSUME NEW n \in 0 .. NumEntries, NEW end, IsSequence(end)
  PROVE  /\ IsSequence(Names(n, end))
         /\ Names(0, end) = <<>>
         /\ n < NumEntries =>
              Names(n + 1, end) = Names(n, end) \o (Entries[n + 1].name \o end)
<1>1. IsSequence(Names(n, end))
  BY LinedSequences, FlattenIsSequence DEF Names
<1>2. Names(0, end) = <<>>
  <2>1. Lined(0, end) = <<>>
    BY DEF Lined
  <2> QED
    BY <2>1, EmptySequence DEF Names, FlattenSeq
<1>3. ASSUME n < NumEntries
      PROVE  Names(n + 1, end) = Names(n, end) \o (Entries[n + 1].name \o end)
  <2> DEFINE s == Lined(n, end)
             m == n + 1
             t == Lined(m, end)
             x == Entries[m].name \o end
  <2>1. m \in 0 .. NumEntries /\ m \in 1 .. NumEntries /\ n \in Nat
    BY <1>3, ImageAssumption
  <2>2. Sequences(s) /\ Len(s) = n /\ \A k \in 1 .. n : s[k] = Entries[k].name \o end
    BY LinedSequences
  <2> HIDE DEF m
  <2>3. Sequences(t) /\ Len(t) = m /\ \A k \in 1 .. m : t[k] = Entries[k].name \o end
    BY <2>1, LinedSequences
  <2>4. IsSequence(x)
    <3>1. IsSequence(Entries[m].name)
      BY <2>1, NamesAssumption
    <3> QED
      BY <3>1, Joined
  <2>5. t[m] = x
    <3>1. m \in 1 .. m
      BY <2>1
    <3> QED
      BY <2>3, <3>1
  <2>6. FlattenSeq(s) = Names(n, end) /\ FlattenSeq(t) = Names(m, end)
    BY DEF Names
  <2> HIDE DEF s, t, x
  <2>7. Len(t) = Len(s) + 1 /\ t[Len(t)] = x /\ IsSequence(t)
    BY <2>2, <2>3, <2>5 DEF m, Sequences
  <2>8. \A k \in 1 .. Len(s) : t[k] = s[k]
    <3>1. \A k \in 1 .. n : k \in 1 .. m
      BY <2>1 DEF m
    <3> QED
      BY <2>2, <2>3, <3>1
  <2>9. FlattenSeq(t) = FlattenSeq(s) \o x
    BY <2>2, <2>4, <2>7, <2>8, FlattenOneMore
  <2> QED
    BY <2>6, <2>9 DEF m, x
<1> QED
  BY <1>1, <1>2, <1>3

\* The effect of a read on its descriptor and on the directory's next entry.
LEMMA ReadEffect ==
  ASSUME Counted, NEW fd \in Fds, NEW n \in Nat, CanRead(fd), ReadCall(fd, n)
  PROVE  LET e  == file_array[Displayed][fd]
             e2 == file_array'[Displayed'][fd]
         IN  /\ e2.kind = e.kind /\ e2.inode = e.inode
             /\ e.kind = "file" => e2.f_pos = e.f_pos + Len(ReadData(e.inode, e.f_pos, n))
             /\ e.kind = "dir"  => dir_index' = IF dir_index < NumEntries THEN dir_index + 1
                                                                          ELSE dir_index
<1> DEFINE e == file_array[Displayed][fd]
<1>1. /\ Displayed \in Processes /\ DOMAIN file_array = Processes
      /\ DOMAIN file_array[Displayed] = Fds
      /\ DOMAIN e = {"kind", "inode", "f_pos", "got"}
      /\ dir_index \in 0 .. NumEntries
  BY Lookups DEF Counted, TypeOK
<1>2. Displayed' = Displayed
  BY ReadCalls DEF SameProcess, Displayed
<1>3. PICK p \in Processes : p = Displayed
  BY <1>1
<1>4. CASE FileRead(fd, n)
  <2> DEFINE bytes == ReadData(e.inode, e.f_pos, n)
  <2>1. e.kind = "file" /\ dir_index' = dir_index
    BY <1>4 DEF FileRead
  <2>2. file_array' = [file_array EXCEPT ![p][fd] =
                         [e EXCEPT !.f_pos = @ + Len(bytes), !.got = @ \o bytes]]
    BY <1>3, <1>4 DEF FileRead
  <2> DEFINE e2 == [e EXCEPT !.f_pos = @ + Len(bytes), !.got = @ \o bytes]
  <2>3. file_array'[p][fd] = e2
    BY <1>1, <1>3, <2>2
  <2>4. e2.kind = e.kind /\ e2.inode = e.inode /\ e2.f_pos = e.f_pos + Len(bytes)
    <3> HIDE DEF e, bytes
    <3> QED
      BY <1>1
  <2> QED
    BY <1>2, <1>3, <2>1, <2>3, <2>4
<1>5. CASE DirRead(fd)
  <2>1. e.kind = "dir" /\ dir_index < NumEntries /\ dir_index' = dir_index + 1
    BY <1>5 DEF DirRead
  <2>2. file_array' = [file_array EXCEPT ![p][fd].got = Append(@, dir_index)]
    BY <1>3, <1>5 DEF DirRead
  <2>3. file_array'[p][fd].kind = e.kind /\ file_array'[p][fd].inode = e.inode
    BY <1>1, <1>3, <2>2
  <2> QED
    BY <1>2, <1>3, <2>1, <2>3
<1>6. CASE DirReadEnd(fd)
  <2>1. e.kind = "dir" /\ dir_index >= NumEntries /\ UNCHANGED vars
    BY <1>6 DEF DirReadEnd
  <2>2. ~(dir_index < NumEntries)
    BY <1>1, <2>1, ImageAssumption
  <2> QED
    BY <1>2, <2>1, <2>2 DEF vars
<1>7. CASE e.kind = "rtc" /\ UNCHANGED vars
  BY <1>2, <1>7 DEF vars
<1> QED
  BY <1>4, <1>5, <1>6, <1>7 DEF ReadCall

LEMMA ReadShows ==
  ASSUME Counted, disk \in Disks, NEW fd \in Fds, NEW n \in {BUFSIZE, FILE_NAME_SIZE},
         CanRead(fd), ReadCall(fd, n), NEW k \in 1 .. NumEntries,
         NEW end, IsSequence(end), NEW text,
         (end = <<>> /\ n = BUFSIZE) \/ Entries[k].type # 2,
         Shown(disk, file_array[Displayed][fd], dir_index, k, end, text)
  PROVE  LET got == Delivered(fd, n) IN
         /\ IsSequence(got)
         /\ got # <<>> => Shown(disk, file_array'[Displayed'][fd], dir_index', k, end,
                                text \o (got \o end))
         /\ got = <<>> => AllShown(disk, k, end, text)
<1> DEFINE e   == file_array[Displayed][fd]
           e2  == file_array'[Displayed'][fd]
           got == Delivered(fd, n)
<1>1. n \in Nat /\ n > 0
  BY ProgramSizesAssumption
<1>2. IsSequence(got)
  BY <1>1, DeliversAtMost
<1>3. /\ e2.kind = e.kind /\ e2.inode = e.inode
      /\ e.kind = "file" => e2.f_pos = e.f_pos + Len(ReadData(e.inode, e.f_pos, n))
      /\ e.kind = "dir"  => dir_index' = IF dir_index < NumEntries THEN dir_index + 1
                                                                   ELSE dir_index
  BY <1>1, ReadEffect
<1>4. /\ e.kind = KindOf(Entries[k]).kind /\ IsSequence(text)
      /\ e.kind = "rtc"  => text = <<>>
      /\ e.kind = "dir"  => text = Names(dir_index, end)
      /\ e.kind = "file" =>
           /\ e.inode = Entries[k].inode
           /\ Len(text) = e.f_pos /\ e.f_pos <= FileLength[e.inode] + Past(e.inode)
           /\ \A j \in 1 .. Len(text) : text[j] = Cell(disk, e.inode, j - 1)
  BY DEF Shown
<1>5. dir_index \in 0 .. NumEntries /\ NumEntries \in Nat
      /\ e.f_pos \in Nat
  <2>1. Displayed \in Processes
    BY Lookups DEF Counted
  <2> QED
    BY <2>1, ImageAssumption DEF Counted, TypeOK
<1>6. CASE e.kind = "rtc"
  <2>1. got = <<>> /\ Entries[k].type = 0
    BY <1>4, <1>6, KindIsType DEF Delivered
  <2> QED
    BY <1>2, <1>4, <1>6, <2>1 DEF AllShown
<1>7. CASE e.kind = "dir"
  <2>1. Entries[k].type = 1 /\ text = Names(dir_index, end)
    BY <1>4, <1>7, KindIsType
  <2>2. CASE dir_index < NumEntries
    <3> DEFINE next == dir_index + 1
               name == Entries[next].name
    <3>1. next \in 1 .. NumEntries /\ dir_index' = next
      BY <1>3, <1>5, <1>7, <2>2
    <3>2. IsSequence(name) /\ Len(name) \in 1 .. FILE_NAME_SIZE
      BY <3>1, NamesAssumption
    <3>3. got = SubSeq(name, 1, IF Len(name) < n THEN Len(name) ELSE n)
      <4>1. ~(dir_index >= NumEntries)
        BY <1>5, <2>2
      <4> QED
        BY <1>7, <4>1 DEF Delivered
    <3>4. Names(next, end) = Names(dir_index, end) \o (name \o end)
      BY <1>5, <2>2, NamesNext
    <3>5. next \in 0 .. NumEntries
      BY <3>1
    <3> HIDE DEF name, next
    <3>6. (IF Len(name) < n THEN Len(name) ELSE n) = Len(name) /\ Len(name) \in 0 .. Len(name)
          /\ Len(name) # 0
      BY <3>2, ProgramSizesAssumption
    <3>7. got = name /\ name # <<>>
      BY <3>2, <3>3, <3>6, Prefix, EmptySequence
    <3>8. text \o (got \o end) = Names(dir_index', end)
      BY <2>1, <3>1, <3>4, <3>7
    <3>9. IsSequence(Names(dir_index', end))
      BY <3>1, <3>5, NamesNext
    <3>10. Shown(disk, e2, dir_index', k, end, text \o (got \o end))
      BY <1>3, <1>4, <1>7, <3>8, <3>9 DEF Shown
    <3> QED
      BY <1>2, <3>7, <3>10
  <2>3. CASE ~(dir_index < NumEntries)
    <3>1. dir_index = NumEntries /\ dir_index >= NumEntries
      BY <1>5, <2>3
    <3>2. got = <<>>
      BY <1>7, <3>1 DEF Delivered
    <3>3. text = AllNames(end)
      BY <2>1, <3>1 DEF Names, Lined, AllNames
    <3> QED
      BY <1>2, <2>1, <3>2, <3>3 DEF AllShown
  <2> QED
    BY <2>2, <2>3
<1>8. CASE e.kind = "file"
  <2> DEFINE i == e.inode
             f == e.f_pos
             L == FileLength[i]
             m == IF f > L THEN 0 ELSE IF n < L THEN n ELSE L
             cells == ReadData(i, f, n)
  <2>1. /\ Entries[k].type = 2 /\ i \in Inodes /\ i = Entries[k].inode
        /\ end = <<>> /\ n = BUFSIZE
    BY <1>4, <1>8, KindIsType
  <2>2. L \in Nat /\ f \in Nat
    BY <1>5, <2>1, ImageAssumption
  <2>3. m \in Nat /\ cells = [x \in 1 .. m |-> ByteOf(i, f + x - 1)]
    <3> DEFINE m0 == IF f > FileLength[i] THEN 0
                     ELSE IF n < FileLength[i] THEN n ELSE FileLength[i]
    <3> HIDE DEF i, f
    <3>1. m0 \in Nat /\ ReadData(i, f, n) = [x \in 1 .. m0 |-> ByteOf(i, f + x - 1)]
      <4>1. n \in Nat /\ i \in Inodes /\ f \in Nat
        BY <1>1, <2>1, <2>2
      <4> HIDE DEF L, m, cells
      <4> QED
        BY <4>1, ReadDataReturns
    <3>2. m0 = m
      OBVIOUS
    <3> HIDE DEF m0, m
    <3> QED
      BY <3>1, <3>2
  <2>4. got = [x \in DOMAIN cells |-> disk[cells[x][1]][cells[x][2]]]
    BY <1>8 DEF Delivered
  <2>5. /\ Len(text) = f /\ f <= L + Past(i) /\ IsSequence(text)
        /\ \A j \in 1 .. Len(text) : text[j] = Cell(disk, i, j - 1)
    BY <1>4, <1>8
  <2>6. e2.f_pos = f + Len(cells) /\ e2.kind = "file" /\ e2.inode = i
    BY <1>3, <1>8
  <2>7. Past(i) = IF L < n THEN L ELSE n
    BY <2>1 DEF Past
  <2>71. Past(i) \in Nat
    BY <1>1, <2>2, <2>7
  <2> DEFINE past == Past(i)
  <2> HIDE DEF got, cells
  <2>8. Len(cells) = m /\ DOMAIN cells = 1 .. m
    <3> HIDE DEF m
    <3>1. cells = [x \in 1 .. m |-> cells[x]] /\ DOMAIN cells = 1 .. m
      BY <2>3
    <3> QED
      BY <2>3, <3>1, MadeSequence
  <2>9. Len(got) = m /\ \A x \in 1 .. m : got[x] = Cell(disk, i, f + x - 1)
    <3> HIDE DEF m, i, f
    <3>1. got = [x \in 1 .. m |-> got[x]]
      BY <2>4, <2>8
    <3>2. ASSUME NEW x \in 1 .. m
          PROVE  got[x] = Cell(disk, i, f + x - 1)
      BY <2>3, <2>4, <2>8 DEF Cell
    <3> QED
      BY <2>3, <3>1, <3>2, MadeSequence
  <2>10. ASSUME got # <<>>
         PROVE  Shown(disk, e2, dir_index', k, end, text \o (got \o end))
    <3>1. got \o end = got
      BY <1>2, <2>1, JoinNothing
    <3>2. m # 0
      BY <1>2, <2>9, <2>10, NoElements
    <3>3. m = past /\ f <= L
      BY <1>1, <2>2, <2>7, <3>2
    <3> DEFINE t == text \o got
    <3>4. /\ IsSequence(t) /\ Len(t) = Len(text) + Len(got)
          /\ \A j \in 1 .. Len(text) : t[j] = text[j]
          /\ \A j \in Len(text) + 1 .. Len(text) + Len(got) : t[j] = got[j - Len(text)]
      BY <1>2, <2>5, Joined
    <3> HIDE DEF t, i, f, L, m, past, e2
    <3>5. IsSequence(t) /\ Len(t) = f + m
      BY <2>5, <2>9, <3>4
    <3>6. ASSUME NEW j \in 1 .. f + m
          PROVE  t[j] = Cell(disk, i, j - 1)
      <4>1. CASE j \in 1 .. f
        BY <2>5, <3>4, <4>1
      <4>2. CASE j \in f + 1 .. f + m
        <5>1. j - f \in 1 .. m /\ f + (j - f) - 1 = j - 1
          BY <2>2, <2>3, <4>2
        <5>2. t[j] = got[j - f]
          BY <2>5, <2>9, <3>4, <4>2
        <5> QED
          BY <2>9, <5>1, <5>2
      <4>3. j \in 1 .. f \/ j \in f + 1 .. f + m
        BY <2>2, <2>3
      <4> QED
        BY <4>1, <4>2, <4>3
    <3>7. e2.f_pos = f + m /\ f + m <= L + past
      BY <2>2, <2>3, <2>6, <2>8, <3>3
    <3>8. Shown(disk, e2, dir_index', k, end, t)
      <4>1. e2.kind = "file" /\ e2.kind = KindOf(Entries[k]).kind
        BY <1>4, <1>8, <2>6
      <4> QED
        BY <2>1, <2>6, <3>5, <3>6, <3>7, <4>1 DEF Shown, L, past
    <3> QED
      BY <3>1, <3>8 DEF t
  <2>11. ASSUME got = <<>>
         PROVE  AllShown(disk, k, end, text)
    <3>1. m = 0
      BY <2>9, <2>11, EmptySequence
    <3>2. f >= L /\ f <= L + past
      BY <1>1, <2>2, <2>5, <3>1
    <3>3. ASSUME NEW j \in 1 .. f
          PROVE  text[j] = IF j <= L THEN Cell(disk, i, j - 1) ELSE NUL
      <4>1. text[j] = Cell(disk, i, j - 1)
        BY <2>5
      <4>2. CASE ~(j <= L)
        <5> HIDE DEF m
        <5>1. j - 1 \in L .. L + Past(i) - 1
          <6> HIDE DEF L, f
          <6> QED
            BY <2>2, <2>71, <3>2, <4>2
        <5>2. Cell(disk, i, j - 1) = NUL
          BY <2>1, <5>1, PaddingAssumption DEF Cell, Past
        <5> QED
          BY <4>1, <4>2, <5>2
      <4> QED
        BY <4>1, <4>2
    <3> HIDE DEF m, f
    <3> QED
      BY <2>1, <2>5, <3>2, <3>3 DEF AllShown
  <2> QED
    BY <1>2, <2>10, <2>11 DEF got
<1> QED
  BY <1>4, <1>6, <1>7, <1>8, KindIsType

LEMMA OpenShows ==
  ASSUME Counted, NEW name, CanOpen(name), OpenCall(name), NEW end, IsSequence(end)
  PROVE  \E k \in Lookup(name) :
           Shown(disk, file_array'[Displayed'][LowestFree], dir_index', k, end, <<>>)
<1>1. PICK k \in Lookup(name) : OpenFile(k)
  BY DEF OpenCall
<1>2. k \in 1 .. NumEntries
  BY LookupEntries
<1>3. /\ LowestFree \in Fds \ Open(Displayed) /\ Displayed \in Processes
      /\ file_array' = [file_array EXCEPT ![Displayed][LowestFree] = KindOf(Entries[k])]
      /\ dir_index' = DirOpen(KindOf(Entries[k]).kind)
  BY <1>1, <1>2, OpensLowest
<1>4. Displayed' = Displayed
  BY OpenCalls DEF SameProcess, Displayed
<1>5. PICK p \in Processes : p = Displayed
  BY <1>3
<1>6. PICK low \in Fds : low = LowestFree
  BY <1>3
<1>7. file_array'[p][low] = KindOf(Entries[k])
  <2>1. DOMAIN file_array = Processes /\ DOMAIN file_array[p] = Fds
    BY DEF Counted, TypeOK
  <2>2. file_array' = [file_array EXCEPT ![p][low] = KindOf(Entries[k])]
    BY <1>3, <1>5, <1>6
  <2> QED
    BY <2>1, <2>2
<1> DEFINE e == KindOf(Entries[k])
<1>8. /\ e.kind \in {"rtc", "dir", "file"} /\ e.f_pos = 0
      /\ e.kind = "file" => e.inode = Entries[k].inode /\ e.inode \in Inodes
  BY <1>2, KindIsType
<1>9. e.kind = "dir" => dir_index' = 0
  BY <1>3 DEF DirOpen
<1>10. Names(0, end) = <<>>
  <2>1. 0 \in 0 .. NumEntries
    BY ImageAssumption
  <2> QED
    BY <2>1, NamesNext
<1>11. e.kind = "file" => FileLength[e.inode] + Past(e.inode) \in Nat
  BY <1>8, ImageAssumption, ProgramSizesAssumption DEF Past
<1>12. Shown(disk, e, dir_index', k, end, <<>>)
  <2> HIDE DEF e
  <2>1. e.kind = KindOf(Entries[k]).kind
    BY DEF e
  <2>2. \A x \in Nat : 0 <= x
    OBVIOUS
  <2> QED
    BY <1>8, <1>9, <1>10, <1>11, <2>1, <2>2, EmptySequence DEF Shown
<1> QED
  BY <1>4, <1>5, <1>6, <1>7, <1>12

LEMMA SaidMore ==
  ASSUME NEW s, NEW x, Sequences(s), IsSequence(x)
  PROVE  Sequences(Append(s, x)) /\ FlattenSeq(Append(s, x)) = FlattenSeq(s) \o x
<1> DEFINE t == Append(s, x)
           n == Len(s)
<1>1. /\ IsSequence(t) /\ Len(t) = n + 1 /\ \A k \in 1 .. n : t[k] = s[k]
      /\ t[n + 1] = x /\ n \in Nat
  BY AppendSequence DEF Sequences, IsSequence
<1> HIDE DEF t, n
<1>2. ASSUME NEW k \in 1 .. n + 1
      PROVE  IsSequence(t[k])
  <2>1. k \in 1 .. n \/ k = n + 1
    BY <1>1
  <2> QED
    BY <1>1, <2>1 DEF Sequences, n
<1>3. FlattenSeq(t) = FlattenSeq(s) \o x
  BY <1>1, FlattenOneMore DEF n
<1> QED
  BY <1>1, <1>2, <1>3 DEF Sequences, t

LEMMA NothingSaid == Sequences(<<>>) /\ FlattenSeq(<<>>) = <<>>
BY EmptySequence DEF Sequences, FlattenSeq

\* What cat and ls have written, and what lies in buf, belongs to an entry that
\* was asked for.
Wanted     == IF prog[Me] = "cat" THEN Lookup(Arguments(command[Me])) ELSE Lookup(Dot)
Ending     == IF prog[Me] = "cat" THEN <<>> ELSE <<NL>>
Here(text) == \E k \in Wanted : Shown(disk, file_array[Displayed][local.fd], dir_index, k,
                                      Ending, text)
ShowIn ==
  prog[Me] \in {"cat", "ls"} =>
    /\ pc \in {"main", "open"} => out = <<>>
    /\ pc = "open" => prog[Me] = "cat" /\ local.buf = Arguments(command[Me])
    /\ pc = "loop" => Sequences(out) /\ Here(FlattenSeq(out))
    /\ pc = "write" =>
         Sequences(out) /\ IsSequence(local.buf) /\ Here(FlattenSeq(out) \o local.buf)
    /\ pc = "halt" /\ local.status = 0 =>
         \E k \in Wanted : AllShown(disk, k, Ending, FlattenSeq(out))

LEMMA WantedEntries ==
  /\ IsSequence(Ending)
  /\ \A k \in Wanted : k \in 1 .. NumEntries
  /\ prog[Me] # "cat" => \A k \in Wanted : Entries[k].type = 1
<1>1. IsSequence(<<NL>>)
  <2>1. <<NL>> \in Seq({NL})
    OBVIOUS
  <2> QED
    BY <2>1, SeqIsSequence
<1> QED
  BY <1>1, EmptySequence, LookupEntries, DotListed DEF Wanted, Ending

LEMMA WantedSame ==
  ASSUME Quiet
  PROVE  Wanted' = Wanted /\ Ending' = Ending /\ disk' = disk /\ Displayed' = Displayed
         /\ prog'[Me'] = prog[Me] /\ command'[Me'] = command[Me]
BY QuietSame DEF Quiet, Wanted, Ending, Stay

LEMMA SyserrSame ==
  ASSUME SyserrCall
  PROVE  Stay /\ SameProcess
<1>1. Stay /\ Called(Head(local.script))
  BY DEF SyserrCall, Called
<1> DEFINE e == Head(local.script)
<1>2. CASE ReadCall(e.arg, 31)
  BY <1>1, <1>2, Zenon DEF ReadCall, FileRead, DirRead, DirReadEnd, schedVars, vars, SameProcess
<1>3. CASE CloseCall(e.arg)
  BY <1>1, <1>3, CloseCalls
<1>4. CASE OpenCall(e.arg)
  BY <1>1, <1>4, OpenCalls
<1>5. CASE UNCHANGED vars
  BY <1>1, <1>5, NothingCalled
<1> QED
  BY <1>1, <1>2, <1>3, <1>4, <1>5 DEF Called

\* The steps of the programs that are neither cat nor ls.
LEMMA OtherSteps ==
  ASSUME Base, \/ Halt \/ ShellExecute \/ \E line \in Lines : ShellRead(line)
               \/ HelloAsk \/ HelloAnswer \/ TestPrint
               \/ GrepArgs \/ GrepOpenDir \/ GrepReadDir \/ GrepOpen \/ GrepReadFile
               \/ GrepScan \/ GrepClose
               \/ SyserrAsk \/ (\E n \in 0 .. 9 : SyserrChoose(n)) \/ SyserrCall
               \/ SyserrVerdict \/ SyserrEnd
  PROVE  ShowIn'
<1>1. CASE Halt
  BY <1>1 DEF Halt, Goto, ShowIn
<1>2. CASE ShellExecute
  <2>1. CASE Me = MaxDepth \/ Executable(local.buf.word) = {}
    BY <1>2, <2>1 DEF ShellExecute, Goto, ShowIn
  <2>2. CASE ~(Me = MaxDepth \/ Executable(local.buf.word) = {})
    <3>1. out = <<>>
      BY <1>2 DEF Base, LineIn, ShellExecute, At
    <3> QED
      BY <1>2, <2>2, <3>1 DEF ShellExecute, Goto, ShowIn
  <2> QED
    BY <2>1, <2>2
<1>3. ASSUME prog[Me] \notin {"cat", "ls"}, Stay, SameProcess
      PROVE  ShowIn'
  BY <1>3, QuietSame DEF ShowIn
<1>4. CASE \E line \in Lines : ShellRead(line)
  BY <1>3, <1>4, NothingCalled DEF ShellRead, At
<1>5. CASE HelloAsk \/ HelloAnswer \/ TestPrint
  BY <1>3, <1>5, NothingCalled DEF HelloAsk, HelloAnswer, TestPrint, At
<1>6. CASE GrepArgs \/ GrepOpenDir \/ GrepReadDir \/ GrepOpen \/ GrepReadFile \/ GrepScan
           \/ GrepClose
  <2>1. prog[Me] = "grep"
    BY <1>6, Zenon DEF GrepArgs, GrepOpenDir, GrepReadDir, GrepOpen, GrepReadFile, GrepScan,
                GrepClose, At
  <2> QED
    BY <1>3, <1>6, <2>1, GrepQuiet DEF Quiet
<1>7. CASE SyserrAsk \/ (\E n \in 0 .. 9 : SyserrChoose(n)) \/ SyserrVerdict \/ SyserrEnd
  BY <1>3, <1>7, NothingCalled DEF SyserrAsk, SyserrChoose, SyserrVerdict, SyserrEnd, At
<1>8. CASE SyserrCall
  BY <1>3, <1>8, SyserrSame DEF SyserrCall, At
<1> QED
  BY <1>1, <1>2, <1>4, <1>5, <1>6, <1>7, <1>8

\* A read that gets something leaves it in buf, with the ending.
LEMMA ReadsNext ==
  ASSUME Base, ShowIn, Quiet, prog[Me] \in {"cat", "ls"}, pc = "loop",
         NEW n, n = IF prog[Me] = "cat" THEN BUFSIZE ELSE FILE_NAME_SIZE,
         ReadCall(local.fd, n), CanRead(local.fd), UNCHANGED out,
         LET got == Delivered(local.fd, n) IN
           IF got = <<>> THEN pc' = "halt"
           ELSE pc' = "write" /\ local' = [local EXCEPT !.buf = got \o Ending]
  PROVE  ShowIn'
<1>0. /\ Counted /\ disk \in Disks /\ local.fd \in Fds /\ n \in {BUFSIZE, FILE_NAME_SIZE}
      /\ Sequences(out)
  BY DEF Base, StateTyped, FdsIn, ShowIn
<1>1. PICK k \in Wanted : Shown(disk, file_array[Displayed][local.fd], dir_index, k, Ending,
                                FlattenSeq(out))
  BY DEF ShowIn, Here
<1>2. k \in 1 .. NumEntries /\ IsSequence(Ending)
      /\ (prog[Me] # "cat" => Entries[k].type = 1)
  BY WantedEntries
<1>3. (Ending = <<>> /\ n = BUFSIZE) \/ Entries[k].type # 2
  BY <1>2 DEF Ending
<1>4. PICK text : text = FlattenSeq(out)
  OBVIOUS
<1>5. PICK got : got = Delivered(local.fd, n)
  OBVIOUS
<1>6. PICK end : end = Ending
  OBVIOUS
<1>7. PICK fd \in Fds : fd = local.fd
  BY <1>0
<1>8. /\ IsSequence(got)
      /\ got # <<>> => Shown(disk, file_array'[Displayed'][fd], dir_index', k, end,
                             text \o (got \o end))
      /\ got = <<>> => AllShown(disk, k, end, text)
  BY <1>0, <1>1, <1>2, <1>3, <1>4, <1>5, <1>6, <1>7, ReadShows
<1>9. /\ Wanted' = Wanted /\ Ending' = end /\ disk' = disk /\ prog'[Me'] = prog[Me]
  BY <1>6, WantedSame
<1>10. FlattenSeq(out') = text
  BY <1>4
<1>11. CASE got = <<>>
  BY <1>5, <1>8, <1>9, <1>10, <1>11 DEF ShowIn
<1>12. CASE got # <<>>
  <2>1. pc' = "write" /\ local' = [local EXCEPT !.buf = got \o end]
    BY <1>5, <1>6, <1>12
  <2>2. local'.fd = fd /\ local'.buf = got \o end
    BY <1>7, <2>1 DEF Base, StateTyped, LocalTyped, LocalFields
  <2>3. IsSequence(got \o end)
    BY <1>2, <1>6, <1>8, Joined
  <2>4. Here(FlattenSeq(out) \o local.buf)'
    BY <1>8, <1>9, <1>10, <1>12, <2>2 DEF Here
  <2> QED
    BY <1>0, <2>1, <2>2, <2>3, <2>4 DEF ShowIn
<1> QED
  BY <1>11, <1>12

\* What lies in buf is written.
LEMMA WritesIt ==
  ASSUME Base, ShowIn, Quiet, prog[Me] \in {"cat", "ls"}, pc = "write", UNCHANGED vars,
         pc' = "loop", local' = local, out' = Append(out, local.buf)
  PROVE  ShowIn'
<1>1. Sequences(out) /\ IsSequence(local.buf) /\ Here(FlattenSeq(out) \o local.buf)
  BY DEF ShowIn
<1>2. Sequences(out') /\ FlattenSeq(out') = FlattenSeq(out) \o local.buf
  BY <1>1, SaidMore
<1>3. PICK k \in Wanted : Shown(disk, file_array[Displayed][local.fd], dir_index, k, Ending,
                                FlattenSeq(out) \o local.buf)
  BY <1>1 DEF Here
<1>4. /\ Wanted' = Wanted /\ Ending' = Ending /\ disk' = disk /\ Displayed' = Displayed
      /\ file_array' = file_array /\ dir_index' = dir_index
  BY WantedSame DEF vars
<1>5. Here(FlattenSeq(out))'
  BY <1>2, <1>3, <1>4 DEF Here
<1> QED
  BY <1>2, <1>5 DEF ShowIn

\* A directory entry opened.
LEMMA OpensIt ==
  ASSUME Base, ShowIn, Quiet, prog[Me] \in {"cat", "ls"}, pc \in {"main", "open"},
         NEW name, Lookup(name) = Wanted, CanOpen(name), OpenCall(name), UNCHANGED out,
         pc' = "loop", local' = [local EXCEPT !.fd = LowestFree]
  PROVE  ShowIn'
<1>1. out' = <<>> /\ Sequences(out') /\ FlattenSeq(out') = <<>>
  BY NothingSaid DEF ShowIn
<1>2. PICK end : end = Ending /\ IsSequence(end)
  BY WantedEntries
<1>3. PICK low : low = LowestFree
  OBVIOUS
<1>4. local'.fd = low
  BY <1>3 DEF Base, StateTyped, LocalTyped, LocalFields
<1>5. PICK k \in Lookup(name) :
        Shown(disk, file_array'[Displayed'][low], dir_index', k, end, <<>>)
  BY <1>2, <1>3, OpenShows DEF Base
<1>6. Wanted' = Wanted /\ Ending' = end /\ disk' = disk
  BY <1>2, WantedSame
<1>7. Here(FlattenSeq(out))'
  BY <1>1, <1>4, <1>5, <1>6 DEF Here
<1> QED
  BY <1>1, <1>7 DEF ShowIn

LEMMA CatShows ==
  ASSUME Base, ShowIn, CatArgs \/ CatOpen \/ CatRead \/ CatWrite
  PROVE  ShowIn'
<1>0. Quiet /\ prog[Me] = "cat" /\ prog'[Me'] = "cat" /\ LocalTyped(local)
      /\ command'[Me'] = command[Me]
  <2>1. prog[Me] = "cat" /\ LocalTyped(local)
    BY DEF CatArgs, CatOpen, CatRead, CatWrite, At, Base, StateTyped
  <2> QED
    BY <2>1, CatQuiet, WantedSame
\* A program that failed has shown nothing.
<1>1. ASSUME NEW s \in {2, 3}, Return(s) \/ \E message : Fail(message, s)
      PROVE  ShowIn'
  <2>1. pc' = "halt" /\ local' = [local EXCEPT !.status = s]
    BY <1>1 DEF Return, Fail, Goto
  <2>2. local'.status = s /\ s # 0
    BY <1>0, <2>1 DEF LocalTyped, LocalFields
  <2> QED
    BY <2>1, <2>2 DEF ShowIn
<1>2. CASE CatArgs
  <2>1. pc = "main"
    BY <1>2 DEF CatArgs, At
  <2>2. CASE ArgsFit(BUFSIZE)
    <3>1. pc' = "open" /\ local' = [local EXCEPT !.buf = GetArgs] /\ out' = out
      BY <1>2, <2>2 DEF CatArgs, Goto
    <3>2. out = <<>>
      BY <1>0, <2>1 DEF ShowIn
    <3>3. Me \in 2 .. MaxDepth /\ Me <= depth[1]
      <4>1. Me = depth[1] /\ Me \in 1 .. MaxDepth /\ MaxDepth \in Nat
        BY OneTerminal, SizesAssumption DEF Base, Counted
      <4>2. Me # 1
        BY <1>0 DEF Base, StateTyped
      <4> QED
        BY <4>1, <4>2
    <3>4. GetArgs = Arguments(command[Me])
      BY <3>3, OwnArgs DEF GetArgs
    <3>5. local'.buf = Arguments(command[Me])
      BY <1>0, <3>1, <3>4 DEF LocalTyped, LocalFields
    <3> QED
      BY <1>0, <3>1, <3>2, <3>5 DEF ShowIn
  <2>3. CASE ~ArgsFit(BUFSIZE)
    BY <1>1, <1>2, <2>3 DEF CatArgs
  <2> QED
    BY <2>2, <2>3
<1>3. CASE CatOpen
  <2>1. pc = "open" /\ OpenCall(local.buf)
    BY <1>3 DEF CatOpen, At
  <2>2. Lookup(local.buf) = Wanted
    BY <1>0, <2>1 DEF ShowIn, Wanted
  <2>3. CASE CanOpen(local.buf)
    BY <1>0, <1>3, <2>1, <2>2, <2>3, OpensIt DEF CatOpen, Goto
  <2>4. CASE ~CanOpen(local.buf)
    BY <1>1, <1>3, <2>4 DEF CatOpen
  <2> QED
    BY <2>3, <2>4
<1>4. CASE CatRead
  <2>1. pc = "loop" /\ ReadCall(local.fd, BUFSIZE)
    BY <1>4 DEF CatRead, At
  <2>2. CASE CanRead(local.fd)
    <3> DEFINE got == Delivered(local.fd, BUFSIZE)
    <3>1. /\ UNCHANGED out
          /\ IF got = <<>> THEN pc' = "halt"
             ELSE pc' = "write" /\ local' = [local EXCEPT !.buf = got]
      BY <1>4, <2>2 DEF CatRead, Return, Goto
    <3>2. got \o Ending = got
      <4>1. local.fd \in Fds /\ BUFSIZE \in Nat
        BY <1>0, <2>1, ProgramSizesAssumption DEF Base, FdsIn
      <4>2. IsSequence(got)
        BY <4>1, DeliversAtMost DEF Base
      <4> QED
        BY <1>0, <4>2, JoinNothing DEF Ending
    <3> QED
      BY <1>0, <2>1, <2>2, <3>1, <3>2, ReadsNext
  <2>3. CASE ~CanRead(local.fd)
    BY <1>1, <1>4, <2>3 DEF CatRead
  <2> QED
    BY <2>2, <2>3
<1>5. CASE CatWrite
  <2>1. pc = "write" /\ UNCHANGED vars
    BY <1>5 DEF CatWrite, At
  <2>2. CASE CanWrite(1)
    BY <1>0, <1>5, <2>1, <2>2, WritesIt DEF CatWrite, Say, Goto
  <2>3. CASE ~CanWrite(1)
    BY <1>1, <1>5, <2>3 DEF CatWrite
  <2> QED
    BY <2>2, <2>3
<1> QED
  BY <1>2, <1>3, <1>4, <1>5

LEMMA LsShows ==
  ASSUME Base, ShowIn, LsOpen \/ LsRead \/ LsWrite
  PROVE  ShowIn'
<1>0. Quiet /\ prog[Me] = "ls" /\ prog'[Me'] = "ls" /\ LocalTyped(local)
  <2>1. prog[Me] = "ls" /\ LocalTyped(local)
    BY DEF LsOpen, LsRead, LsWrite, At, Base, StateTyped
  <2> QED
    BY <2>1, LsQuiet, WantedSame
<1>1. ASSUME NEW s \in {2, 3}, Return(s) \/ \E message : Fail(message, s)
      PROVE  ShowIn'
  <2>1. pc' = "halt" /\ local' = [local EXCEPT !.status = s]
    BY <1>1 DEF Return, Fail, Goto
  <2>2. local'.status = s /\ s # 0
    BY <1>0, <2>1 DEF LocalTyped, LocalFields
  <2> QED
    BY <2>1, <2>2 DEF ShowIn
<1>2. CASE LsOpen
  <2>1. pc = "main" /\ OpenCall(Dot)
    BY <1>2 DEF LsOpen, At
  <2>2. Lookup(Dot) = Wanted
    BY <1>0 DEF Wanted
  <2>3. CASE CanOpen(Dot)
    BY <1>0, <1>2, <2>1, <2>2, <2>3, OpensIt DEF LsOpen, Goto
  <2>4. CASE ~CanOpen(Dot)
    BY <1>1, <1>2, <2>4 DEF LsOpen
  <2> QED
    BY <2>3, <2>4
<1>3. CASE LsRead
  <2>1. pc = "loop" /\ ReadCall(local.fd, FILE_NAME_SIZE)
    BY <1>3 DEF LsRead, At
  <2>2. CASE CanRead(local.fd)
    <3> DEFINE got == Delivered(local.fd, FILE_NAME_SIZE)
    <3>1. /\ UNCHANGED out
          /\ IF got = <<>> THEN pc' = "halt"
             ELSE pc' = "write" /\ local' = [local EXCEPT !.buf = Append(got, NL)]
      BY <1>3, <2>2 DEF LsRead, Return, Goto
    <3>2. Append(got, NL) = got \o Ending
      <4>1. local.fd \in Fds /\ FILE_NAME_SIZE \in Nat
        BY <1>0, <2>1, ProgramSizesAssumption DEF Base, FdsIn
      <4>2. IsSequence(got)
        BY <4>1, DeliversAtMost DEF Base
      <4> HIDE DEF got
      <4>3. Append(got, NL) = got \o <<NL>>
        BY <4>2, OneMore
      <4> QED
        BY <1>0, <4>3 DEF Ending
    <3> QED
      BY <1>0, <2>1, <2>2, <3>1, <3>2, ReadsNext
  <2>3. CASE ~CanRead(local.fd)
    BY <1>1, <1>3, <2>3 DEF LsRead
  <2> QED
    BY <2>2, <2>3
<1>4. CASE LsWrite
  <2>1. pc = "write" /\ UNCHANGED vars
    BY <1>4 DEF LsWrite, At
  <2>2. CASE CanWrite(1)
    BY <1>0, <1>4, <2>1, <2>2, WritesIt DEF LsWrite, Say, Goto
  <2>3. CASE ~CanWrite(1)
    BY <1>1, <1>4, <2>3 DEF LsWrite
  <2> QED
    BY <2>2, <2>3
<1> QED
  BY <1>2, <1>3, <1>4

LEMMA ShowInit == ProgramsInit => ShowIn
<1> SUFFICES ASSUME ProgramsInit
             PROVE  ShowIn
  OBVIOUS
<1>1. pc = "read"
  BY DEF ProgramsInit
<1> QED
  BY <1>1 DEF ShowIn

LEMMA ShowStep == Base /\ ShowIn /\ [ProgramsNext]_allVars => ShowIn'
<1> SUFFICES ASSUME Base, ShowIn, [ProgramsNext]_allVars
             PROVE  ShowIn'
  OBVIOUS
<1>1. CASE CatArgs \/ CatOpen \/ CatRead \/ CatWrite
  BY <1>1, CatShows
<1>2. CASE LsOpen \/ LsRead \/ LsWrite
  BY <1>2, LsShows
<1>3. CASE \/ Halt \/ ShellExecute \/ \E line \in Lines : ShellRead(line)
           \/ HelloAsk \/ HelloAnswer \/ TestPrint
           \/ GrepArgs \/ GrepOpenDir \/ GrepReadDir \/ GrepOpen \/ GrepReadFile
           \/ GrepScan \/ GrepClose
           \/ SyserrAsk \/ (\E n \in 0 .. 9 : SyserrChoose(n)) \/ SyserrCall
           \/ SyserrVerdict \/ SyserrEnd
  BY <1>3, OtherSteps
<1>4. CASE UNCHANGED allVars
  BY <1>4 DEF allVars, vars, ShowIn, Here, Wanted, Ending, Me, Displayed
<1> QED
  BY <1>1, <1>2, <1>3, <1>4 DEF ProgramsNext, Step, Typed

LEMMA ShowHolds == ProgramsSpec => [](Base /\ ShowIn)
BY BaseInit, BaseStep, ShowInit, ShowStep, PTL DEF ProgramsSpec

\* cat has written the bytes of the file, once and in order, and NULs, or the
\* names of the directory, and ls every name on a line of its own, whatever the
\* lengths of files, buffers and names.
THEOREM CatAndLsShow == ProgramsSpec => []CatShowsFile
<1>1. ASSUME Base, ShowIn
      PROVE  CatShowsFile
  <2>1. ASSUME Finished("cat")
        PROVE  \E k \in Lookup(Arguments(command[Me])) :
                 CASE Entries[k].type = 0 -> FlattenSeq(out) = <<>>
                   [] Entries[k].type = 1 -> FlattenSeq(out) = AllNames(<<>>)
                   [] Entries[k].type = 2 -> ShowsFile(Entries[k].inode, FlattenSeq(out))
    <3>1. prog[Me] = "cat"
      BY <2>1 DEF Finished, At
    <3>2. PICK k \in Lookup(Arguments(command[Me])) :
            AllShown(disk, k, <<>>, FlattenSeq(out))
      BY <1>1, <2>1, <3>1 DEF Finished, At, ShowIn, Wanted, Ending
    <3>3. Entries[k].type \in {0, 1, 2} /\ k \in 1 .. NumEntries
      BY LookupEntries
    <3>4. PICK text : text = FlattenSeq(out)
      OBVIOUS
    <3>5. ASSUME Entries[k].type = 2
          PROVE  ShowsFile(Entries[k].inode, text)
      <4> DEFINE i == Entries[k].inode
      <4>1. /\ IsSequence(text) /\ Len(text) >= FileLength[i]
            /\ \A j \in 1 .. Len(text) :
                 text[j] = IF j <= FileLength[i] THEN Cell(disk, i, j - 1) ELSE NUL
        BY <3>2, <3>4, <3>5 DEF AllShown
      <4>2. FileLength[i] \in Nat
        BY <3>3, <3>5, ImageAssumption
      <4> HIDE DEF i
      <4>3. ASSUME NEW j \in 1 .. Len(text), j <= FileLength[i]
            PROVE  FileBytes(i)[j] = Cell(disk, i, j - 1)
        <5>1. j \in 1 .. FileLength[i]
          BY <4>2, <4>3
        <5> QED
          BY <5>1 DEF FileBytes, Cell
      <4> QED
        BY <4>1, <4>3 DEF ShowsFile, i
    <3> QED
      BY <3>2, <3>3, <3>4, <3>5 DEF AllShown
  <2>2. ASSUME Finished("ls")
        PROVE  FlattenSeq(out) = AllNames(<<NL>>)
    <3>1. prog[Me] = "ls"
      BY <2>2 DEF Finished, At
    <3>2. PICK k \in Wanted : AllShown(disk, k, <<NL>>, FlattenSeq(out))
      BY <1>1, <2>2, <3>1 DEF Finished, At, ShowIn, Ending
    <3>3. Entries[k].type = 1
      BY <3>1, WantedEntries
    <3> QED
      BY <3>2, <3>3 DEF AllShown
  <2> QED
    BY <2>1, <2>2 DEF CatShowsFile
<1> QED
  BY <1>1, ShowHolds, PTL

-----------------------------------------------------------------------------
(* Sets of numbers in ascending order *)

Ordered(w, S, n) ==
  /\ w \in [1 .. n -> S]
  /\ \A i, j \in 1 .. n : i < j => w[i] < w[j]
  /\ \A x \in S : \E i \in 1 .. n : w[i] = x

LEMMA OrderCounts ==
  ASSUME NEW n \in Nat, NEW S \in SUBSET Nat, NEW w, Ordered(w, S, n)
  PROVE  Cardinality(S) = n
<1>1. w \in [1 .. n -> S]
  BY DEF Ordered
<1>2. ASSUME NEW i \in 1 .. n, NEW j \in 1 .. n, i # j
      PROVE  w[i] # w[j]
  <2>1. i < j \/ j < i
    BY <1>2
  <2>2. w[i] \in Nat /\ w[j] \in Nat
    BY <1>1
  <2>3. w[i] < w[j] \/ w[j] < w[i]
    BY <2>1 DEF Ordered
  <2> QED
    BY <2>2, <2>3
<1>3. w \in Bijection(1 .. n, S)
  BY <1>1, <1>2 DEF Ordered, Bijection, Injection, IsInjective, Surjection
<1>4. ExistsBijection(1 .. n, S)
  BY <1>3 DEF ExistsBijection
<1> QED
  BY <1>4, FS_CountingElements

\* Nothing else is the ascending order.
LEMMA OrderUnique ==
  ASSUME NEW n \in Nat, NEW S \in SUBSET Nat, NEW w, Ordered(w, S, n), NEW v, Ordered(v, S, n)
  PROVE  w = v
<1>1. w \in [1 .. n -> S] /\ v \in [1 .. n -> S]
  BY DEF Ordered
<1> DEFINE T == {i \in 1 .. n : w[i] # v[i]}
<1>2. ASSUME T # {}
      PROVE  FALSE
  <2>1. PICK i \in T : \A k \in T : i <= k
    <3>1. T \subseteq Nat
      OBVIOUS
    <3> HIDE DEF T
    <3> QED
      BY <1>2, <3>1, LeastNumber
  <2>2. i \in 1 .. n /\ w[i] # v[i] /\ w[i] \in Nat /\ v[i] \in Nat
    BY <1>1, <2>1
  <2>3. ASSUME NEW k \in 1 .. n, k < i
        PROVE  w[k] = v[k]
    <3>1. k \notin T
      BY <2>1, <2>2, <2>3
    <3> QED
      BY <3>1
  <2> HIDE DEF T
  <2>4. PICK j \in 1 .. n : w[j] = v[i]
    BY <1>1, <2>2 DEF Ordered
  <2>5. PICK k \in 1 .. n : v[k] = w[i]
    BY <1>1, <2>2 DEF Ordered
  <2>6. j > i
    <3>1. ASSUME j < i
          PROVE  FALSE
      <4>1. v[j] = v[i] /\ v[j] < v[i]
        BY <2>2, <2>3, <2>4, <3>1 DEF Ordered
      <4> QED
        BY <2>2, <4>1
    <3> QED
      BY <2>2, <2>4, <3>1
  <2>7. k > i
    <3>1. ASSUME k < i
          PROVE  FALSE
      <4>1. w[k] = w[i] /\ w[k] < w[i]
        BY <2>2, <2>3, <2>5, <3>1 DEF Ordered
      <4> QED
        BY <2>2, <4>1
    <3> QED
      BY <2>2, <2>5, <3>1
  <2>8. w[i] < w[j] /\ v[i] < v[k]
    BY <2>2, <2>6, <2>7 DEF Ordered
  <2> QED
    BY <2>2, <2>4, <2>5, <2>8
<1>3. \A i \in 1 .. n : w[i] = v[i]
  BY <1>2
<1> QED
  BY <1>1, <1>3

LEMMA InOrderIs ==
  ASSUME NEW n \in Nat, NEW S \in SUBSET Nat, NEW w, Ordered(w, S, n)
  PROVE  InOrder(S) = w
<1>1. Cardinality(S) = n
  BY OrderCounts
<1> DEFINE v == InOrder(S)
<1>2. v = CHOOSE order \in [1 .. n -> S] :
            /\ \A i, j \in 1 .. n : i < j => order[i] < order[j]
            /\ \A x \in S : \E i \in 1 .. n : order[i] = x
  BY <1>1, Zenon DEF InOrder
<1> HIDE DEF v
<1>3. \E order \in [1 .. n -> S] :
            /\ \A i, j \in 1 .. n : i < j => order[i] < order[j]
            /\ \A x \in S : \E i \in 1 .. n : order[i] = x
  BY DEF Ordered
<1>4. Ordered(v, S, n)
  BY <1>2, <1>3, Zenon DEF Ordered
<1> QED
  BY <1>4, OrderUnique DEF v

\* The order of two sets, one above the other.
LEMMA OrderJoined ==
  ASSUME NEW n \in Nat, NEW S \in SUBSET Nat, NEW w, Ordered(w, S, n),
         NEW m \in Nat, NEW T \in SUBSET Nat, NEW v, Ordered(v, T, m),
         \A x \in S, y \in T : x < y
  PROVE  Ordered([i \in 1 .. n + m |-> IF i <= n THEN w[i] ELSE v[i - n]], S \cup T, n + m)
<1> DEFINE u == [i \in 1 .. n + m |-> IF i <= n THEN w[i] ELSE v[i - n]]
<1>1. w \in [1 .. n -> S] /\ v \in [1 .. m -> T]
  BY DEF Ordered
<1>2. \A i \in 1 .. n + m : IF i <= n THEN i \in 1 .. n ELSE i - n \in 1 .. m
  OBVIOUS
<1>3. u \in [1 .. n + m -> S \cup T]
  BY <1>1, <1>2
<1>4. ASSUME NEW i \in 1 .. n + m, NEW j \in 1 .. n + m, i < j
      PROVE  u[i] < u[j]
  <2>1. CASE j <= n
    <3>1. i \in 1 .. n /\ j \in 1 .. n
      BY <1>4, <2>1
    <3> QED
      BY <1>4, <3>1 DEF Ordered
  <2>2. CASE i > n
    <3>1. i - n \in 1 .. m /\ j - n \in 1 .. m /\ i - n < j - n /\ ~(i <= n) /\ ~(j <= n)
      BY <1>4, <2>2
    <3> QED
      BY <3>1 DEF Ordered
  <2>3. CASE i <= n /\ j > n
    <3>1. i \in 1 .. n /\ j - n \in 1 .. m /\ ~(j <= n)
      BY <1>4, <2>3
    <3>2. u[i] \in S /\ u[j] \in T
      BY <1>1, <2>3, <3>1
    <3> QED
      BY <3>2
  <2> QED
    BY <2>1, <2>2, <2>3
<1>5. ASSUME NEW x \in S \cup T
      PROVE  \E i \in 1 .. n + m : u[i] = x
  <2>1. CASE x \in S
    <3>1. PICK i \in 1 .. n : w[i] = x
      BY <2>1 DEF Ordered
    <3>2. i \in 1 .. n + m /\ i <= n
      OBVIOUS
    <3> QED
      BY <3>1, <3>2
  <2>2. CASE x \in T
    <3>1. PICK i \in 1 .. m : v[i] = x
      BY <2>2 DEF Ordered
    <3>2. n + i \in 1 .. n + m /\ ~(n + i <= n) /\ n + i - n = i
      OBVIOUS
    <3> QED
      BY <3>1, <3>2
  <2> QED
    BY <2>1, <2>2
<1> QED
  BY <1>3, <1>4, <1>5 DEF Ordered

\* Every bounded set of numbers has an order.
LEMMA OrderExists ==
  ASSUME NEW b \in Nat, NEW S \in SUBSET (0 .. b)
  PROVE  \E n \in Nat : \E w : Ordered(w, S, n)
<1> DEFINE Has(R) == \E n \in Nat : \E w : Ordered(w, R, n)
           T == {c \in Nat : \E R \in SUBSET Nat : (\A x \in R : x < c) /\ ~Has(R)}
<1>1. ASSUME T # {}
      PROVE  FALSE
  <2>1. PICK c \in T : \A k \in T : c <= k
    BY <1>1, LeastNumber
  <2>2. PICK R \in SUBSET Nat : (\A x \in R : x < c) /\ ~Has(R)
    BY <2>1
  <2>3. c \in Nat
    BY <2>1
  <2>4. CASE c = 0
    <3>1. R = {}
      BY <2>2, <2>4
    <3>2. Ordered([i \in 1 .. 0 |-> i], R, 0)
      BY <3>1 DEF Ordered
    <3> QED
      BY <2>2, <3>2
  <2>5. CASE c # 0
    <3> DEFINE top == c - 1
               Q == R \ {top}
    <3>1. top \in Nat /\ top \notin T
      <4> HIDE DEF T
      <4> QED
        BY <2>1, <2>3, <2>5
    <3>2. Q \in SUBSET Nat /\ \A x \in Q : x < top
      BY <2>2, <2>3, <2>5
    <3>3. Has(Q)
      BY <3>1, <3>2
    <3>40. PICK n \in Nat : \E w : Ordered(w, Q, n)
      BY <3>3
    <3>4. PICK w : Ordered(w, Q, n)
      BY <3>40
    <3>5. CASE top \in R
      <4>1. Ordered([i \in 1 .. 1 |-> top], {top}, 1)
        BY <3>1 DEF Ordered
      <4>2. R = Q \cup {top} /\ \A x \in Q, y \in {top} : x < y
        BY <3>2, <3>5
      <4> HIDE DEF Q, top
      <4>3. \E v : Ordered(v, R, n + 1)
        BY <3>1, <3>2, <3>4, <4>1, <4>2, OrderJoined
      <4> QED
        BY <2>2, <4>3
    <3>6. CASE top \notin R
      BY <2>2, <3>3, <3>6
    <3> QED
      BY <3>5, <3>6
  <2> QED
    BY <2>4, <2>5
<1>2. b + 1 \notin T
  BY <1>1
<1> QED
  BY <1>2

LEMMA OrderShifted ==
  ASSUME NEW n \in Nat, NEW S \in SUBSET Nat, NEW w, Ordered(w, S, n), NEW c \in Nat
  PROVE  Ordered([i \in 1 .. n |-> w[i] + c], {x + c : x \in S}, n)
<1>1. w \in [1 .. n -> S]
  BY DEF Ordered
<1>2. ASSUME NEW i \in 1 .. n, NEW j \in 1 .. n, i < j
      PROVE  w[i] + c < w[j] + c
  <2>1. w[i] < w[j] /\ w[i] \in Nat /\ w[j] \in Nat
    BY <1>1, <1>2 DEF Ordered
  <2> QED
    BY <2>1
<1> QED
  BY <1>1, <1>2 DEF Ordered

-----------------------------------------------------------------------------
(* Texts and the lines in them *)

LEMMA MinIs ==
  ASSUME NEW S \in SUBSET Nat, S # {}
  PROVE  Min(S) \in S /\ \A x \in S : Min(S) <= x
<1>1. \E m \in S : \A x \in S : m <= x
  BY LeastNumber
<1> QED
  BY <1>1 DEF Min

LEMMA Part ==
  ASSUME NEW s, IsSequence(s), NEW m \in 1 .. Len(s) + 1, NEW n \in m - 1 .. Len(s)
  PROVE  /\ IsSequence(SubSeq(s, m, n)) /\ Len(SubSeq(s, m, n)) = n - m + 1
         /\ \A k \in 1 .. n - m + 1 : SubSeq(s, m, n)[k] = s[m + k - 1]
<1>1. PICK T : s \in Seq(T)
  BY SequenceTyped
<1>2. Len(s) \in Nat /\ m \in Nat /\ n \in Nat
  BY DEF IsSequence
<1> DEFINE r == SubSeq(s, m, n)
           l == n - m + 1
<1>3. l \in Nat
  BY <1>2
<1>4. CASE m <= n
  <2>1. m \in 1 .. Len(s) /\ n \in 1 .. Len(s)
    BY <1>2, <1>4
  <2>2. r \in Seq(T) /\ Len(r) = l /\ \A k \in 1 .. l : r[k] = s[m + k - 1]
    BY <1>1, <1>2, <1>4, <2>1, SubSeqProperties
  <2> HIDE DEF r
  <2>3. IsSequence(r)
    BY <2>2, SeqIsSequence
  <2> QED
    BY <2>2, <2>3 DEF r
<1>5. CASE ~(m <= n)
  <2>1. l = 0
    BY <1>2, <1>5
  <2>2. r \in Seq(T) /\ Len(r) = 0
    BY <1>1, <1>2, <1>5, SubSeqProperties
  <2> HIDE DEF r
  <2>3. IsSequence(r)
    BY <2>2, SeqIsSequence
  <2> QED
    BY <2>1, <2>2, <2>3 DEF r
<1> QED
  BY <1>4, <1>5

\* The first newline at or after a place, or the end.
NewlineIn(data, from, to) == Min({k \in from .. to - 1 : data[k] = NL} \cup {to})

LEMMA FirstNewline ==
  ASSUME NEW data, NEW from \in Nat, NEW to \in Nat, from <= to
  PROVE  LET e == NewlineIn(data, from, to) IN
         /\ e \in from .. to
         /\ \A k \in from .. e - 1 : data[k] # NL
         /\ e < to => data[e] = NL
<1> DEFINE e == NewlineIn(data, from, to)
<1> DEFINE S == {k \in from .. to - 1 : data[k] = NL} \cup {to}
<1>1. e \in S /\ \A x \in S : e <= x
  <2>1. S \in SUBSET Nat /\ S # {}
    OBVIOUS
  <2>2. e = Min(S)
    BY DEF NewlineIn
  <2> HIDE DEF S
  <2> QED
    BY <2>1, <2>2, MinIs
<1> HIDE DEF e
<1>2. e \in from .. to
  BY <1>1
<1>3. ASSUME NEW k \in from .. e - 1
      PROVE  data[k] # NL
  <2>1. k < e /\ k \in from .. to - 1
    BY <1>2
  <2>2. k \notin S
    <3> HIDE DEF S
    <3> QED
      BY <1>1, <1>2, <2>1
  <2> QED
    BY <2>1, <2>2
<1> QED
  BY <1>1, <1>2, <1>3 DEF e

LEMMA LineAt ==
  ASSUME NEW t, IsSequence(t), NEW q \in 1 .. Len(t) + 1
  PROVE  LET r == LineFrom(t, q) IN
         /\ IsSequence(r) /\ q + Len(r) \in q .. Len(t) + 1
         /\ \A k \in 1 .. Len(r) : r[k] = t[q + k - 1] /\ r[k] # NL
         /\ q + Len(r) <= Len(t) => t[q + Len(r)] = NL
<1> DEFINE L == Len(t)
           S == {j \in q .. L : t[j] = NL} \cup {L + 1}
           e == Min(S)
<1>1. L \in Nat
  BY DEF IsSequence
<1> HIDE DEF L
<1>2. S = {j \in q .. (L + 1) - 1 : t[j] = NL} \cup {L + 1}
  BY <1>1
<1>3. /\ e \in q .. L + 1
      /\ \A k \in q .. e - 1 : t[k] # NL
      /\ e < L + 1 => t[e] = NL
  <2>1. q \in Nat /\ L + 1 \in Nat /\ q <= L + 1
    BY <1>1 DEF L
  <2>2. e = NewlineIn(t, q, L + 1)
    BY <1>2 DEF NewlineIn
  <2> HIDE DEF e
  <2> QED
    BY <2>1, <2>2, FirstNewline
<1>4. LineFrom(t, q) = SubSeq(t, q, e - 1)
  BY DEF LineFrom, L
<1> HIDE DEF e
<1>5. e - 1 \in q - 1 .. Len(t)
  BY <1>1, <1>3 DEF L
<1>6. /\ IsSequence(LineFrom(t, q)) /\ Len(LineFrom(t, q)) = e - 1 - q + 1
      /\ \A k \in 1 .. e - 1 - q + 1 : LineFrom(t, q)[k] = t[q + k - 1]
  BY <1>4, <1>5, Part
<1>7. Len(LineFrom(t, q)) = e - q /\ q + Len(LineFrom(t, q)) = e
  BY <1>3, <1>6
<1>8. ASSUME NEW k \in 1 .. e - q
      PROVE  LineFrom(t, q)[k] = t[q + k - 1] /\ t[q + k - 1] # NL
  <2>1. q + k - 1 \in q .. e - 1 /\ k \in 1 .. e - 1 - q + 1
    BY <1>3
  <2> QED
    BY <1>3, <1>6, <2>1
<1> QED
  BY <1>1, <1>3, <1>6, <1>7, <1>8 DEF L

\* A pattern that is not empty lies somewhere in the text.
LiesIn(s, r) == \E k \in 0 .. Len(r) - Len(s) : \A x \in 1 .. Len(s) : r[k + x] = s[x]

LEMMA OccursIs ==
  ASSUME NEW s, IsSequence(s), s # <<>>, NEW r, IsSequence(r)
  PROVE  Occurs(s, r) <=> LiesIn(s, r)
<1>1. Len(r) \in Nat /\ Len(s) \in Nat
  BY DEF IsSequence
<1>2. Occurs(s, r) <=> \E k \in 0 .. Len(r) - Len(s) : SubSeq(r, k + 1, k + Len(s)) = s
  BY DEF Occurs
<1>3. ASSUME NEW k \in 0 .. Len(r) - Len(s)
      PROVE  SubSeq(r, k + 1, k + Len(s)) = s <=> \A x \in 1 .. Len(s) : r[k + x] = s[x]
  <2>1. k + 1 \in 1 .. Len(r) + 1 /\ k + Len(s) \in (k + 1) - 1 .. Len(r)
        /\ (k + Len(s)) - (k + 1) + 1 = Len(s)
    BY <1>1
  <2> DEFINE p == SubSeq(r, k + 1, k + Len(s))
  <2>2. IsSequence(p) /\ Len(p) = Len(s) /\ \A x \in 1 .. Len(s) : p[x] = r[k + 1 + x - 1]
    BY <2>1, Part
  <2>3. \A x \in 1 .. Len(s) : k + 1 + x - 1 = k + x
    BY <1>1
  <2> HIDE DEF p
  <2>4. p = s <=> \A x \in 1 .. Len(s) : p[x] = s[x]
    BY <2>2, SameSequence
  <2> QED
    BY <2>2, <2>3, <2>4 DEF p
<1> QED
  BY <1>2, <1>3 DEF LiesIn

\* What stands before the first NUL.
LEMMA UpToNulIs ==
  ASSUME NEW r, IsSequence(r), NEW n \in 0 .. Len(r), \A k \in 1 .. n : r[k] # NUL,
         n = Len(r) \/ r[n + 1] = NUL
  PROVE  /\ IsSequence(UpToNul(r)) /\ Len(UpToNul(r)) = n
         /\ \A k \in 1 .. n : UpToNul(r)[k] = r[k]
<1> DEFINE ends == {k \in DOMAIN r : r[k] = NUL}
<1>0. Len(r) \in Nat /\ n \in Nat /\ n <= Len(r)
  BY DEF IsSequence
<1>1. DOMAIN r = 1 .. Len(r)
  BY SequenceTyped
<1>2. UpToNul(r) = IF ends = {} THEN r ELSE SubSeq(r, 1, Min(ends) - 1)
  BY DEF UpToNul
<1>3. CASE n = Len(r)
  <2>1. ends = {}
    BY <1>1, <1>3
  <2> QED
    BY <1>2, <1>3, <2>1
<1>4. CASE n # Len(r)
  <2>1. n + 1 \in ends /\ ends \in SUBSET Nat
    <3>1. n + 1 \in 1 .. Len(r)
      BY <1>0, <1>4
    <3>2. r[n + 1] = NUL
      BY <1>4
    <3> QED
      BY <1>1, <3>1, <3>2
  <2>2. Min(ends) = n + 1
    <3>1. Min(ends) \in ends /\ Min(ends) <= n + 1
      <4> HIDE DEF ends
      <4> QED
        BY <2>1, MinIs
    <3>2. PICK m : m = Min(ends)
      OBVIOUS
    <3>3. m \in 1 .. Len(r) /\ r[m] = NUL /\ m <= n + 1
      BY <1>1, <3>1, <3>2, Zenon
    <3>4. ~(m \in 1 .. n)
      BY <3>3
    <3>5. m = n + 1
      BY <1>0, <3>3, <3>4
    <3> QED
      BY <3>2, <3>5
  <2>3. UpToNul(r) = SubSeq(r, 1, n)
    <3>1. ends # {} /\ n + 1 - 1 = n
      BY <1>0, <2>1
    <3> HIDE DEF ends
    <3> QED
      BY <1>2, <2>2, <3>1
  <2> QED
    BY <2>3, Prefix
<1> QED
  BY <1>3, <1>4

LEMMA UpToNulEnds ==
  ASSUME NEW r, IsSequence(r)
  PROVE  LET u == UpToNul(r) IN
         /\ IsSequence(u) /\ Len(u) \in 0 .. Len(r)
         /\ \A k \in 1 .. Len(u) : u[k] = r[k] /\ r[k] # NUL
         /\ Len(u) = Len(r) \/ r[Len(u) + 1] = NUL
<1> DEFINE ends == {k \in 1 .. Len(r) : r[k] = NUL}
<1>1. Len(r) \in Nat
  BY DEF IsSequence
<1>2. CASE ends = {}
  <2>1. \A k \in 1 .. Len(r) : r[k] # NUL
    BY <1>2
  <2>2. Len(r) \in 0 .. Len(r)
    BY <1>1
  <2> QED
    BY <2>1, <2>2, UpToNulIs
<1>3. CASE ends # {}
  <2>1. ends \in SUBSET Nat
    OBVIOUS
  <2>2. PICK e \in ends : \A x \in ends : e <= x
    <3> HIDE DEF ends
    <3> QED
      BY <1>3, <2>1, LeastNumber
  <2>3. e \in 1 .. Len(r) /\ r[e] = NUL
    BY <2>2
  <2>4. \A k \in 1 .. e - 1 : r[k] # NUL
    <3> SUFFICES ASSUME NEW k \in 1 .. e - 1, r[k] = NUL
                 PROVE  FALSE
      OBVIOUS
    <3>1. k \in ends
      BY <1>1, <2>3
    <3>2. e <= k
      BY <2>2, <3>1
    <3> QED
      BY <2>3, <3>2
  <2>5. e - 1 \in 0 .. Len(r) /\ e - 1 + 1 = e
    BY <1>1, <2>3
  <2>6. /\ IsSequence(UpToNul(r)) /\ Len(UpToNul(r)) = e - 1
        /\ \A k \in 1 .. e - 1 : UpToNul(r)[k] = r[k]
    BY <2>3, <2>4, <2>5, UpToNulIs
  <2> QED
    BY <2>3, <2>4, <2>5, <2>6
<1> QED
  BY <1>2, <1>3

LEMMA SliceIs ==
  ASSUME NEW data, NEW from \in Nat, NEW to \in Nat, from <= to
  PROVE  /\ IsSequence(Slice(data, from, to)) /\ Len(Slice(data, from, to)) = to - from
         /\ \A k \in 1 .. to - from : Slice(data, from, to)[k] = data[from + k - 1]
<1> DEFINE s == Slice(data, from, to)
           n == to - from
<1>1. n \in Nat
  OBVIOUS
<1>2. s = [k \in 1 .. n |-> data[from + k - 1]]
  BY DEF Slice
<1> HIDE DEF n
<1>3. s = [k \in 1 .. n |-> s[k]] /\ \A k \in 1 .. n : s[k] = data[from + k - 1]
  BY <1>2
<1> HIDE DEF s
<1>4. IsSequence(s) /\ Len(s) = n
  BY <1>1, <1>3, MadeSequence
<1> QED
  BY <1>3, <1>4 DEF s, n

\* The same as one fact.
IsSlice(r, data, from, to) ==
  /\ IsSequence(r) /\ Len(r) = to - from
  /\ \A k \in 1 .. to - from : r[k] = data[from + k - 1]

LEMMA SliceMade ==
  ASSUME NEW data, NEW from \in Nat, NEW to \in Nat, from <= to
  PROVE  IsSlice(Slice(data, from, to), data, from, to)
BY SliceIs DEF IsSlice

-----------------------------------------------------------------------------
(* The lines in grep's buffer *)

IsClean(t) == IsSequence(t) /\ \A k \in 1 .. Len(t) : t[k] # NUL

\* The buffer holds the bytes of t from base on, as far as t goes; and nothing
\* else but NULs.
Holds(t, data, base, last) ==
  \A p \in 0 .. last - 1 :
    /\ base + p < Len(t) => data[p] = t[base + p + 1]
    /\ base + p = Len(t) => data[p] = NUL
Exactly(t, data, base, last) ==
  \A p \in 0 .. last - 1 : data[p] = IF base + p < Len(t) THEN t[base + p + 1] ELSE NUL
NoNewline(data, last) == \A p \in 0 .. last - 1 : data[p] # NL

\* Nothing is missing between the buffer and the end of the text, or there is no
\* room for more.
Filled(t, data, base, last, cnt) ==
  /\ last = BUFSIZE \/ base + last >= Len(t)
  /\ cnt = 0 => base + last >= Len(t)
  /\ data[BUFSIZE] # NL

InBuffer(t, data, base, last, cnt) ==
  /\ IsClean(t) /\ BUFSIZE \in Nat /\ base \in Nat /\ last \in 0 .. BUFSIZE
  /\ Holds(t, data, base, last) /\ Filled(t, data, base, last, cnt)

\* The line of the buffer from p on is the line of the text from q on, up to NULs
\* at the end of the text.
ReadAs(t, data, last, p, q) ==
  LET r    == Slice(data, p, LineEnd(data, last, p))
      line == LineFrom(t, q)
  IN  /\ IsSequence(r) /\ IsSequence(line) /\ Len(line) <= Len(r)
      /\ p + Len(r) <= last
      /\ \A k \in 1 .. Len(r) : r[k] = data[p + k - 1]
      /\ \A k \in 1 .. Len(line) : r[k] = line[k]
      /\ Len(line) < Len(r) => q + Len(line) = Len(t) + 1
      /\ UpToNul(r) = line

LEMMA LineEndIs ==
  ASSUME NEW data, NEW last \in Nat, NEW p \in LineStarts(data, last)
  PROVE  LET e == LineEnd(data, last, p) IN
         /\ p \in 0 .. last /\ e \in p .. last
         /\ \A k \in p .. e - 1 : data[k] # NL
         /\ e < last => data[e] = NL
<1>1. p \in Nat /\ p <= last /\ p \in 0 .. last
  BY DEF LineStarts
<1>2. LineEnd(data, last, p) = NewlineIn(data, p, last)
  BY DEF LineEnd, NewlineIn
<1> DEFINE n == NewlineIn(data, p, last)
<1>3. /\ n \in p .. last
      /\ \A k \in p .. n - 1 : data[k] # NL
      /\ n < last => data[n] = NL
  BY <1>1, FirstNewline
<1> HIDE DEF n
<1> QED
  BY <1>1, <1>2, <1>3 DEF n

\* Only the last line is kept.
LEMMA KeptIs ==
  ASSUME NEW data, NEW last \in Nat, NEW cnt, NEW start \in Kept(data, last, cnt)
  PROVE  /\ start \in 1 .. last - 1 /\ data[start - 1] = NL
         /\ \A k \in start .. last - 1 : data[k] # NL
         /\ \A p \in LineStarts(data, last) : p <= start
         /\ \A p \in Kept(data, last, cnt) : p = start
<1>1. start \in LineStarts(data, last) /\ LineEnd(data, last, start) = last /\ start # 0
  BY DEF Kept
<1>2. start \in 1 .. last - 1 /\ data[start - 1] = NL
  BY <1>1 DEF LineStarts
<1>3. \A k \in start .. last - 1 : data[k] # NL
  BY <1>1, LineEndIs
<1>4. ASSUME NEW p \in LineStarts(data, last), NEW r \in 1 .. last - 1,
             \A k \in r .. last - 1 : data[k] # NL
      PROVE  p <= r
  <2>1. CASE p = 0
    BY <2>1
  <2>2. CASE p # 0
    <3>1. p \in 1 .. last - 1 /\ data[p - 1] = NL
      BY <2>2 DEF LineStarts
    <3>2. ~(p - 1 \in r .. last - 1)
      BY <1>4, <3>1
    <3> QED
      BY <3>1, <3>2
  <2> QED
    BY <2>1, <2>2
<1>5. ASSUME NEW p \in Kept(data, last, cnt)
      PROVE  p = start
  <2>1. p \in LineStarts(data, last) /\ LineEnd(data, last, p) = last /\ p # 0
    BY DEF Kept
  <2>2. p \in 1 .. last - 1
    BY <2>1 DEF LineStarts
  <2>3. \A k \in p .. last - 1 : data[k] # NL
    BY <2>1, LineEndIs
  <2>4. p <= start /\ start <= p
    BY <1>1, <1>2, <1>3, <1>4, <2>1, <2>2, <2>3
  <2> QED
    BY <1>2, <2>2, <2>4
<1> QED
  BY <1>2, <1>3, <1>4, <1>5

\* The same place, counted in the buffer and in the file.
LEMMA SamePlace ==
  ASSUME NEW base \in Nat, NEW p \in Nat, NEW q, q = base + p + 1, NEW n \in Nat
  PROVE  base + (p + n) = (q + n) - 1
OBVIOUS

\* A line that is not kept is complete in the buffer.
LEMMA LineFound ==
  ASSUME NEW t, NEW data, NEW base, NEW last, NEW cnt, InBuffer(t, data, base, last, cnt),
         NEW p \in LineStarts(data, last), p \notin Kept(data, last, cnt), p < last,
         NEW q, q = base + p + 1, q <= Len(t), Len(LineFrom(t, q)) <= BUFSIZE
  PROVE  ReadAs(t, data, last, p, q)
<1>0. /\ IsClean(t) /\ BUFSIZE \in Nat /\ base \in Nat /\ last \in 0 .. BUFSIZE
      /\ Holds(t, data, base, last) /\ Filled(t, data, base, last, cnt)
  BY DEF InBuffer
<1> USE <1>0
<1> DEFINE e    == LineEnd(data, last, p)
           r    == Slice(data, p, e)
           line == LineFrom(t, q)
           n    == Len(line)
           L    == Len(t)
<1>1. /\ p \in 0 .. last /\ e \in p .. last
      /\ \A k \in p .. e - 1 : data[k] # NL
      /\ e < last => data[e] = NL
  BY LineEndIs
<1>2. L \in Nat /\ q \in 1 .. L
  BY <1>1 DEF IsClean, IsSequence
<1>3. /\ IsSequence(line) /\ q + n \in q .. L + 1
      /\ \A k \in 1 .. n : line[k] = t[q + k - 1] /\ line[k] # NL
      /\ q + n <= L => t[q + n] = NL
  <2>1. q \in 1 .. Len(t) + 1
    BY <1>2
  <2> QED
    BY <2>1, LineAt DEF IsClean
<1>4. n \in Nat
  BY <1>3 DEF IsSequence
<1>5. e < last \/ data[last] = NL \/ cnt = 0 \/ p = 0
  BY <1>1 DEF Kept
<1>6. n <= BUFSIZE
  OBVIOUS
<1>7. /\ IsSequence(r) /\ Len(r) = e - p
      /\ \A k \in 1 .. e - p : r[k] = data[p + k - 1]
  <2>1. p \in Nat /\ e \in Nat /\ p <= e
    BY <1>1
  <2> HIDE DEF e
  <2>2. IsSlice(r, data, p, e)
    BY <2>1, SliceMade
  <2> HIDE DEF r
  <2> QED
    BY <2>2 DEF IsSlice
<1> HIDE DEF e, r, line, n, L
<1>8. \A j \in 0 .. last - 1 : /\ base + j < L => data[j] = t[base + j + 1]
                               /\ base + j = L => data[j] = NUL
  BY DEF Holds, L
<1>9. n <= e - p
  <2> SUFFICES ASSUME n > e - p
               PROVE  FALSE
    BY <1>1, <1>4
  <2>1. e - p + 1 \in 1 .. n /\ q + (e - p + 1) - 1 = base + e + 1
    BY <1>1, <1>4
  <2>2. t[base + e + 1] # NL
    BY <1>3, <2>1
  <2>3. base + e < L
    BY <1>1, <1>2, <1>3, <1>4
  <2>4. CASE e < last
    <3>1. data[e] = t[base + e + 1]
      BY <1>1, <1>8, <2>3, <2>4
    <3> QED
      BY <1>1, <2>2, <2>4, <3>1
  <2>5. CASE e = last
    <3>1. ~(base + last >= L)
      BY <1>2, <2>3, <2>5
    <3>2. last = BUFSIZE /\ cnt # 0 /\ data[BUFSIZE] # NL
      BY <3>1 DEF Filled, L
    <3>3. p = 0
      BY <1>5, <2>5, <3>2
    <3> QED
      BY <1>4, <1>6, <2>5, <3>2, <3>3
  <2> QED
    BY <1>1, <2>4, <2>5
<1>10. ASSUME NEW k \in 1 .. n
       PROVE  r[k] = line[k]
  <2>0. p \in Nat /\ e \in Nat /\ last \in Nat /\ e <= last /\ k \in Nat /\ 1 <= k /\ k <= n
        /\ q + n <= L + 1
    BY <1>1, <1>3, <1>4
  <2>1. k \in 1 .. e - p /\ p + k - 1 \in 0 .. last - 1
    BY <1>4, <1>9, <2>0
  <2>2. base + (p + k - 1) < L /\ base + (p + k - 1) + 1 = q + k - 1
    BY <1>2, <1>4, <2>0
  <2>3. data[p + k - 1] = t[q + k - 1]
    BY <1>8, <2>1, <2>2
  <2> QED
    BY <1>3, <1>7, <2>1, <2>3
<1>11. ASSUME n < e - p
       PROVE  q + n = L + 1 /\ r[n + 1] = NUL
  <2>1. n + 1 \in 1 .. e - p /\ p + n \in 0 .. last - 1 /\ p + n \in p .. e - 1
        /\ p + (n + 1) - 1 = p + n /\ base + (p + n) = q + n - 1
    BY <1>1, <1>4, <1>11
  <2>2. PICK x \in 0 .. last - 1 : x = p + n
    BY <2>1
  <2>3. PICK y \in Int : y = q + n
    BY <1>2, <1>4
  <2>4. base + x = y - 1
    <3>1. base \in Nat /\ p \in Nat /\ n \in Nat
      BY <1>1, <1>4
    <3>2. base + (p + n) = (q + n) - 1
      BY <3>1, SamePlace
    <3> QED
      BY <2>2, <2>3, <3>2, Zenon
  <2>5. data[x] # NL
    BY <1>1, <2>1, <2>2
  <2>6. ~(y <= L)
    <3> SUFFICES ASSUME y <= L
                 PROVE  FALSE
      OBVIOUS
    <3>1. base + x < L /\ base + x + 1 = y
      <4>1. y - 1 < L /\ y - 1 + 1 = y
        BY <1>2, <2>3
      <4> QED
        BY <2>4, <4>1
    <3>2. data[x] = t[y]
      BY <1>8, <2>2, <3>1
    <3>3. t[y] = NL
      BY <1>3, <2>3
    <3> QED
      BY <2>5, <3>2, <3>3
  <2>7. y = L + 1
    <3>1. y <= L + 1
      BY <1>2, <1>3, <2>3
    <3> QED
      BY <1>2, <2>3, <2>6, <3>1
  <2>8. base + x = L
    BY <1>2, <2>4, <2>7
  <2>9. data[x] = NUL
    BY <1>8, <2>2, <2>8
  <2>10. r[n + 1] = data[x]
    BY <1>7, <2>1, <2>2
  <2> QED
    BY <2>3, <2>7, <2>9, <2>10
<1>12. UpToNul(r) = line
  <2>1. \A k \in 1 .. n : r[k] # NUL
    <3> SUFFICES ASSUME NEW k \in 1 .. n
                 PROVE  r[k] # NUL
      OBVIOUS
    <3>0. q \in Nat /\ 1 <= q /\ 1 <= k /\ k <= n /\ k \in Nat /\ q + n <= L + 1
      BY <1>2, <1>3, <1>4
    <3>1. q + k - 1 \in 1 .. L
      <4> HIDE <1>0
      <4> QED
        BY <1>2, <1>4, <3>0
    <3> QED
      BY <1>3, <1>10, <3>1 DEF IsClean, L
  <2>2. n \in 0 .. Len(r) /\ (n = Len(r) \/ r[n + 1] = NUL)
    BY <1>1, <1>4, <1>7, <1>9, <1>11
  <2>3. /\ IsSequence(UpToNul(r)) /\ Len(UpToNul(r)) = n
        /\ \A k \in 1 .. n : UpToNul(r)[k] = r[k]
    BY <1>7, <2>1, <2>2, UpToNulIs
  <2> QED
    BY <1>3, <1>10, <2>3, SameSequence DEF n
<1>13. p + (e - p) <= last
  BY <1>1
<1> QED
  BY <1>3, <1>7, <1>9, <1>10, <1>11, <1>12, <1>13 DEF e, r, line, n, L, ReadAs

\* A pattern in the line lies in what is searched.
LEMMA OccursLonger ==
  ASSUME NEW s, IsSequence(s), s # <<>>, NEW r, IsSequence(r), NEW line, IsSequence(line),
         Len(line) <= Len(r), \A k \in 1 .. Len(line) : r[k] = line[k]
  PROVE  /\ Occurs(s, line) => Occurs(s, r)
         /\ (\A k \in 1 .. Len(s) : s[k] # NUL) /\ (\A k \in Len(line) + 1 .. Len(r) : r[k] = NUL)
            /\ Occurs(s, r) => Occurs(s, line)
<1>1. Len(s) \in Nat /\ Len(s) # 0 /\ Len(r) \in Nat /\ Len(line) \in Nat
  BY NoElements DEF IsSequence
<1>2. ASSUME Occurs(s, line)
      PROVE  Occurs(s, r)
  <2>0. LiesIn(s, line)
    BY <1>2, OccursIs
  <2>1. PICK k \in 0 .. Len(line) - Len(s) : \A x \in 1 .. Len(s) : line[k + x] = s[x]
    BY <2>0 DEF LiesIn
  <2>2. k \in 0 .. Len(r) - Len(s) /\ \A x \in 1 .. Len(s) : k + x \in 1 .. Len(line)
    BY <1>1
  <2>3. \A x \in 1 .. Len(s) : r[k + x] = s[x]
    BY <2>1, <2>2
  <2> QED
    <3>1. LiesIn(s, r)
      BY <2>2, <2>3 DEF LiesIn
    <3> QED
      BY <3>1, OccursIs
<1>3. ASSUME (\A k \in 1 .. Len(s) : s[k] # NUL)
             /\ \A k \in Len(line) + 1 .. Len(r) : r[k] = NUL,
             Occurs(s, r)
      PROVE  Occurs(s, line)
  <2>0. LiesIn(s, r)
    <3>1. Occurs(s, r)
      BY <1>3
    <3> QED
      BY <3>1, OccursIs
  <2>1. PICK k \in 0 .. Len(r) - Len(s) : \A x \in 1 .. Len(s) : r[k + x] = s[x]
    BY <2>0 DEF LiesIn
  <2>2. k + Len(s) <= Len(line)
    <3> SUFFICES ASSUME k + Len(s) > Len(line)
                 PROVE  FALSE
      BY <1>1
    <3>1. k + Len(s) \in Len(line) + 1 .. Len(r) /\ Len(s) \in 1 .. Len(s)
      BY <1>1
    <3> QED
      BY <1>3, <2>1, <3>1
  <2>3. k \in 0 .. Len(line) - Len(s) /\ \A x \in 1 .. Len(s) : k + x \in 1 .. Len(line)
    BY <1>1, <2>2
  <2>4. \A x \in 1 .. Len(s) : line[k + x] = s[x]
    BY <2>1, <2>3
  <2> QED
    <3>1. LiesIn(s, line)
      BY <2>3, <2>4 DEF LiesIn
    <3> QED
      BY <3>1, OccursIs
<1> QED
  BY <1>2, <1>3

\* A line of the text that starts in the buffer starts a line of the buffer.
LEMMA StartFound ==
  ASSUME NEW t, IsClean(t), NEW data, NEW base \in Nat, NEW last \in Nat,
         Holds(t, data, base, last), NEW q \in 1 .. Len(t), q = 1 \/ t[q - 1] = NL,
         base < q, q <= base + last
  PROVE  q - base - 1 \in LineStarts(data, last) /\ q - base - 1 < last
<1> DEFINE p == q - base - 1
<1>1. Len(t) \in Nat
  BY DEF IsClean, IsSequence
<1>2. q \in Nat /\ q <= Len(t) /\ p \in Nat /\ p < last
  BY <1>1
<1>3. ASSUME p # 0
      PROVE  p \in 1 .. last - 1 /\ data[p - 1] = NL
  <2>1. p - 1 \in 0 .. last - 1 /\ base + (p - 1) < Len(t) /\ base + (p - 1) + 1 = q - 1
        /\ q # 1 /\ p \in 1 .. last - 1
    BY <1>1, <1>2, <1>3
  <2>2. data[p - 1] = t[q - 1]
    BY <2>1 DEF Holds
  <2> QED
    BY <2>1, <2>2
<1> QED
  BY <1>2, <1>3 DEF LineStarts

LEMMA LinesWithIs ==
  ASSUME NEW t, IsSequence(t), NEW s, IsSequence(s), s # <<>>, NEW q \in LinesWith(t, s)
  PROVE  q \in 1 .. Len(t) /\ (q = 1 \/ t[q - 1] = NL) /\ Occurs(s, LineFrom(t, q))
<1>1. Len(t) \in Nat /\ Len(s) \in Nat /\ Len(s) # 0
  BY NoElements DEF IsSequence
<1>2. q = 1 \/ (q \in 2 .. Len(t) /\ t[q - 1] = NL)
  BY DEF LinesWith
<1>3. Occurs(s, LineFrom(t, q))
  BY DEF LinesWith
<1>4. q \in 1 .. Len(t) + 1
  BY <1>1, <1>2
<1>5. /\ IsSequence(LineFrom(t, q)) /\ q + Len(LineFrom(t, q)) \in q .. Len(t) + 1
  BY <1>4, LineAt
<1>6. PICK n \in Nat : n = Len(LineFrom(t, q))
  BY <1>5 DEF IsSequence
<1>7. n >= Len(s)
  <2>1. \E k \in 0 .. n - Len(s) : \A x \in 1 .. Len(s) : LineFrom(t, q)[k + x] = s[x]
    <3>1. LiesIn(s, LineFrom(t, q))
      BY <1>3, <1>5, OccursIs
    <3> QED
      BY <1>6, <3>1 DEF LiesIn
  <2> QED
    BY <1>1, <1>6, <2>1
<1>8. q \in Nat /\ q + n <= Len(t) + 1
  BY <1>4, <1>5, <1>6
<1>9. q <= Len(t) /\ 1 <= q
  BY <1>1, <1>4, <1>6, <1>7, <1>8
<1> QED
  BY <1>1, <1>2, <1>3, <1>8, <1>9

\* The lines of the buffer that are printed.
Hits(data, last, cnt, s) ==
  {start \in LineStarts(data, last) \ Kept(data, last, cnt) :
     Occurs(s, Slice(data, start, LineEnd(data, last, start)))}

\* Every line of the text that holds the pattern and ends in the buffer is hit.
LEMMA ScanFinds ==
  ASSUME NEW t, NEW data, NEW base, NEW last, NEW cnt, InBuffer(t, data, base, last, cnt),
         NEW s, IsSequence(s), s # <<>>,
         NEW q \in LinesWith(t, s), Len(LineFrom(t, q)) <= BUFSIZE,
         base < q, q <= base + last, q - base - 1 \notin Kept(data, last, cnt)
  PROVE  LET p == q - base - 1 IN
         /\ p \in Hits(data, last, cnt, s)
         /\ UpToNul(Slice(data, p, LineEnd(data, last, p))) = LineFrom(t, q)
<1>0. /\ IsClean(t) /\ BUFSIZE \in Nat /\ base \in Nat /\ last \in 0 .. BUFSIZE
      /\ Holds(t, data, base, last)
  BY DEF InBuffer
<1> USE <1>0
<1> DEFINE p == q - base - 1
<1>1. q \in 1 .. Len(t) /\ (q = 1 \/ t[q - 1] = NL) /\ Occurs(s, LineFrom(t, q))
  BY LinesWithIs DEF IsClean
<1>2. p \in LineStarts(data, last) /\ p < last
  <2>1. last \in Nat
    OBVIOUS
  <2> QED
    BY <1>1, <2>1, StartFound
<1>3. q = base + p + 1 /\ q <= Len(t)
  <2>1. q \in Nat /\ q <= Len(t)
    BY <1>1
  <2> QED
    BY <2>1
<1>4. p \notin Kept(data, last, cnt)
  OBVIOUS
<1> DEFINE r    == Slice(data, p, LineEnd(data, last, p))
           line == LineFrom(t, q)
<1> HIDE DEF p
<1>5. /\ IsSequence(r) /\ IsSequence(line) /\ Len(line) <= Len(r)
      /\ \A k \in 1 .. Len(line) : r[k] = line[k]
      /\ UpToNul(r) = line
  <2>1. PICK x : x = p
    OBVIOUS
  <2>2. /\ x \in LineStarts(data, last) /\ x \notin Kept(data, last, cnt) /\ x < last
        /\ q = base + x + 1 /\ q <= Len(t)
    BY <1>2, <1>3, <1>4, <2>1
  <2> HIDE DEF r, line
  <2>3. ReadAs(t, data, last, p, q)
    BY <2>1, <2>2, LineFound
  <2> QED
    BY <2>3 DEF r, line, ReadAs
<1> HIDE DEF r, line
<1>6. Occurs(s, r)
  <2>1. Occurs(s, line)
    BY <1>1 DEF line
  <2> QED
    BY <1>5, <2>1, OccursLonger
<1>7. p \in Hits(data, last, cnt, s)
  BY <1>2, <1>4, <1>6 DEF Hits, r
<1> QED
  BY <1>5, <1>7 DEF p, r, line

\* The buffer of a short text: it begins with a line, and all lines end in it.
Short(t, data, base, last) ==
  /\ Len(t) <= BUFSIZE
  /\ Exactly(t, data, base, last)
  /\ base = 0 \/ base >= Len(t) \/ t[base] = NL
  /\ (base = 0 /\ last = Len(t)) \/ (base + last >= Len(t) /\ NoNewline(data, last))

\* Nothing else is hit.
LEMMA ScanFindsOnly ==
  ASSUME NEW t, NEW data, NEW base, NEW last, NEW cnt, InBuffer(t, data, base, last, cnt),
         Short(t, data, base, last),
         NEW s, IsClean(s), s # <<>>, NEW p \in Hits(data, last, cnt, s)
  PROVE  /\ base + p + 1 \in LinesWith(t, s) /\ p < last
         /\ Len(LineFrom(t, base + p + 1)) <= BUFSIZE
<1>0. /\ IsClean(t) /\ BUFSIZE \in Nat /\ base \in Nat /\ last \in 0 .. BUFSIZE
      /\ Holds(t, data, base, last)
  BY DEF InBuffer
<1> USE <1>0
<1> DEFINE L == Len(t)
           e == LineEnd(data, last, p)
           r == Slice(data, p, e)
<1>1. p \in LineStarts(data, last) /\ p \notin Kept(data, last, cnt) /\ Occurs(s, r)
  BY DEF Hits
<1>2. last \in Nat /\ L \in Nat /\ L <= BUFSIZE
  BY DEF IsClean, IsSequence, Short
<1>3. p \in 0 .. last /\ e \in p .. last
  BY <1>1, <1>2, LineEndIs
<1>4. p \in Nat /\ e \in Nat /\ p <= e /\ e <= last
  BY <1>2, <1>3
<1>5. /\ IsSequence(r) /\ Len(r) = e - p
      /\ \A k \in 1 .. e - p : r[k] = data[p + k - 1]
  <2> HIDE DEF e
  <2>1. IsSlice(r, data, p, e)
    BY <1>4, SliceMade
  <2> HIDE DEF r
  <2> QED
    BY <2>1 DEF IsSlice
<1>6. IsSequence(s) /\ Len(s) \in Nat /\ Len(s) # 0 /\ \A k \in 1 .. Len(s) : s[k] # NUL
  BY NoElements DEF IsClean, IsSequence
<1>7. \A j \in 0 .. last - 1 : data[j] = IF base + j < L THEN t[base + j + 1] ELSE NUL
  BY DEF Short, Exactly
<1>71. base = 0 \/ base >= L \/ t[base] = NL
  BY DEF Short
<1>72. base + last >= L
  BY <1>2 DEF Short
<1> HIDE DEF L, e, r
<1>8. base + p < L
  <2> SUFFICES ASSUME base + p >= L
               PROVE  FALSE
    BY <1>2, <1>4
  <2>0. IsSequence(r) /\ IsSequence(s) /\ Occurs(s, r)
    BY <1>1, <1>5, <1>6
  <2>1. PICK k \in 0 .. Len(r) - Len(s) : \A x \in 1 .. Len(s) : r[k + x] = s[x]
    <3>1. LiesIn(s, r)
      BY <2>0, OccursIs
    <3> QED
      BY <3>1 DEF LiesIn
  <2>2. k \in Nat /\ k + 1 \in 1 .. e - p /\ 1 \in 1 .. Len(s)
    BY <1>4, <1>5, <1>6
  <2>3. p + (k + 1) - 1 \in 0 .. last - 1 /\ ~(base + (p + (k + 1) - 1) < L)
    BY <1>2, <1>4, <2>2
  <2>4. r[k + 1] = NUL
    BY <1>5, <1>7, <2>2, <2>3
  <2>5. r[k + 1] = s[1] /\ s[1] # NUL
    BY <1>6, <2>1, <2>2
  <2> QED
    BY <2>4, <2>5
<1>9. p < last
  BY <1>2, <1>4, <1>72, <1>8
<1> DEFINE q    == base + p + 1
           line == LineFrom(t, q)
<1>10. q \in 1 .. L /\ q \in Nat
  BY <1>2, <1>4, <1>8
<1>11. q = 1 \/ (q \in 2 .. L /\ t[q - 1] = NL)
  <2>1. CASE p = 0
    BY <1>2, <1>4, <1>71, <1>8, <2>1
  <2>2. CASE p # 0
    <3>1. p \in 1 .. last - 1 /\ data[p - 1] = NL
      BY <1>1, <2>2 DEF LineStarts
    <3>2. p - 1 \in 0 .. last - 1 /\ base + (p - 1) < L /\ base + (p - 1) + 1 = q - 1
          /\ q \in 2 .. L
      BY <1>2, <1>4, <1>8, <1>9, <2>2
    <3> QED
      BY <1>7, <3>1, <3>2
  <2> QED
    BY <2>1, <2>2
<1>12. IsSequence(line) /\ Len(line) \in Nat /\ Len(line) <= BUFSIZE
  <2>1. q \in 1 .. Len(t) + 1 /\ IsSequence(t)
    BY <1>2, <1>10 DEF L, IsClean
  <2>2. IsSequence(line) /\ q + Len(line) \in q .. L + 1
    BY <2>1, LineAt DEF L
  <2>3. Len(line) \in Nat /\ q + Len(line) <= L + 1
    BY <2>2 DEF IsSequence
  <2> QED
    BY <1>2, <1>10, <2>2, <2>3
<1>13. /\ Len(line) <= Len(r)
       /\ p + Len(r) <= last
       /\ \A k \in 1 .. Len(line) : r[k] = line[k]
       /\ Len(line) < Len(r) => q + Len(line) = L + 1
  <2>1. q <= Len(t) /\ q = base + p + 1 /\ Len(LineFrom(t, q)) <= BUFSIZE
    BY <1>10, <1>12 DEF L
  <2> HIDE DEF q
  <2>2. ReadAs(t, data, last, p, q)
    BY <1>1, <1>9, <2>1, LineFound
  <2> QED
    BY <2>2 DEF r, e, L, ReadAs
<1>14. Occurs(s, line)
  <2>1. ASSUME NEW k \in Len(line) + 1 .. Len(r)
        PROVE  r[k] = NUL
    <3>1. Len(r) \in Nat /\ Len(r) = e - p
      BY <1>4, <1>5
    <3>2. k \in Nat /\ Len(line) < k /\ k <= Len(r)
      BY <1>12, <3>1
    <3>3. q + Len(line) = L + 1
      BY <1>12, <1>13, <3>1, <3>2
    <3>4. p + k - 1 \in 0 .. last - 1 /\ ~(base + (p + k - 1) < L) /\ k \in 1 .. e - p
      <4> HIDE DEF line
      <4> QED
        BY <1>2, <1>4, <1>12, <3>1, <3>2, <3>3
    <3> QED
      BY <1>5, <1>7, <3>4
  <2> HIDE DEF line
  <2> QED
    BY <1>1, <1>5, <1>6, <1>12, <1>13, <2>1, OccursLonger
<1>15. q \in LinesWith(t, s)
  BY <1>11, <1>14 DEF LinesWith, L
<1> QED
  BY <1>9, <1>12, <1>15

\* A newline that is looked at is the end of a line, and becomes a NUL.
LEMMA EndedIs ==
  ASSUME NEW data, NEW last \in Nat, NEW k \in 0 .. BUFSIZE
  PROVE  /\ Ended(data, last)[k] \in {data[k], NUL}
         /\ k < last /\ data[k] # NL => Ended(data, last)[k] = data[k]
<1>1. Ended(data, last)[k] =
        IF \E start \in LineStarts(data, last) : LineEnd(data, last, start) = k
        THEN NUL ELSE data[k]
  BY DEF Ended
<1>2. ASSUME k < last, data[k] # NL, NEW start \in LineStarts(data, last),
             LineEnd(data, last, start) = k
      PROVE  FALSE
  BY <1>2, LineEndIs
<1> QED
  BY <1>1, <1>2

\* What the scan leaves in the buffer is what comes after the lines it printed.
LEMMA ScanLeaves ==
  ASSUME NEW t, NEW data, NEW base, NEW last, NEW cnt, InBuffer(t, data, base, last, cnt),
         NEW start \in Kept(data, last, cnt), NEW d2, d2 = Moved(Ended(data, last), last, start)
  PROVE  /\ start \in 1 .. last - 1 /\ last - start < BUFSIZE
         /\ Holds(t, d2, base + start, last - start)
         /\ d2[BUFSIZE] # NL
         /\ Short(t, data, base, last) =>
              /\ Exactly(t, d2, base + start, last - start)
              /\ NoNewline(d2, last - start)
              /\ base + last = Len(t) /\ t[base + start] = NL
<1>0. /\ IsClean(t) /\ BUFSIZE \in Nat /\ base \in Nat /\ last \in 0 .. BUFSIZE
      /\ Holds(t, data, base, last) /\ data[BUFSIZE] # NL
  BY DEF InBuffer, Filled
<1>1. last \in Nat /\ last <= BUFSIZE /\ Len(t) \in Nat /\ \A k \in 1 .. Len(t) : t[k] # NUL
  BY <1>0 DEF IsClean, IsSequence
<1>2. /\ start \in 1 .. last - 1 /\ data[start - 1] = NL
      /\ \A k \in start .. last - 1 : data[k] # NL
  BY <1>1, KeptIs
<1>3. start \in Nat /\ start <= last /\ last - start \in Nat /\ last - start < BUFSIZE
      /\ last - start > 0 /\ 1 <= start
  BY <1>0, <1>1, <1>2
<1> DEFINE ended == Ended(data, last)
           r     == Slice(ended, start, last)
           text  == UpToNul(r)
           n     == last - start
<1>4. /\ IsSequence(r) /\ Len(r) = n
      /\ \A k \in 1 .. n : r[k] = ended[start + k - 1]
  <2> HIDE DEF ended
  <2>1. IsSlice(r, ended, start, last)
    BY <1>1, <1>3, SliceMade
  <2> HIDE DEF r
  <2> QED
    BY <2>1 DEF IsSlice
<1>5. ASSUME NEW k \in 1 .. n
      PROVE  r[k] = data[start + k - 1]
  <2>1. start + k - 1 \in 0 .. BUFSIZE /\ start + k - 1 < last /\ start + k - 1 \in start .. last - 1
    BY <1>0, <1>1, <1>3
  <2>2. ended[start + k - 1] = data[start + k - 1]
    BY <1>1, <1>2, <2>1, EndedIs
  <2> QED
    BY <1>4, <2>2
<1> DEFINE x == Len(text)
<1>6. /\ x \in 0 .. n
      /\ \A k \in 1 .. x : text[k] = r[k] /\ r[k] # NUL
      /\ x = n \/ r[x + 1] = NUL
  <2> HIDE DEF r, n
  <2> QED
    BY <1>4, UpToNulEnds
<1>7. d2 = [k \in 0 .. BUFSIZE |-> IF k < x THEN text[k + 1] ELSE IF k = x THEN NUL ELSE ended[k]]
  BY DEF Moved
<1> HIDE DEF ended, r, text, x, n
<1>8. n \in Nat /\ x \in Nat /\ x <= n /\ n = last - start /\ n < BUFSIZE
  BY <1>3, <1>6 DEF n
<1>9. ASSUME NEW p \in 0 .. n - 1, base + start + p <= Len(t)
      PROVE  /\ p <= x /\ (base + start + p < Len(t) => p < x)
  <2> SUFFICES ASSUME x <= p, x < p \/ base + start + p < Len(t)
               PROVE  FALSE
    BY <1>8
  <2>1. p \in Nat /\ p < n
    BY <1>8
  <2>2. x + 1 \in 1 .. n /\ start + (x + 1) - 1 = start + x /\ r[x + 1] = NUL
    BY <1>3, <1>6, <1>8, <2>1
  <2>3. data[start + x] = NUL
    BY <1>5, <2>2
  <2>4. start + x \in 0 .. last - 1 /\ base + (start + x) < Len(t)
        /\ base + (start + x) + 1 \in 1 .. Len(t)
    BY <1>0, <1>1, <1>3, <1>8, <1>9, <2>1
  <2>5. data[start + x] = t[base + (start + x) + 1]
    BY <1>0, <2>4 DEF Holds
  <2> QED
    BY <1>1, <2>3, <2>4, <2>5
<1>10. ASSUME NEW p \in 0 .. n - 1, p < x
       PROVE  d2[p] = data[start + p]
  <2>1. p \in 0 .. BUFSIZE /\ p + 1 \in 1 .. x /\ p + 1 \in 1 .. n /\ start + (p + 1) - 1 = start + p
    BY <1>0, <1>3, <1>8, <1>10
  <2> QED
    BY <1>5, <1>6, <1>7, <1>10, <2>1
<1>11. ASSUME NEW p \in 0 .. n - 1, base + start + p < Len(t)
       PROVE  d2[p] = t[base + start + p + 1] /\ d2[p] = data[start + p]
  <2>1. d2[p] = data[start + p]
    <3>1. p < x
      BY <1>0, <1>1, <1>3, <1>9, <1>11
    <3> QED
      BY <1>10, <3>1
  <2>2. start + p \in 0 .. last - 1 /\ base + (start + p) < Len(t)
        /\ base + (start + p) + 1 = base + start + p + 1
    BY <1>0, <1>3, <1>8, <1>11
  <2>3. data[start + p] = t[base + start + p + 1]
    BY <1>0, <2>2 DEF Holds
  <2> QED
    BY <2>1, <2>3
<1>12. ASSUME NEW p \in 0 .. n - 1, base + start + p = Len(t)
       PROVE  d2[p] = NUL
  <2>1. p <= x /\ p \in 0 .. BUFSIZE /\ p \in Nat
    BY <1>0, <1>1, <1>3, <1>8, <1>9, <1>12
  <2>2. CASE p = x
    BY <1>7, <2>1, <2>2
  <2>3. CASE p # x
    <3>1. p < x
      BY <1>8, <2>1, <2>3
    <3>2. d2[p] = data[start + p]
      BY <1>10, <3>1
    <3>3. start + p \in 0 .. last - 1 /\ base + (start + p) = Len(t)
      BY <1>0, <1>3, <1>8, <1>12
    <3> QED
      BY <1>0, <3>2, <3>3 DEF Holds
  <2> QED
    BY <2>2, <2>3
<1>13. Holds(t, d2, base + start, n)
  BY <1>11, <1>12 DEF Holds
<1>14. d2[BUFSIZE] # NL
  <2>1. BUFSIZE \in 0 .. BUFSIZE /\ ~(BUFSIZE < x) /\ BUFSIZE # x
    BY <1>0, <1>8
  <2>2. d2[BUFSIZE] = ended[BUFSIZE]
    BY <1>7, <2>1
  <2>3. ended[BUFSIZE] \in {data[BUFSIZE], NUL}
    <3>1. PICK k \in 0 .. BUFSIZE : k = BUFSIZE
      BY <2>1
    <3>2. Ended(data, last)[k] \in {data[k], NUL}
      BY <1>1, EndedIs
    <3> QED
      BY <3>1, <3>2 DEF ended
  <2> QED
    BY <1>0, <2>2, <2>3 DEF NUL, NL
<1>15. ASSUME Short(t, data, base, last)
       PROVE  /\ Exactly(t, d2, base + start, n) /\ NoNewline(d2, n)
              /\ base + last = Len(t) /\ t[base + start] = NL
  <2>1. base = 0 /\ last = Len(t)
    <3>1. start - 1 \in 0 .. last - 1
      BY <1>1, <1>2, <1>3
    <3>2. ~NoNewline(data, last)
      BY <1>2, <3>1 DEF NoNewline
    <3> QED
      BY <1>15, <3>2 DEF Short
  <2>2. \A p \in 0 .. n - 1 : base + start + p < Len(t) /\ start + p \in start .. last - 1
    BY <1>0, <1>3, <1>8, <2>1
  <2>3. Exactly(t, d2, base + start, n)
    BY <1>11, <2>2 DEF Exactly
  <2>4. NoNewline(d2, n)
    BY <1>2, <1>11, <2>2 DEF NoNewline
  <2>5. t[base + start] = NL
    <3>1. start - 1 \in 0 .. last - 1 /\ base + (start - 1) < Len(t) /\ base + (start - 1) + 1 = base + start
      BY <1>0, <1>1, <1>3, <2>1
    <3>2. data[start - 1] = t[base + start]
      BY <1>0, <3>1 DEF Holds
    <3> QED
      BY <1>2, <3>2
  <2>6. base + last = Len(t)
    BY <1>1, <2>1
  <2> QED
    BY <2>3, <2>4, <2>5, <2>6
<1> QED
  BY <1>2, <1>3, <1>13, <1>14, <1>15 DEF n

-----------------------------------------------------------------------------
(* What grep reads *)

LEMMA BytesOfFile ==
  ASSUME NEW i \in Inodes
  PROVE  /\ IsSequence(FileBytes(i)) /\ Len(FileBytes(i)) = FileLength[i]
         /\ FileLength[i] \in Nat
         /\ IsText(i) <=> IsClean(FileBytes(i))
         /\ \A k \in 1 .. FileLength[i] : FileBytes(i)[k] = Cell(disk, i, k - 1)
<1> DEFINE t == FileBytes(i)
           L == FileLength[i]
<1>1. L \in Nat
  BY ImageAssumption
<1> HIDE DEF L
<1>2. t = [k \in 1 .. L |-> Cell(disk, i, k - 1)]
  BY DEF FileBytes, Cell, L
<1> HIDE DEF t
<1>3. t = [k \in 1 .. L |-> t[k]] /\ \A k \in 1 .. L : t[k] = Cell(disk, i, k - 1)
  BY <1>2
<1>4. IsSequence(t) /\ Len(t) = L
  BY <1>1, <1>3, MadeSequence
<1>5. IsText(i) <=> IsClean(t)
  BY <1>4 DEF IsText, IsClean, t, L
<1> QED
  BY <1>1, <1>3, <1>4, <1>5 DEF t, L

\* A read delivers the next bytes of the file, and NULs after its end.
LEMMA FileDelivers ==
  ASSUME Counted, disk \in Disks, NEW fd \in Fds, NEW n \in 0 .. BUFSIZE,
         NEW i \in Inodes, NEW f \in Nat,
         file_array[Displayed][fd].kind = "file", file_array[Displayed][fd].inode = i,
         file_array[Displayed][fd].f_pos = f
  PROVE  LET L   == FileLength[i]
             m   == IF f > L THEN 0 ELSE IF n < L THEN n ELSE L
             got == Delivered(fd, n)
         IN  /\ Len(got) = m /\ m \in Nat /\ Len(ReadData(i, f, n)) = m
             /\ \A x \in 1 .. m :
                  got[x] = IF f + x - 1 < L THEN FileBytes(i)[f + x] ELSE NUL
<1> DEFINE L     == FileLength[i]
           m     == IF f > L THEN 0 ELSE IF n < L THEN n ELSE L
           cells == ReadData(i, f, n)
           got   == Delivered(fd, n)
<1>1. n \in Nat /\ BUFSIZE \in Nat /\ n <= BUFSIZE
  BY ProgramSizesAssumption
<1>2. L \in Nat
  BY ImageAssumption
<1>3. m \in Nat /\ cells = [x \in 1 .. m |-> ByteOf(i, f + x - 1)]
  BY <1>1, ReadDataReturns
<1>4. got = [x \in DOMAIN cells |-> disk[cells[x][1]][cells[x][2]]]
  BY DEF Delivered
<1> HIDE DEF got, cells
<1>5. Len(cells) = m /\ DOMAIN cells = 1 .. m
  <2> HIDE DEF m
  <2>1. cells = [x \in 1 .. m |-> cells[x]] /\ DOMAIN cells = 1 .. m
    BY <1>3
  <2> QED
    BY <1>3, <2>1, MadeSequence
<1>6. Len(got) = m /\ \A x \in 1 .. m : got[x] = Cell(disk, i, f + x - 1)
  <2> HIDE DEF m
  <2>1. got = [x \in 1 .. m |-> got[x]]
    BY <1>4, <1>5
  <2>2. ASSUME NEW x \in 1 .. m
        PROVE  got[x] = Cell(disk, i, f + x - 1)
    BY <1>3, <1>4, <1>5 DEF Cell
  <2> QED
    BY <1>3, <2>1, <2>2, MadeSequence
<1>7. ASSUME NEW x \in 1 .. m
      PROVE  got[x] = IF f + x - 1 < L THEN FileBytes(i)[f + x] ELSE NUL
  <2>1. x \in Nat /\ 1 <= x /\ f <= L /\ x <= L /\ x <= BUFSIZE
    BY <1>1, <1>2
  <2>2. CASE f + x - 1 < L
    <3>1. f + x \in 1 .. L /\ f + x - 1 = (f + x) - 1
      BY <1>2, <2>1, <2>2
    <3>2. FileBytes(i)[f + x] = Cell(disk, i, f + x - 1)
      BY <3>1, BytesOfFile
    <3> QED
      BY <1>6, <2>2, <3>2
  <2>3. CASE ~(f + x - 1 < L)
    <3> DEFINE past == IF L < BUFSIZE THEN L ELSE BUFSIZE
    <3> HIDE DEF L, m
    <3>1. f + x - 1 \in L .. L + past - 1
      BY <1>1, <1>2, <2>1, <2>3
    <3>2. Cell(disk, i, f + x - 1) = NUL
      BY <3>1, PaddingAssumption DEF Cell, L
    <3> QED
      BY <1>6, <2>3, <3>2
  <2> QED
    BY <2>2, <2>3
<1> QED
  BY <1>3, <1>5, <1>6, <1>7 DEF cells, got

\* Before a read of a short text.
ShortRest(t, data, base, last) ==
  /\ Len(t) <= BUFSIZE
  /\ Exactly(t, data, base, last)
  /\ base = 0 \/ base >= Len(t) \/ t[base] = NL
  /\ (base = 0 /\ last = 0) \/ (base + last >= Len(t) /\ NoNewline(data, last))

\* The read fills the buffer or reaches the end of the text.
LEMMA ReadFills ==
  ASSUME NEW t, IsClean(t), BUFSIZE \in Nat, NEW data, NEW base \in Nat, NEW last \in Nat,
         last < BUFSIZE, Holds(t, data, base, last), data[BUFSIZE] # NL,
         NEW m \in Nat, m = IF base + last > Len(t) THEN 0
                            ELSE IF BUFSIZE - last < Len(t) THEN BUFSIZE - last ELSE Len(t),
         NEW got, \A x \in 1 .. m : got[x] = IF base + last + x - 1 < Len(t)
                                             THEN t[base + last + x] ELSE NUL,
         NEW d2, d2 = [k \in 0 .. BUFSIZE |->
                         IF k \in last .. last + m - 1 THEN got[k - last + 1] ELSE data[k]]
  PROVE  /\ InBuffer(t, d2, base, last + m, m)
         /\ ShortRest(t, data, base, last) => Short(t, d2, base, last + m)
<1> DEFINE L == Len(t)
<1>1. L \in Nat /\ m <= BUFSIZE - last
  BY DEF IsClean, IsSequence
<1>2. ASSUME NEW p \in 0 .. last - 1
      PROVE  d2[p] = data[p]
  <2>1. p \in 0 .. BUFSIZE /\ ~(p \in last .. last + m - 1)
    OBVIOUS
  <2> QED
    BY <2>1
<1>3. ASSUME NEW p \in last .. last + m - 1
      PROVE  d2[p] = IF base + p < L THEN t[base + p + 1] ELSE NUL
  <2>1. p \in 0 .. BUFSIZE /\ p - last + 1 \in 1 .. m
    BY <1>1
  <2>2. base + last + (p - last + 1) - 1 = base + p /\ base + last + (p - last + 1) = base + p + 1
    BY <2>1
  <2>3. d2[p] = got[p - last + 1]
    BY <2>1
  <2> QED
    BY <2>1, <2>2, <2>3
<1>4. \A p \in 0 .. (last + m) - 1 : p \in 0 .. last - 1 \/ p \in last .. last + m - 1
  OBVIOUS
<1>5. d2[BUFSIZE] # NL
  <2>1. BUFSIZE \in 0 .. BUFSIZE /\ ~(BUFSIZE \in last .. last + m - 1)
    BY <1>1
  <2> QED
    BY <2>1
<1>6. Holds(t, d2, base, last + m)
  <2> SUFFICES ASSUME NEW p \in 0 .. (last + m) - 1
               PROVE  /\ base + p < L => d2[p] = t[base + p + 1]
                      /\ base + p = L => d2[p] = NUL
    BY Zenon DEF Holds
  <2>1. CASE p \in 0 .. last - 1
    <3>1. d2[p] = data[p]
      BY <1>2, <2>1
    <3> QED
      BY <2>1, <3>1 DEF Holds
  <2>2. CASE p \in last .. last + m - 1
    <3>1. d2[p] = IF base + p < L THEN t[base + p + 1] ELSE NUL
      BY <1>3, <2>2
    <3>2. base + p = L => ~(base + p < L)
      BY <1>1
    <3> QED
      BY <3>1, <3>2
  <2> QED
    BY <1>4, <2>1, <2>2
<1>7. /\ last + m = BUFSIZE \/ base + (last + m) >= L
      /\ m = 0 => base + (last + m) >= L
      /\ last + m \in 0 .. BUFSIZE
  BY <1>1
<1>8. InBuffer(t, d2, base, last + m, m)
  BY <1>5, <1>6, <1>7 DEF InBuffer, Filled
<1>9. ASSUME ShortRest(t, data, base, last)
      PROVE  Short(t, d2, base, last + m)
  <2>1. Exactly(t, d2, base, last + m)
    <3>1. Exactly(t, data, base, last)
      BY <1>9 DEF ShortRest
    <3> QED
      BY <1>2, <1>3, <1>4, <3>1 DEF Exactly
  <2>2. CASE base = 0 /\ last = 0
    <3>1. last + m = L
      BY <1>1, <1>9, <2>2 DEF ShortRest
    <3> QED
      BY <1>9, <2>1, <2>2, <3>1 DEF Short, ShortRest
  <2>3. CASE base + last >= L /\ NoNewline(data, last)
    <3>1. ASSUME NEW p \in last .. last + m - 1
          PROVE  d2[p] # NL
      <4>1. ~(base + p < L)
        BY <1>1, <2>3
      <4>2. d2[p] = NUL
        BY <1>3, <4>1
      <4> QED
        BY <4>2 DEF NUL, NL
    <3>2. NoNewline(d2, last + m)
      <4>1. \A p \in 0 .. last - 1 : d2[p] # NL
        BY <1>2, <2>3 DEF NoNewline
      <4>2. \A p \in 0 .. (last + m) - 1 : d2[p] # NL
        BY <1>4, <3>1, <4>1
      <4> QED
        BY <4>2, Zenon DEF NoNewline
    <3>3. base + (last + m) >= L
      BY <1>1, <2>3
    <3> QED
      BY <1>9, <2>1, <3>2, <3>3 DEF Short, ShortRest
  <2> QED
    BY <1>9, <2>2, <2>3 DEF ShortRest
<1> QED
  BY <1>8, <1>9

-----------------------------------------------------------------------------
(* What grep has written *)

LEMMA PrefixIs ==
  ASSUME NEW a, IsSequence(a), NEW b, IsSequence(b)
  PROVE  IsPrefix(a, b) <=> Len(a) <= Len(b) /\ \A k \in 1 .. Len(a) : a[k] = b[k]
<1>1. Len(a) \in Nat /\ Len(b) \in Nat
  BY DEF IsSequence
<1>2. IsPrefix(a, b) <=> Len(a) <= Len(b) /\ SubSeq(a, 1, Len(a)) = SubSeq(b, 1, Len(a))
  BY DEF IsPrefix
<1>3. ASSUME Len(a) <= Len(b)
      PROVE  SubSeq(a, 1, Len(a)) = SubSeq(b, 1, Len(a)) <=> \A k \in 1 .. Len(a) : a[k] = b[k]
  <2>1. Len(a) \in 0 .. Len(a) /\ Len(a) \in 0 .. Len(b)
    BY <1>1, <1>3
  <2>2. SubSeq(a, 1, Len(a)) = a
    BY <2>1, Prefix
  <2> DEFINE c == SubSeq(b, 1, Len(a))
  <2>3. IsSequence(c) /\ Len(c) = Len(a) /\ \A k \in 1 .. Len(a) : c[k] = b[k]
    BY <2>1, Prefix
  <2> HIDE DEF c
  <2>4. a = c <=> \A k \in 1 .. Len(a) : a[k] = c[k]
    BY <2>3, SameSequence
  <2> QED
    BY <2>2, <2>3, <2>4 DEF c
<1> QED
  BY <1>2, <1>3

Colon(name) == name \o <<":">>

LEMMA ColonIs ==
  ASSUME NEW name, IsSequence(name)
  PROVE  /\ IsSequence(Colon(name)) /\ Len(Colon(name)) = Len(name) + 1
         /\ \A k \in 1 .. Len(name) : Colon(name)[k] = name[k]
         /\ Colon(name)[Len(name) + 1] = ":"
<1>1. Colon(name) = Append(name, ":")
  BY OneMore DEF Colon
<1> QED
  BY <1>1, AppendSequence

\* What is printed for a name begins with it and the colon, and with no other.
LEMMA PrintedIs ==
  ASSUME NEW name, IsSequence(name), NEW text, IsSequence(text)
  PROVE  /\ IsSequence(Printed(name, text))
         /\ Len(name) + 1 <= Len(Printed(name, text))
         /\ \A k \in 1 .. Len(name) : Printed(name, text)[k] = name[k]
         /\ Printed(name, text)[Len(name) + 1] = ":"
<1> DEFINE c == Colon(name)
           d == c \o text
<1>1. /\ IsSequence(c) /\ Len(c) = Len(name) + 1 /\ c[Len(name) + 1] = ":"
      /\ \A k \in 1 .. Len(name) : c[k] = name[k]
  BY ColonIs
<1> HIDE DEF c
<1>2. IsSequence(d) /\ Len(d) = Len(c) + Len(text) /\ \A k \in 1 .. Len(c) : d[k] = c[k]
  BY <1>1, Joined
<1> HIDE DEF d
<1>3. /\ IsSequence(Append(d, NL)) /\ Len(Append(d, NL)) = Len(d) + 1
      /\ \A k \in 1 .. Len(d) : Append(d, NL)[k] = d[k]
  BY <1>2, AppendSequence
<1>4. Printed(name, text) = Append(d, NL)
  <2>1. Append(d, NL) = d \o <<NL>>
    BY <1>2, OneMore
  <2> QED
    BY <2>1 DEF Printed, d, c, Colon
<1>5. Len(name) \in Nat /\ Len(text) \in Nat
  BY DEF IsSequence
<1> QED
  BY <1>1, <1>2, <1>3, <1>4, <1>5

LEMMA PrintedFor ==
  ASSUME NEW k \in 1 .. NumEntries, NEW j \in 1 .. NumEntries, NEW text, IsSequence(text)
  PROVE  IsPrefix(Colon(Entries[k].name), Printed(Entries[j].name, text)) <=> k = j
<1> DEFINE a == Entries[k].name
           b == Entries[j].name
           c == Colon(a)
           p == Printed(b, text)
<1>1. /\ IsSequence(a) /\ IsSequence(b) /\ Len(a) \in Nat /\ Len(b) \in Nat
      /\ \A x \in 1 .. Len(a) : a[x] # ":"
      /\ \A x \in 1 .. Len(b) : b[x] # ":"
      /\ a = b => k = j
  BY NamesAssumption, DirectoryAssumption DEF IsSequence
<1>2. k = j => a = b
  OBVIOUS
<1> HIDE DEF a, b
<1>3. /\ IsSequence(c) /\ Len(c) = Len(a) + 1 /\ c[Len(a) + 1] = ":"
      /\ \A x \in 1 .. Len(a) : c[x] = a[x]
  BY <1>1, ColonIs
<1>4. /\ IsSequence(p) /\ Len(b) + 1 <= Len(p) /\ p[Len(b) + 1] = ":"
      /\ \A x \in 1 .. Len(b) : p[x] = b[x]
  BY <1>1, PrintedIs
<1> HIDE DEF c, p
<1>5. IsPrefix(c, p) <=> Len(c) <= Len(p) /\ \A x \in 1 .. Len(c) : c[x] = p[x]
  BY <1>3, <1>4, PrefixIs
<1>6. ASSUME a = b
      PROVE  Len(c) <= Len(p) /\ \A x \in 1 .. Len(c) : c[x] = p[x]
  BY <1>1, <1>3, <1>4, <1>6
<1>7. ASSUME Len(c) <= Len(p), \A x \in 1 .. Len(c) : c[x] = p[x]
      PROVE  a = b
  <2>1. ~(Len(a) < Len(b))
    <3> SUFFICES ASSUME Len(a) < Len(b)
                 PROVE  FALSE
      OBVIOUS
    <3>1. Len(a) + 1 \in 1 .. Len(b) /\ Len(a) + 1 \in 1 .. Len(c)
      BY <1>1, <1>3
    <3> QED
      BY <1>1, <1>3, <1>4, <1>7, <3>1
  <2>2. ~(Len(b) < Len(a))
    <3> SUFFICES ASSUME Len(b) < Len(a)
                 PROVE  FALSE
      OBVIOUS
    <3>1. Len(b) + 1 \in 1 .. Len(a) /\ Len(b) + 1 \in 1 .. Len(c)
      BY <1>1, <1>3
    <3> QED
      BY <1>1, <1>3, <1>4, <1>7, <3>1
  <2>3. Len(a) = Len(b)
    BY <1>1, <2>1, <2>2
  <2>4. \A x \in 1 .. Len(a) : a[x] = b[x]
    BY <1>1, <1>3, <1>4, <1>7, <2>3
  <2> QED
    BY <1>1, <2>3, <2>4, SameSequence
<1> QED
  BY <1>1, <1>2, <1>5, <1>6, <1>7 DEF a, b, c, p

\* The chunks that begin with a name and a colon.
Own(name, chunks) == {i \in DOMAIN chunks : IsPrefix(Colon(name), chunks[i])}

LEMMA WrittenIs ==
  ASSUME NEW name, NEW o, NEW n \in Nat, NEW w, IsSequence(o), Ordered(w, Own(name, o), n)
  PROVE  WrittenFor(name, o) = [j \in 1 .. n |-> o[w[j]]]
<1>1. Own(name, o) \in SUBSET Nat
  <2>1. DOMAIN o = 1 .. Len(o) /\ Len(o) \in Nat
    BY SequenceTyped
  <2> QED
    BY <2>1 DEF Own
<1>2. InOrder(Own(name, o)) = w
  BY <1>1, InOrderIs
<1>3. WrittenFor(name, o) = [j \in DOMAIN InOrder(Own(name, o)) |-> o[InOrder(Own(name, o))[j]]]
  BY DEF WrittenFor, Own, Colon
<1>4. DOMAIN w = 1 .. n
  BY DEF Ordered
<1> QED
  BY <1>2, <1>3, <1>4

LEMMA WrittenAsIs ==
  ASSUME NEW name, NEW t, NEW S \in SUBSET Nat, NEW n \in Nat, NEW w, Ordered(w, S, n)
  PROVE  WrittenAs(name, t, S) = [j \in 1 .. n |-> Printed(name, LineFrom(t, w[j]))]
<1>1. InOrder(S) = w
  BY InOrderIs
<1>2. DOMAIN w = 1 .. n
  BY DEF Ordered
<1> QED
  BY <1>1, <1>2 DEF WrittenAs

LEMMA OwnOrdered ==
  ASSUME NEW name, NEW o, IsSequence(o)
  PROVE  \E n \in Nat : \E w : Ordered(w, Own(name, o), n)
<1>1. Len(o) \in Nat /\ DOMAIN o = 1 .. Len(o)
  BY SequenceTyped
<1>2. Own(name, o) \in SUBSET (0 .. Len(o))
  BY <1>1 DEF Own
<1> QED
  BY <1>1, <1>2, OrderExists

LEMMA OthersWritten ==
  ASSUME NEW name, NEW o, IsSequence(o), NEW pieces, IsSequence(pieces),
         \A i \in 1 .. Len(pieces) : ~IsPrefix(Colon(name), pieces[i])
  PROVE  WrittenFor(name, o \o pieces) = WrittenFor(name, o)
<1> DEFINE o2 == o \o pieces
<1>1. /\ IsSequence(o2) /\ Len(o2) = Len(o) + Len(pieces)
      /\ \A k \in 1 .. Len(o) : o2[k] = o[k]
      /\ \A k \in Len(o) + 1 .. Len(o) + Len(pieces) : o2[k] = pieces[k - Len(o)]
  BY Joined
<1> HIDE DEF o2
<1>2. /\ DOMAIN o = 1 .. Len(o) /\ DOMAIN o2 = 1 .. Len(o2)
      /\ Len(o) \in Nat /\ Len(pieces) \in Nat
  BY <1>1, SequenceTyped
<1>3. Own(name, o2) = Own(name, o)
  <2>1. ASSUME NEW i \in Own(name, o2)
        PROVE  i \in Own(name, o)
    <3>1. i \in 1 .. Len(o) + Len(pieces) /\ IsPrefix(Colon(name), o2[i])
      BY <1>1, <1>2 DEF Own
    <3>2. CASE i \in Len(o) + 1 .. Len(o) + Len(pieces)
      <4>1. i - Len(o) \in 1 .. Len(pieces)
        BY <1>2, <3>2
      <4> QED
        BY <1>1, <3>1, <3>2, <4>1
    <3>3. CASE i \in 1 .. Len(o)
      BY <1>1, <1>2, <3>1, <3>3 DEF Own
    <3> QED
      BY <1>2, <3>1, <3>2, <3>3
  <2>2. ASSUME NEW i \in Own(name, o)
        PROVE  i \in Own(name, o2)
    <3>1. i \in 1 .. Len(o) /\ IsPrefix(Colon(name), o[i])
      BY <1>2 DEF Own
    <3>2. i \in 1 .. Len(o2) /\ o2[i] = o[i]
      BY <1>1, <1>2, <3>1
    <3> QED
      BY <1>2, <3>1, <3>2 DEF Own
  <2> QED
    BY <2>1, <2>2
<1>4. PICK n \in Nat : \E w : Ordered(w, Own(name, o), n)
  BY OwnOrdered
<1>5. PICK w : Ordered(w, Own(name, o), n)
  BY <1>4
<1>6. WrittenFor(name, o) = [j \in 1 .. n |-> o[w[j]]]
  BY <1>5, WrittenIs
<1>7. WrittenFor(name, o2) = [j \in 1 .. n |-> o2[w[j]]]
  BY <1>1, <1>3, <1>5, WrittenIs
<1>8. \A j \in 1 .. n : o2[w[j]] = o[w[j]]
  <2>1. \A j \in 1 .. n : w[j] \in Own(name, o)
    BY <1>5 DEF Ordered
  <2>2. \A j \in 1 .. n : w[j] \in 1 .. Len(o)
    BY <1>2, <2>1 DEF Own
  <2> QED
    BY <1>1, <2>2
<1> QED
  BY <1>6, <1>7, <1>8 DEF o2

LEMMA OwnWritten ==
  ASSUME NEW name, NEW o, IsSequence(o), NEW pieces, IsSequence(pieces),
         \A i \in 1 .. Len(pieces) : IsPrefix(Colon(name), pieces[i]),
         NEW n \in Nat, NEW w, Ordered(w, Own(name, o), n)
  PROVE  WrittenFor(name, o \o pieces) =
           [j \in 1 .. n + Len(pieces) |-> IF j <= n THEN o[w[j]] ELSE pieces[j - n]]
<1> DEFINE o2 == o \o pieces
           l  == Len(o)
           m  == Len(pieces)
<1>1. /\ IsSequence(o2) /\ Len(o2) = l + m
      /\ \A k \in 1 .. l : o2[k] = o[k]
      /\ \A k \in l + 1 .. l + m : o2[k] = pieces[k - l]
  BY Joined
<1> HIDE DEF o2
<1>2. DOMAIN o = 1 .. l /\ DOMAIN o2 = 1 .. l + m /\ l \in Nat /\ m \in Nat
  BY <1>1, SequenceTyped
<1>21. \A i \in 1 .. m : IsPrefix(Colon(name), pieces[i])
  OBVIOUS
<1> HIDE DEF l, m
<1> DEFINE T == l + 1 .. l + m
           v == [i \in 1 .. m |-> l + i]
<1>3. Own(name, o) \in SUBSET (1 .. l)
  BY <1>2 DEF Own
<1>4. Own(name, o2) = Own(name, o) \cup T
  <2>1. ASSUME NEW i \in 1 .. l + m
        PROVE  i \in Own(name, o2) <=> i \in Own(name, o) \/ i \in T
    <3>1. CASE i \in T
      <4>1. i - l \in 1 .. m /\ o2[i] = pieces[i - l]
        BY <1>1, <1>2, <3>1
      <4>2. IsPrefix(Colon(name), o2[i])
        BY <1>21, <4>1
      <4> QED
        BY <1>2, <3>1, <4>2 DEF Own
    <3>2. CASE i \in 1 .. l
      <4>1. o2[i] = o[i] /\ i \notin T
        BY <1>1, <1>2, <3>2
      <4> QED
        BY <1>2, <3>2, <4>1 DEF Own
    <3>3. i \in T \/ i \in 1 .. l
      BY <1>2
    <3> QED
      BY <3>1, <3>2, <3>3
  <2>2. Own(name, o2) \in SUBSET (1 .. l + m)
    BY <1>2 DEF Own
  <2>3. Own(name, o) \cup T \in SUBSET (1 .. l + m)
    BY <1>2, <1>3
  <2> QED
    BY <2>1, <2>2, <2>3
<1>5. Ordered(v, T, m)
  <2>1. v \in [1 .. m -> T] /\ \A i, j \in 1 .. m : i < j => v[i] < v[j]
    BY <1>2
  <2>2. ASSUME NEW x \in T
        PROVE  \E i \in 1 .. m : v[i] = x
    <3>1. x - l \in 1 .. m /\ l + (x - l) = x
      BY <1>2
    <3> QED
      BY <3>1
  <2> QED
    BY <2>1, <2>2 DEF Ordered
<1> DEFINE u == [i \in 1 .. n + m |-> IF i <= n THEN w[i] ELSE v[i - n]]
<1>6. Ordered(u, Own(name, o2), n + m)
  <2>1. \A x \in Own(name, o), y \in T : x < y
    BY <1>2, <1>3
  <2>2. Own(name, o) \in SUBSET Nat /\ T \in SUBSET Nat
    BY <1>2, <1>3
  <2> HIDE DEF T, v
  <2> QED
    BY <1>2, <1>4, <1>5, <2>1, <2>2, OrderJoined
<1>7. WrittenFor(name, o2) = [j \in 1 .. n + m |-> o2[u[j]]]
  <2>1. n + m \in Nat
    BY <1>2
  <2> HIDE DEF u
  <2> QED
    BY <1>1, <1>6, <2>1, WrittenIs
<1>8. ASSUME NEW j \in 1 .. n + m
      PROVE  o2[u[j]] = IF j <= n THEN o[w[j]] ELSE pieces[j - n]
  <2>1. CASE j <= n
    <3>1. j \in 1 .. n /\ u[j] = w[j]
      BY <1>2, <2>1
    <3>2. w[j] \in Own(name, o)
      BY <3>1 DEF Ordered
    <3> QED
      BY <1>1, <1>3, <2>1, <3>1, <3>2
  <2>2. CASE ~(j <= n)
    <3>1. j - n \in 1 .. m /\ u[j] = v[j - n]
      BY <1>2, <2>2
    <3>2. v[j - n] = l + (j - n)
      BY <3>1
    <3>3. PICK x \in l + 1 .. l + m : x = l + (j - n) /\ x - l = j - n
      BY <1>2, <3>1
    <3>4. u[j] = x /\ o2[x] = pieces[x - l]
      BY <1>1, <3>1, <3>2, <3>3
    <3> HIDE DEF u
    <3> QED
      BY <2>2, <3>3, <3>4
  <2> QED
    BY <2>1, <2>2
<1> QED
  BY <1>7, <1>8 DEF o2, m

\* What was printed of a text, up to the lines that start at b.
Found(name, t, s, b, o) ==
  LET before == {q \in LinesWith(t, s) : q <= b}
  IN  /\ \A q \in before :
           Len(LineFrom(t, q)) <= BUFSIZE =>
             \E j \in DOMAIN o : o[j] = Printed(name, LineFrom(t, q))
      /\ Len(t) <= BUFSIZE => WrittenFor(name, o) = WrittenAs(name, t, before)

LEMMA FoundStays ==
  ASSUME NEW name, NEW t, NEW s, NEW b, NEW o, IsSequence(o), Found(name, t, s, b, o),
         NEW pieces, IsSequence(pieces),
         \A i \in 1 .. Len(pieces) : ~IsPrefix(Colon(name), pieces[i])
  PROVE  Found(name, t, s, b, o \o pieces)
<1> DEFINE before == {q \in LinesWith(t, s) : q <= b}
           o2     == o \o pieces
<1>1. ASSUME NEW q \in before, Len(LineFrom(t, q)) <= BUFSIZE
      PROVE  \E j \in DOMAIN o2 : o2[j] = Printed(name, LineFrom(t, q))
  <2>1. PICK j \in DOMAIN o : o[j] = Printed(name, LineFrom(t, q))
    BY <1>1 DEF Found
  <2>2. j \in DOMAIN o2 /\ o2[j] = o[j]
    <3>1. /\ IsSequence(o2) /\ Len(o2) = Len(o) + Len(pieces)
          /\ \A k \in 1 .. Len(o) : o2[k] = o[k]
      BY Joined
    <3> HIDE DEF o2
    <3>2. DOMAIN o = 1 .. Len(o) /\ DOMAIN o2 = 1 .. Len(o2) /\ Len(o) \in Nat /\ Len(pieces) \in Nat
      BY <3>1, SequenceTyped
    <3> QED
      BY <3>1, <3>2
  <2> QED
    BY <2>1, <2>2
<1>2. ASSUME Len(t) <= BUFSIZE
      PROVE  WrittenFor(name, o2) = WrittenAs(name, t, before)
  <2>1. WrittenFor(name, o) = WrittenAs(name, t, before)
    BY <1>2 DEF Found
  <2> QED
    BY <2>1, OthersWritten
<1> QED
  BY <1>1, <1>2 DEF Found

\* The lines from b to c are printed, in order.
LEMMA FoundMore ==
  ASSUME NEW name, IsSequence(name), NEW t, IsSequence(t), NEW s,
         NEW b \in Nat, NEW c \in Nat, b <= c,
         NEW o, IsSequence(o), Found(name, t, s, b, o), NEW pieces, IsSequence(pieces),
         \A i \in 1 .. Len(pieces) : IsPrefix(Colon(name), pieces[i]),
         \A q \in LinesWith(t, s) : b < q /\ q <= c /\ Len(LineFrom(t, q)) <= BUFSIZE =>
           \E i \in 1 .. Len(pieces) : pieces[i] = Printed(name, LineFrom(t, q)),
         Len(t) <= BUFSIZE =>
           \E v : /\ Ordered(v, {q \in LinesWith(t, s) : b < q /\ q <= c}, Len(pieces))
                  /\ \A i \in 1 .. Len(pieces) : pieces[i] = Printed(name, LineFrom(t, v[i]))
  PROVE  Found(name, t, s, c, o \o pieces)
<1> DEFINE old == {q \in LinesWith(t, s) : q <= b}
           new == {q \in LinesWith(t, s) : b < q /\ q <= c}
           all == {q \in LinesWith(t, s) : q <= c}
           o2  == o \o pieces
           m   == Len(pieces)
<1>1. /\ IsSequence(o2) /\ Len(o2) = Len(o) + m
      /\ \A k \in 1 .. Len(o) : o2[k] = o[k]
      /\ \A k \in Len(o) + 1 .. Len(o) + m : o2[k] = pieces[k - Len(o)]
  BY Joined
<1>2. m \in Nat /\ Len(o) \in Nat /\ Len(t) \in Nat /\ DOMAIN o = 1 .. Len(o)
      /\ DOMAIN o2 = 1 .. Len(o) + m
  <2>1. DOMAIN o2 = 1 .. Len(o2)
    BY <1>1, SequenceTyped
  <2> QED
    BY <1>1, <2>1, SequenceTyped
<1>3. LinesWith(t, s) \in SUBSET (1 .. Len(t) + 1)
  BY <1>2 DEF LinesWith
<1>4. all = old \cup new /\ old \in SUBSET Nat /\ new \in SUBSET Nat
      /\ \A x \in old, y \in new : x < y
  BY <1>3
<1>5. ASSUME NEW q \in all, Len(LineFrom(t, q)) <= BUFSIZE
      PROVE  \E j \in DOMAIN o2 : o2[j] = Printed(name, LineFrom(t, q))
  <2>1. CASE q \in old
    <3>1. PICK j \in DOMAIN o : o[j] = Printed(name, LineFrom(t, q))
      BY <1>5, <2>1 DEF Found
    <3>2. j \in DOMAIN o2 /\ o2[j] = o[j]
      <4> HIDE DEF o2, m
      <4> QED
        BY <1>1, <1>2
    <3> QED
      BY <3>1, <3>2
  <2>2. CASE q \in new
    <3>1. PICK i \in 1 .. m : pieces[i] = Printed(name, LineFrom(t, q))
      BY <1>5, <2>2
    <3>2. Len(o) + i \in DOMAIN o2 /\ o2[Len(o) + i] = pieces[i]
      <4> HIDE DEF o2, m
      <4>1. Len(o) + i \in Len(o) + 1 .. Len(o) + m /\ Len(o) + i - Len(o) = i
        BY <1>2
      <4>2. Len(o) + i \in 1 .. Len(o) + m
        BY <1>2
      <4> QED
        BY <1>1, <1>2, <4>1, <4>2
    <3> QED
      BY <3>1, <3>2
  <2> QED
    BY <1>4, <2>1, <2>2
<1>6. ASSUME Len(t) <= BUFSIZE
      PROVE  WrittenFor(name, o2) = WrittenAs(name, t, all)
  <2>1. PICK v : /\ Ordered(v, new, m)
                 /\ \A i \in 1 .. m : pieces[i] = Printed(name, LineFrom(t, v[i]))
    BY <1>6
  <2>2. PICK n \in Nat : \E w : Ordered(w, Own(name, o), n)
    BY OwnOrdered
  <2>3. PICK w : Ordered(w, Own(name, o), n)
    BY <2>2
  <2>4. WrittenFor(name, o2) = [j \in 1 .. n + m |-> IF j <= n THEN o[w[j]] ELSE pieces[j - n]]
    BY <2>3, OwnWritten
  <2>5. WrittenFor(name, o) = [j \in 1 .. n |-> o[w[j]]]
    BY <2>3, WrittenIs
  <2>6. PICK l \in Nat : \E x : Ordered(x, old, l)
    <3>1. old \in SUBSET (0 .. Len(t) + 1) /\ Len(t) + 1 \in Nat
      BY <1>2, <1>3
    <3> HIDE DEF old
    <3> QED
      BY <3>1, OrderExists
  <2>7. PICK x : Ordered(x, old, l)
    BY <2>6
  <2> HIDE DEF old, new, all, o2, m
  <2>8. WrittenAs(name, t, old) = [j \in 1 .. l |-> Printed(name, LineFrom(t, x[j]))]
    BY <1>4, <2>7, WrittenAsIs
  <2>9. WrittenFor(name, o) = WrittenAs(name, t, old)
    BY <1>6 DEF Found, old
  <2>10. l = n /\ \A j \in 1 .. n : o[w[j]] = Printed(name, LineFrom(t, x[j]))
    <3>1. [j \in 1 .. n |-> o[w[j]]] = [j \in 1 .. l |-> Printed(name, LineFrom(t, x[j]))]
      BY <2>5, <2>8, <2>9
    <3>2. DOMAIN [j \in 1 .. n |-> o[w[j]]] = 1 .. n
          /\ DOMAIN [j \in 1 .. l |-> Printed(name, LineFrom(t, x[j]))] = 1 .. l
      OBVIOUS
    <3>3. 1 .. n = 1 .. l
      BY <3>1, <3>2
    <3>4. l = n
      BY <3>3
    <3> QED
      BY <3>1, <3>4
  <2> DEFINE u == [i \in 1 .. l + m |-> IF i <= l THEN x[i] ELSE v[i - l]]
  <2>11. Ordered(u, all, l + m)
    BY <1>2, <1>4, <2>1, <2>7, OrderJoined
  <2>12. WrittenAs(name, t, all) = [j \in 1 .. l + m |-> Printed(name, LineFrom(t, u[j]))]
    <3>1. all \in SUBSET Nat /\ l + m \in Nat
      BY <1>2, <1>4
    <3> HIDE DEF u
    <3> QED
      BY <2>11, <3>1, WrittenAsIs
  <2>13. ASSUME NEW j \in 1 .. n + m
         PROVE  (IF j <= n THEN o[w[j]] ELSE pieces[j - n]) = Printed(name, LineFrom(t, u[j]))
    <3>1. CASE j <= n
      <4>1. j \in 1 .. n /\ u[j] = x[j]
        BY <1>2, <2>10, <3>1
      <4> QED
        BY <2>10, <3>1, <4>1
    <3>2. CASE ~(j <= n)
      <4>1. j - n \in 1 .. m /\ u[j] = v[j - n]
        BY <1>2, <2>10, <3>2
      <4> QED
        BY <2>1, <3>2, <4>1
    <3> QED
      BY <3>1, <3>2
  <2> HIDE DEF u
  <2> QED
    BY <2>4, <2>10, <2>12, <2>13
<1> QED
  BY <1>5, <1>6 DEF Found

\* One pass over the buffer: what it prints, for any file.
LEMMA MatchesAre ==
  ASSUME NEW data, NEW last \in Nat, NEW cnt, NEW s
  PROVE  \E m \in Nat : \E w :
           /\ Ordered(w, Hits(data, last, cnt, s), m)
           /\ Matches(data, last, cnt, s) =
                [k \in 1 .. m |-> UpToNul(Slice(data, w[k], LineEnd(data, last, w[k])))]
           /\ \A k \in 1 .. m :
                IsSequence(UpToNul(Slice(data, w[k], LineEnd(data, last, w[k]))))
<1> DEFINE H == Hits(data, last, cnt, s)
<1>1. H \in SUBSET (0 .. last) /\ \A p \in H : p \in LineStarts(data, last)
  BY DEF Hits, LineStarts
<1>2. PICK m \in Nat : \E w : Ordered(w, H, m)
  <2> HIDE DEF H
  <2> QED
    BY <1>1, OrderExists
<1>3. PICK w : Ordered(w, H, m)
  BY <1>2
<1>4. InOrder(H) = w
  <2>1. H \in SUBSET Nat
    BY <1>1
  <2> HIDE DEF H
  <2> QED
    BY <1>3, <2>1, InOrderIs
<1>5. DOMAIN w = 1 .. m /\ \A k \in 1 .. m : w[k] \in H
  BY <1>3 DEF Ordered
<1>6. Matches(data, last, cnt, s) =
        [k \in DOMAIN InOrder(H) |->
           UpToNul(Slice(data, InOrder(H)[k], LineEnd(data, last, InOrder(H)[k])))]
  BY DEF Matches, Hits
<1>7. ASSUME NEW k \in 1 .. m
      PROVE  IsSequence(UpToNul(Slice(data, w[k], LineEnd(data, last, w[k]))))
  <2>1. PICK p \in LineStarts(data, last) : p = w[k]
    BY <1>1, <1>5
  <2>2. PICK e : e = LineEnd(data, last, p)
    OBVIOUS
  <2>3. p \in 0 .. last /\ e \in p .. last
    BY <2>2, LineEndIs
  <2>4. p \in Nat /\ e \in Nat /\ p <= e
    BY <2>3
  <2>5. IsSequence(Slice(data, p, e))
    BY <2>4, SliceIs
  <2> QED
    BY <2>1, <2>2, <2>5, UpToNulEnds
<1> HIDE DEF H
<1> QED
  BY <1>3, <1>4, <1>5, <1>6, <1>7 DEF H

\* One pass over the buffer prints the lines that are not kept.
LEMMA ScanPrints ==
  ASSUME NEW t, NEW data, NEW base, NEW last, NEW cnt, InBuffer(t, data, base, last, cnt),
         Len(t) <= BUFSIZE => Short(t, data, base, last),
         NEW s, IsClean(s), s # <<>>, NEW name, IsSequence(name),
         NEW o, IsSequence(o), Found(name, t, s, base, o),
         NEW next, \/ next = base + last /\ Kept(data, last, cnt) = {}
                   \/ \E start \in Kept(data, last, cnt) : next = base + start,
         NEW m \in Nat, NEW w, Ordered(w, Hits(data, last, cnt, s), m),
         NEW pieces, IsSequence(pieces), Len(pieces) = m,
         \A k \in 1 .. m : pieces[k] =
           Printed(name, UpToNul(Slice(data, w[k], LineEnd(data, last, w[k])))),
         \A k \in 1 .. m : IsPrefix(Colon(name), pieces[k])
  PROVE  Found(name, t, s, next, o \o pieces)
<1> DEFINE H == Hits(data, last, cnt, s)
           K == Kept(data, last, cnt)
<1>1. /\ IsClean(t) /\ BUFSIZE \in Nat /\ base \in Nat /\ last \in Nat
      /\ IsSequence(s) /\ IsSequence(t)
  BY DEF InBuffer, IsClean
<1>2. /\ next \in Nat /\ base <= next /\ next <= base + last
      /\ \A p \in LineStarts(data, last) \ K : p < last => base + p < next
      /\ \A p \in K : next <= base + p
  <2>1. CASE next = base + last /\ K = {}
    <3>1. \A p \in LineStarts(data, last) : p \in Nat
      BY <1>1 DEF LineStarts
    <3> QED
      BY <1>1, <2>1, <3>1
  <2>2. ASSUME NEW start \in K, next = base + start
        PROVE  /\ next \in Nat /\ base <= next /\ next <= base + last
               /\ \A p \in LineStarts(data, last) \ K : p < last => base + p < next
               /\ \A p \in K : next <= base + p
    <3>1. /\ start \in 1 .. last - 1
          /\ \A p \in LineStarts(data, last) : p <= start
          /\ \A p \in K : p = start
      BY <1>1, KeptIs
    <3>2. \A p \in LineStarts(data, last) : p \in Nat
      BY <1>1 DEF LineStarts
    <3> HIDE DEF K
    <3> QED
      BY <1>1, <2>2, <3>1, <3>2
  <2> QED
    BY <2>1, <2>2
<1>3. \A p \in H : p \in LineStarts(data, last) \ K /\ p \in Nat
  BY <1>1 DEF Hits, LineStarts
<1>4. w \in [1 .. m -> H] /\ \A p \in H : \E i \in 1 .. m : w[i] = p
  BY DEF Ordered
<1>5. ASSUME NEW q \in LinesWith(t, s), base < q, q <= next, Len(LineFrom(t, q)) <= BUFSIZE
      PROVE  /\ q - base - 1 \in H
             /\ \E i \in 1 .. m : w[i] = q - base - 1 /\ pieces[i] = Printed(name, LineFrom(t, q))
  <2>1. q \in 1 .. Len(t) /\ q \in Nat
    BY <1>1, LinesWithIs
  <2>2. q <= base + last
    BY <1>1, <1>2, <1>5, <2>1
  <2>3. q - base - 1 \notin K
    BY <1>1, <1>2, <1>5, <2>1
  <2>4. LET p == q - base - 1 IN
        /\ p \in H
        /\ UpToNul(Slice(data, p, LineEnd(data, last, p))) = LineFrom(t, q)
    BY <1>1, <1>5, <2>2, <2>3, ScanFinds
  <2>5. PICK p \in H : p = q - base - 1
    BY <2>4
  <2> HIDE DEF H
  <2>6. PICK i \in 1 .. m : w[i] = p
    BY <1>4
  <2>7. pieces[i] = Printed(name, LineFrom(t, q))
    BY <2>4, <2>5, <2>6
  <2> QED
    BY <2>5, <2>6, <2>7
<1> DEFINE new == {q \in LinesWith(t, s) : base < q /\ q <= next}
           v   == [i \in 1 .. m |-> w[i] + (base + 1)]
<1>6. ASSUME Len(t) <= BUFSIZE
      PROVE  /\ Ordered(v, new, m)
             /\ \A i \in 1 .. m : pieces[i] = Printed(name, LineFrom(t, v[i]))
  <2>1. Short(t, data, base, last)
    BY <1>6
  <2>2. ASSUME NEW p \in H
        PROVE  /\ p + (base + 1) \in new
               /\ Len(LineFrom(t, p + (base + 1))) <= BUFSIZE
    <3>1. /\ base + p + 1 \in LinesWith(t, s) /\ p < last
          /\ Len(LineFrom(t, base + p + 1)) <= BUFSIZE
      BY <2>1, ScanFindsOnly
    <3>2. p \in Nat /\ base + p < next
      BY <1>2, <1>3, <3>1
    <3>3. PICK q : q = base + p + 1
      OBVIOUS
    <3>4. q = p + (base + 1) /\ base < q /\ q <= next
      BY <1>1, <1>2, <3>2, <3>3
    <3> QED
      BY <3>1, <3>3, <3>4
  <2>3. ASSUME NEW q \in new
        PROVE  \E p \in H : q = p + (base + 1)
    <3>1. q \in 1 .. Len(t) /\ q \in Nat
      BY <1>1, LinesWithIs
    <3>2. Len(LineFrom(t, q)) <= BUFSIZE
      <4>1. q \in 1 .. Len(t) + 1 /\ Len(t) \in Nat
        BY <1>1, <3>1 DEF IsSequence
      <4>2. IsSequence(LineFrom(t, q)) /\ q + Len(LineFrom(t, q)) \in q .. Len(t) + 1
        BY <1>1, <4>1, LineAt
      <4>3. PICK n \in Nat : n = Len(LineFrom(t, q))
        BY <4>2 DEF IsSequence
      <4>4. q + n <= Len(t) + 1 /\ 1 <= q
        BY <3>1, <4>2, <4>3
      <4> QED
        BY <1>1, <1>6, <3>1, <4>1, <4>3, <4>4
    <3>3. q - base - 1 \in H
      BY <1>5, <3>2
    <3>4. q = (q - base - 1) + (base + 1)
      BY <1>1, <3>1
    <3> QED
      BY <3>3, <3>4
  <2>4. new = {p + (base + 1) : p \in H}
    <3> HIDE DEF new, H
    <3> QED
      BY <2>2, <2>3
  <2>5. Ordered(v, {p + (base + 1) : p \in H}, m)
    <3>1. H \in SUBSET Nat /\ base + 1 \in Nat
      BY <1>1, <1>3
    <3> HIDE DEF H
    <3> QED
      BY <3>1, OrderShifted DEF H
  <2>6. ASSUME NEW i \in 1 .. m
        PROVE  pieces[i] = Printed(name, LineFrom(t, v[i]))
    <3>1. w[i] \in H /\ w[i] \in Nat /\ v[i] = w[i] + (base + 1)
      BY <1>3, <1>4
    <3>2. PICK q \in new : q = v[i] /\ Len(LineFrom(t, q)) <= BUFSIZE
      BY <2>2, <3>1
    <3>3. PICK j \in 1 .. m : w[j] = q - base - 1 /\ pieces[j] = Printed(name, LineFrom(t, q))
      BY <1>5, <3>2
    <3>4. w[j] = w[i]
      <4>1. base \in Nat
        BY <1>1
      <4>2. w[i] + (base + 1) - base - 1 = w[i]
        BY <3>1, <4>1
      <4>3. q = w[i] + (base + 1)
        BY <3>1, <3>2, Zenon
      <4>4. w[j] = q - base - 1
        BY <3>3
      <4>5. PICK x, y : x = w[i] /\ y = w[j]
        OBVIOUS
      <4>6. x \in Nat /\ q = x + (base + 1) /\ y = q - base - 1
        BY <3>1, <4>3, <4>4, <4>5
      <4>7. y = x
        BY <4>1, <4>6
      <4> QED
        BY <4>5, <4>7
    <3>5. pieces[j] = pieces[i]
      BY <3>4
    <3> QED
      BY <3>2, <3>3, <3>5
  <2> HIDE DEF v, new
  <2> QED
    BY <2>4, <2>5, <2>6
<1>7. \A q \in LinesWith(t, s) : base < q /\ q <= next /\ Len(LineFrom(t, q)) <= BUFSIZE =>
        \E i \in 1 .. Len(pieces) : pieces[i] = Printed(name, LineFrom(t, q))
  BY <1>5
<1>8. Len(t) <= BUFSIZE =>
        \E x : /\ Ordered(x, new, Len(pieces))
               /\ \A i \in 1 .. Len(pieces) : pieces[i] = Printed(name, LineFrom(t, x[i]))
  <2> HIDE DEF new, v
  <2> QED
    BY <1>6
<1> QED
  BY <1>1, <1>2, <1>7, <1>8, FoundMore

-----------------------------------------------------------------------------
(* grep, from its first step to its return *)

TextOf(k) == FileBytes(Entries[k].inode)

\* The files that the property is about.
Asked(k) == Entries[k].type = 2 /\ Entries[k].name[1] # Dot[1] /\ IsText(Entries[k].inode)

\* All of the entries before n is printed, and n up to b.
AllFound(n, b) ==
  \A k \in 1 .. NumEntries :
    Asked(k) =>
      Found(Entries[k].name, TextOf(k), Arguments(command[Me]),
            IF k < n THEN Len(TextOf(k)) ELSE IF k = n THEN b ELSE 0, out)

Reading == file_array[Displayed][local.file_fd]

\* The buffer holds the last bytes read of the entry, from base on.
WindowToRead(base) ==
  Asked(dir_index) =>
    /\ base + local.last = Reading.f_pos /\ local.last < BUFSIZE
    /\ Holds(TextOf(dir_index), local.data, base, local.last)
    /\ Len(TextOf(dir_index)) <= BUFSIZE =>
         ShortRest(TextOf(dir_index), local.data, base, local.last)
WindowToScan(base) ==
  Asked(dir_index) =>
    /\ base + local.last = Reading.f_pos
    /\ InBuffer(TextOf(dir_index), local.data, base, local.last, local.cnt)
    /\ Len(TextOf(dir_index)) <= BUFSIZE =>
         Short(TextOf(dir_index), local.data, base, local.last)

Named ==
  /\ dir_index \in 1 .. NumEntries
  /\ local.buf = Entries[dir_index].name /\ local.buf[1] # Dot[1]
SameFile ==
  /\ local.file_fd # local.fd
  /\ Reading.kind = KindOf(Entries[dir_index]).kind
  /\ Reading.inode = KindOf(Entries[dir_index]).inode

\* What the lines are looked for with, and the byte behind the buffer.
Searching ==
  /\ local.search = Arguments(command[Me])
  /\ local.dirt # NL => local.data[BUFSIZE] # NL
Promised == Arguments(command[Me]) # <<>> /\ local.dirt # NL

GrepIn ==
  prog[Me] = "grep" =>
    /\ pc \in {"main", "opendir"} => out = <<>>
    /\ pc \in {"opendir", "readdir", "open", "readfile", "scan", "close"} => Searching
    /\ pc \in {"readdir", "open", "readfile", "scan", "close"} =>
         IsSequence(out) /\ file_array[Displayed][local.fd].kind = "dir"
    /\ pc \in {"open", "readfile", "scan", "close"} => Named
    /\ pc \in {"readfile", "scan", "close"} => SameFile
    /\ Promised =>
         /\ pc \in {"readdir", "close"} => AllFound(dir_index + 1, 0)
         /\ pc = "open" => AllFound(dir_index, 0)
         /\ pc = "readfile" => \E base \in Nat : AllFound(dir_index, base) /\ WindowToRead(base)
         /\ pc = "scan" => \E base \in Nat : AllFound(dir_index, base) /\ WindowToScan(base)
         /\ pc = "halt" /\ local.status = 0 => AllFound(NumEntries + 1, 0)

LEMMA AskedIs ==
  ASSUME NEW k \in 1 .. NumEntries, Asked(k)
  PROVE  /\ Entries[k].inode \in Inodes /\ IsClean(TextOf(k)) /\ IsSequence(TextOf(k))
         /\ Len(TextOf(k)) \in Nat
         /\ KindOf(Entries[k]).kind = "file" /\ KindOf(Entries[k]).inode = Entries[k].inode
<1>1. Entries[k].type = 2 /\ IsText(Entries[k].inode)
  BY DEF Asked
<1>2. /\ KindOf(Entries[k]).kind = "file" /\ KindOf(Entries[k]).inode = Entries[k].inode
      /\ Entries[k].inode \in Inodes
  BY <1>1, KindIsType
<1> QED
  BY <1>1, <1>2, BytesOfFile DEF TextOf

\* What a step of a program leaves alone.
LEMMA GrepSame ==
  ASSUME Quiet, prog[Me] = "grep"
  PROVE  /\ prog'[Me'] = "grep" /\ Arguments(command'[Me']) = Arguments(command[Me])
         /\ Displayed' = Displayed
         /\ \A k : TextOf(k)' = TextOf(k)
         /\ \A k : Asked(k)' <=> Asked(k)
<1>1. /\ prog'[Me'] = prog[Me] /\ command'[Me'] = command[Me] /\ Displayed' = Displayed
      /\ disk' = disk
  BY QuietSame DEF Quiet, Stay
<1>2. ASSUME NEW k
      PROVE  TextOf(k)' = TextOf(k) /\ (Asked(k)' <=> Asked(k))
  BY <1>1 DEF TextOf, Asked, IsText, FileBytes
<1> QED
  BY <1>1, <1>2

LEMMA AllFoundSame ==
  ASSUME Quiet, prog[Me] = "grep", out' = out, NEW n, NEW b, AllFound(n, b)
  PROVE  AllFound(n, b)'
BY GrepSame DEF AllFound

\* An entry that nobody asked for.
LEMMA AllFoundNext ==
  ASSUME NEW n \in Nat, AllFound(n, 0), ~Asked(n)
  PROVE  AllFound(n + 1, 0)
<1> SUFFICES ASSUME NEW k \in 1 .. NumEntries, Asked(k)
             PROVE  Found(Entries[k].name, TextOf(k), Arguments(command[Me]),
                          IF k < n + 1 THEN Len(TextOf(k)) ELSE IF k = n + 1 THEN 0 ELSE 0, out)
  BY DEF AllFound
<1>1. NumEntries \in Nat
  BY ImageAssumption
<1>2. k # n
  OBVIOUS
<1>3. (IF k < n + 1 THEN Len(TextOf(k)) ELSE IF k = n + 1 THEN 0 ELSE 0) =
        (IF k < n THEN Len(TextOf(k)) ELSE IF k = n THEN 0 ELSE 0)
  BY <1>1, <1>2
<1>4. Found(Entries[k].name, TextOf(k), Arguments(command[Me]),
            IF k < n THEN Len(TextOf(k)) ELSE IF k = n THEN 0 ELSE 0, out)
  BY DEF AllFound
<1> QED
  BY <1>3, <1>4

LEMMA FoundNothing ==
  ASSUME NEW name, NEW t, IsSequence(t), NEW s
  PROVE  Found(name, t, s, 0, <<>>)
<1> DEFINE before == {q \in LinesWith(t, s) : q <= 0}
           w == [i \in 1 .. 0 |-> i]
<1>1. before = {}
  <2>1. Len(t) \in Nat
    BY DEF IsSequence
  <2> QED
    BY <2>1 DEF LinesWith
<1>2. Own(name, <<>>) = {}
  <2>1. DOMAIN <<>> = {}
    OBVIOUS
  <2> QED
    BY <2>1 DEF Own
<1>3. Ordered(w, {}, 0)
  BY DEF Ordered
<1>31. PICK none : none = <<>>
  OBVIOUS
<1> HIDE DEF w
<1>4. WrittenFor(name, none) = [j \in 1 .. 0 |-> none[w[j]]]
  <2>1. IsSequence(none) /\ Ordered(w, Own(name, none), 0)
    BY <1>2, <1>3, <1>31, EmptySequence
  <2> QED
    BY <2>1, WrittenIs
<1>5. WrittenAs(name, t, {}) = [j \in 1 .. 0 |-> Printed(name, LineFrom(t, w[j]))]
  BY <1>3, WrittenAsIs
<1>6. WrittenFor(name, none) = WrittenAs(name, t, {})
  <2>1. \A j \in 1 .. 0 : FALSE
    OBVIOUS
  <2> QED
    BY <1>4, <1>5, <2>1
<1> HIDE DEF before
<1> QED
  BY <1>1, <1>31, <1>6 DEF Found, before

\* After the end of the text nothing is left.
LEMMA FoundEnd ==
  ASSUME NEW name, NEW t, IsSequence(t), NEW s, IsSequence(s), s # <<>>, NEW o,
         NEW b \in Nat, b >= Len(t), Found(name, t, s, b, o)
  PROVE  Found(name, t, s, Len(t), o)
<1>1. Len(t) \in Nat
  BY DEF IsSequence
<1>2. ASSUME NEW q \in LinesWith(t, s)
      PROVE  q <= b /\ q <= Len(t)
  <2>1. q \in 1 .. Len(t)
    BY LinesWithIs
  <2> QED
    BY <1>1, <2>1
<1>3. {q \in LinesWith(t, s) : q <= b} = {q \in LinesWith(t, s) : q <= Len(t)}
  BY <1>2
<1> QED
  BY <1>3, Zenon DEF Found

\* The pattern is what was typed, without a NUL.
LEMMA PatternClean ==
  ASSUME Base, prog[Me] = "grep"
  PROVE  /\ IsClean(Arguments(command[Me])) /\ GetArgs = Arguments(command[Me])
<1>1. Me = depth[1] /\ Me \in 1 .. MaxDepth /\ MaxDepth \in Nat
  BY OneTerminal, SizesAssumption DEF Base, Counted
<1>2. Me # 1
  BY DEF Base, StateTyped
<1>3. Me \in 2 .. MaxDepth /\ Me <= depth[1]
  BY <1>1, <1>2
<1>4. GetArgs = Arguments(command[Me])
  BY <1>3, OwnArgs DEF GetArgs
<1>5. command[Me] \in Lines
  BY <1>1, <1>3 DEF Base, ArgsIn
<1> QED
  BY <1>4, <1>5, LinesAssumption DEF IsClean

LEMMA GrepFails ==
  ASSUME NEW s \in {2, 3}, LocalTyped(local), \E message : Fail(message, s)
  PROVE  GrepIn'
<1>1. pc' = "halt" /\ local' = [local EXCEPT !.status = s]
  BY DEF Fail, Goto
<1>2. local'.status = s /\ s # 0
  BY <1>1 DEF LocalTyped, LocalFields
<1> QED
  BY <1>1, <1>2 DEF GrepIn

LEMMA GrepArgsKeeps ==
  ASSUME Base, GrepIn, GrepArgs
  PROVE  GrepIn'
<1>1. prog[Me] = "grep" /\ pc = "main" /\ Quiet /\ LocalTyped(local)
  <2>1. prog[Me] = "grep" /\ pc = "main" /\ LocalTyped(local)
    BY DEF GrepArgs, At, Base, StateTyped
  <2> QED
    BY <2>1, GrepQuiet
<1>2. CASE ArgsFit(BUFSIZE)
  <2>1. PICK dirt : /\ pc' = "opendir" /\ out' = out
                    /\ local' = [Locals(dirt) EXCEPT !.search = GetArgs]
    BY <1>2 DEF GrepArgs, Goto
  <2>2. /\ local'.search = GetArgs /\ local'.dirt = dirt
        /\ local'.data = [k \in 0 .. BUFSIZE |-> dirt]
    BY <2>1 DEF Locals
  <2>3. local'.data[BUFSIZE] = dirt
    BY <2>2, ProgramSizesAssumption
  <2>4. Searching'
    <3>1. GetArgs = Arguments(command'[Me'])
      BY <1>1, PatternClean, GrepSame
    <3> QED
      BY <2>2, <2>3, <3>1 DEF Searching
  <2>5. out = <<>>
    BY <1>1 DEF GrepIn
  <2> QED
    BY <2>1, <2>4, <2>5 DEF GrepIn
<1>3. CASE ~ArgsFit(BUFSIZE)
  BY <1>1, <1>3, GrepFails DEF GrepArgs
<1> QED
  BY <1>2, <1>3

LEMMA GrepOpenDirKeeps ==
  ASSUME Base, GrepIn, GrepOpenDir
  PROVE  GrepIn'
<1>1. prog[Me] = "grep" /\ pc = "opendir" /\ Quiet /\ LocalTyped(local) /\ Counted
  <2>1. prog[Me] = "grep" /\ pc = "opendir" /\ LocalTyped(local) /\ Counted
    BY DEF GrepOpenDir, At, Base, StateTyped
  <2> QED
    BY <2>1, GrepQuiet
<1>2. CASE CanOpen(Dot)
  <2>1. PICK low \in Fds : low = LowestFree
    BY <1>1, <1>2, OpenedFd
  <2>2. pc' = "readdir" /\ out' = out /\ local' = [local EXCEPT !.fd = low]
    BY <1>2, <2>1 DEF GrepOpenDir, Goto
  <2>3. /\ local'.search = local.search /\ local'.dirt = local.dirt /\ local'.fd = low
        /\ local'.data = local.data
    BY <1>1, <2>2 DEF LocalTyped, LocalFields
  <2>4. out = <<>> /\ Searching
    BY <1>1 DEF GrepIn
  <2>5. Searching'
    BY <1>1, <2>3, <2>4, GrepSame DEF Searching
  <2>6. PICK k \in Lookup(Dot) : OpenFile(k)
    BY <1>2 DEF GrepOpenDir, OpenCall
  <2>7. k \in 1 .. NumEntries /\ KindOf(Entries[k]).kind = "dir"
    BY LookupEntries, DotListed, KindIsType
  <2>8. /\ Displayed \in Processes
        /\ file_array' = [file_array EXCEPT ![Displayed][low] = KindOf(Entries[k])]
        /\ dir_index' = 0
    BY <1>1, <2>1, <2>6, <2>7, OpensLowest DEF DirOpen
  <2>9. file_array'[Displayed'][low].kind = "dir"
    <3>1. PICK p \in Processes : p = Displayed
      BY <2>8
    <3>2. DOMAIN file_array = Processes /\ DOMAIN file_array[p] = Fds
      BY <1>1 DEF Counted, TypeOK
    <3>3. file_array'[p][low] = KindOf(Entries[k])
      BY <2>8, <3>1, <3>2
    <3>4. Displayed' = p
      BY <1>1, <3>1, GrepSame
    <3> QED
      BY <2>7, <3>3, <3>4
  <2>10. AllFound(1, 0)
    <3> SUFFICES ASSUME NEW j \in 1 .. NumEntries, Asked(j)
                 PROVE  Found(Entries[j].name, TextOf(j), Arguments(command[Me]),
                              IF j < 1 THEN Len(TextOf(j)) ELSE IF j = 1 THEN 0 ELSE 0, out)
      BY DEF AllFound
    <3>1. ~(j < 1)
      BY ImageAssumption
    <3> QED
      BY <2>4, <3>1, AskedIs, FoundNothing
  <2>11. AllFound(1, 0)'
    BY <1>1, <2>2, <2>10, AllFoundSame
  <2>12. AllFound(dir_index + 1, 0)'
    <3>1. dir_index' + 1 = 1
      BY <2>8
    <3> QED
      BY <2>11, <3>1
  <2> QED
    BY <2>2, <2>3, <2>4, <2>5, <2>9, <2>12, EmptySequence DEF GrepIn
<1>3. CASE ~CanOpen(Dot)
  BY <1>1, <1>3, GrepFails DEF GrepOpenDir
<1> QED
  BY <1>2, <1>3

\* A read of the directory delivers the next name, whole, or nothing at the end.
LEMMA DirDelivers ==
  ASSUME Counted, NEW fd \in Fds, file_array[Displayed][fd].kind = "dir"
  PROVE  LET name == Delivered(fd, FILE_NAME_SIZE) IN
         /\ dir_index \in 0 .. NumEntries /\ NumEntries \in Nat
         /\ dir_index < NumEntries => name = Entries[dir_index + 1].name /\ name # <<>>
         /\ ~(dir_index < NumEntries) => name = <<>>
<1>1. dir_index \in 0 .. NumEntries /\ NumEntries \in Nat
  BY ImageAssumption DEF Counted, TypeOK
<1>2. ASSUME dir_index < NumEntries
      PROVE  LET name == Delivered(fd, FILE_NAME_SIZE) IN
             name = Entries[dir_index + 1].name /\ name # <<>>
  <2> DEFINE n    == FILE_NAME_SIZE
             next == dir_index + 1
             name == Entries[next].name
  <2>1. next \in 1 .. NumEntries
    BY <1>1, <1>2
  <2>2. IsSequence(name) /\ Len(name) \in 1 .. n
    BY <2>1, NamesAssumption
  <2>3. Delivered(fd, n) = SubSeq(name, 1, IF Len(name) < n THEN Len(name) ELSE n)
    <3>1. ~(dir_index >= NumEntries)
      BY <1>1, <1>2
    <3> QED
      BY <3>1 DEF Delivered
  <2>4. n \in Nat
    BY ProgramSizesAssumption
  <2> HIDE DEF name, next, n
  <2>5. (IF Len(name) < n THEN Len(name) ELSE n) = Len(name) /\ Len(name) \in 0 .. Len(name)
        /\ Len(name) # 0
    BY <2>2, <2>4
  <2>6. Delivered(fd, n) = name /\ name # <<>>
    BY <2>2, <2>3, <2>5, Prefix, EmptySequence
  <2> QED
    BY <2>6 DEF n, name, next
<1>3. ASSUME ~(dir_index < NumEntries)
      PROVE  Delivered(fd, FILE_NAME_SIZE) = <<>>
  <2>1. dir_index >= NumEntries
    BY <1>1, <1>3
  <2> QED
    BY <2>1 DEF Delivered
<1> QED
  BY <1>1, <1>2, <1>3

LEMMA GrepReadDirKeeps ==
  ASSUME Base, GrepIn, GrepReadDir
  PROVE  GrepIn'
<1>1. prog[Me] = "grep" /\ pc = "readdir" /\ Quiet /\ LocalTyped(local) /\ Counted
      /\ local.fd \in Fds
  <2>1. prog[Me] = "grep" /\ pc = "readdir" /\ LocalTyped(local) /\ Counted
        /\ local.fd \in Fds
    BY DEF GrepReadDir, At, Base, StateTyped, FdsIn
  <2> QED
    BY <2>1, GrepQuiet
<1>2. /\ Searching /\ IsSequence(out) /\ file_array[Displayed][local.fd].kind = "dir"
      /\ Promised => AllFound(dir_index + 1, 0)
  BY <1>1 DEF GrepIn
<1>3. CASE ~CanRead(local.fd)
  BY <1>1, <1>3, GrepFails DEF GrepReadDir
<1>4. CASE CanRead(local.fd)
  <2>0. FILE_NAME_SIZE \in Nat /\ ReadCall(local.fd, FILE_NAME_SIZE)
    <3>1. FILE_NAME_SIZE \in Nat
      BY ProgramSizesAssumption
    <3>2. ReadCall(local.fd, FILE_NAME_SIZE)
      BY Zenon DEF GrepReadDir
    <3> QED
      BY <3>1, <3>2
  <2>1. PICK fd \in Fds : fd = local.fd
    BY <1>1
  <2>2. PICK name : name = Delivered(local.fd, FILE_NAME_SIZE)
    OBVIOUS
  <2>3. /\ dir_index \in 0 .. NumEntries /\ NumEntries \in Nat
        /\ dir_index < NumEntries => name = Entries[dir_index + 1].name /\ name # <<>>
        /\ ~(dir_index < NumEntries) => name = <<>>
    BY <1>1, <1>2, <2>2, DirDelivers
  <2>4. /\ file_array'[Displayed'][fd].kind = "dir"
        /\ dir_index' = IF dir_index < NumEntries THEN dir_index + 1 ELSE dir_index
    BY <1>1, <1>2, <1>4, <2>0, <2>1, ReadEffect
  <2>5. out' = out
    BY <1>4 DEF GrepReadDir, Return, Goto
  <2>6. CASE name = <<>>
    <3>1. pc' = "halt"
      BY <1>4, <2>2, <2>6 DEF GrepReadDir, Return, Goto
    <3>2. dir_index = NumEntries
      BY <2>3, <2>6
    <3>3. Promised' <=> Promised
      <4>1. local'.dirt = local.dirt
        BY <1>1, <1>4, <2>2, <2>6 DEF GrepReadDir, Return, Goto, LocalTyped, LocalFields
      <4> QED
        BY <1>1, <4>1, GrepSame DEF Promised
    <3>4. Promised => AllFound(NumEntries + 1, 0)'
      BY <1>1, <1>2, <2>5, <3>2, AllFoundSame
    <3> QED
      BY <3>1, <3>3, <3>4 DEF GrepIn
  <2>7. CASE name # <<>>
    <3>1. /\ pc' = IF name[1] = Dot[1] THEN "readdir" ELSE "open"
          /\ local' = [local EXCEPT !.buf = name]
      BY <1>4, <2>2, <2>7 DEF GrepReadDir, Goto
    <3>2. /\ local'.search = local.search /\ local'.dirt = local.dirt /\ local'.fd = fd
          /\ local'.data = local.data /\ local'.buf = name
      BY <1>1, <2>1, <3>1 DEF LocalTyped, LocalFields
    <3>3. Searching' /\ (Promised' <=> Promised)
      BY <1>1, <1>2, <3>2, GrepSame DEF Searching, Promised
    <3>4. PICK next \in 1 .. NumEntries : next = dir_index + 1
      BY <2>3, <2>7
    <3>5. name = Entries[next].name /\ dir_index' = next
      BY <2>3, <2>4, <2>7, <3>4
    <3>6. CASE name[1] = Dot[1]
      <4>1. ~Asked(next)
        BY <3>5, <3>6 DEF Asked
      <4>2. Promised => AllFound(next + 1, 0)
        BY <1>2, <3>4, <4>1, AllFoundNext
      <4>3. Promised => AllFound(next + 1, 0)'
        BY <1>1, <2>5, <4>2, AllFoundSame
      <4>4. pc' = "readdir"
        BY <3>1, <3>6
      <4>5. (AllFound(dir_index + 1, 0))' <=> AllFound(next + 1, 0)'
        BY <3>5
      <4> QED
        BY <1>2, <2>4, <2>5, <3>2, <3>3, <4>3, <4>4, <4>5 DEF GrepIn
    <3>7. CASE name[1] # Dot[1]
      <4>1. Promised => AllFound(next, 0)'
        BY <1>1, <1>2, <2>5, <3>4, AllFoundSame
      <4>2. pc' = "open"
        BY <3>1, <3>7
      <4>3. Named'
        BY <3>2, <3>5, <3>7 DEF Named
      <4>4. (AllFound(dir_index, 0))' <=> AllFound(next, 0)'
        BY <3>5
      <4> QED
        BY <1>2, <2>4, <2>5, <3>2, <3>3, <4>1, <4>2, <4>3, <4>4 DEF GrepIn
    <3> QED
      BY <3>6, <3>7
  <2> QED
    BY <2>6, <2>7
<1> QED
  BY <1>3, <1>4

\* The entry of a name that does not begin with a dot.
LEMMA NamedFile ==
  ASSUME Named, NEW k \in Lookup(local.buf)
  PROVE  k = dir_index /\ Entries[k].type # 1
<1>1. /\ dir_index \in 1 .. NumEntries /\ local.buf = Entries[dir_index].name
      /\ local.buf[1] # Dot[1]
  BY DEF Named
<1>2. PICK name : name = local.buf
  OBVIOUS
<1>3. IsSequence(name) /\ Len(name) \in 1 .. FILE_NAME_SIZE
  BY <1>1, <1>2, NamesAssumption
<1>4. Cut(name) = name
  <2>1. PICK n : n = FILE_NAME_SIZE /\ n \in Nat
    BY ProgramSizesAssumption
  <2>2. (IF Len(name) < n THEN Len(name) ELSE n) = Len(name) /\ Len(name) \in 0 .. Len(name)
    BY <1>3, <2>1
  <2>3. Cut(name) = SubSeq(name, 1, Len(name))
    BY <2>1, <2>2 DEF Cut
  <2> QED
    BY <1>3, <2>2, <2>3, Prefix
<1>5. k \in 1 .. NumEntries /\ Entries[k].name = name
  BY <1>2, <1>4 DEF Lookup
<1>6. k = dir_index
  BY <1>1, <1>2, <1>5, DirectoryAssumption
<1>7. name # Dot
  BY <1>1, <1>2
<1> QED
  BY <1>5, <1>6, <1>7, DirectoryAssumption

LEMMA GrepOpenKeeps ==
  ASSUME Base, GrepIn, GrepOpen
  PROVE  GrepIn'
<1>1. prog[Me] = "grep" /\ pc = "open" /\ Quiet /\ LocalTyped(local) /\ Counted
      /\ local.fd \in Fds
  <2>1. prog[Me] = "grep" /\ pc = "open" /\ LocalTyped(local) /\ Counted
        /\ local.fd \in Fds
    BY DEF GrepOpen, At, Base, StateTyped, FdsIn
  <2> QED
    BY <2>1, GrepQuiet
<1>2. /\ Searching /\ IsSequence(out) /\ file_array[Displayed][local.fd].kind = "dir"
      /\ Named
      /\ Promised => AllFound(dir_index, 0)
  BY <1>1 DEF GrepIn
<1>3. CASE ~CanOpen(local.buf)
  BY <1>1, <1>3, GrepFails DEF GrepOpen
<1>4. CASE CanOpen(local.buf)
  <2>1. PICK k \in Lookup(local.buf) : OpenFile(k)
    BY <1>4 DEF GrepOpen, OpenCall
  <2>2. k = dir_index /\ Entries[k].type # 1 /\ k \in 1 .. NumEntries
    BY <1>2, NamedFile, LookupEntries
  <2>3. KindOf(Entries[k]).kind # "dir" /\ KindOf(Entries[k]).f_pos = 0
    BY <2>2, KindIsType
  <2>4. PICK low \in Fds : low = LowestFree
    BY <1>1, <1>4, OpenedFd
  <2>5. /\ low \notin Open(Displayed) /\ Displayed \in Processes
        /\ file_array' = [file_array EXCEPT ![Displayed][low] = KindOf(Entries[k])]
        /\ dir_index' = dir_index
    BY <1>1, <2>1, <2>2, <2>3, <2>4, OpensLowest DEF DirOpen
  <2>6. PICK p \in Processes : p = Displayed /\ p = Displayed'
    BY <1>1, <2>5, GrepSame
  <2>7. PICK fd \in Fds : fd = local.fd
    BY <1>1
  <2>8. low # fd
    BY <1>2, <2>5, <2>7 DEF Open
  <2>9. file_array'[p][low] = KindOf(Entries[k]) /\ file_array'[p][fd] = file_array[p][fd]
    <3>1. DOMAIN file_array = Processes /\ DOMAIN file_array[p] = Fds
      BY <1>1 DEF Counted, TypeOK
    <3> QED
      BY <2>5, <2>6, <2>8, <3>1
  <2>10. /\ pc' = "readfile" /\ out' = out
         /\ local' = [local EXCEPT !.file_fd = low, !.last = 0]
    BY <1>4, <2>4 DEF GrepOpen, Goto
  <2>11. /\ local'.search = local.search /\ local'.dirt = local.dirt /\ local'.fd = fd
         /\ local'.data = local.data /\ local'.buf = local.buf /\ local'.file_fd = low
         /\ local'.last = 0
    BY <1>1, <2>7, <2>10 DEF LocalTyped, LocalFields
  <2>12. Searching' /\ (Promised' <=> Promised) /\ Named'
    BY <1>1, <1>2, <2>5, <2>11, GrepSame DEF Searching, Promised, Named
  <2>13. Reading' = KindOf(Entries[dir_index])
    BY <2>2, <2>6, <2>9, <2>11 DEF Reading
  <2>14. SameFile'
    BY <2>5, <2>8, <2>11, <2>13 DEF SameFile
  <2>15. file_array'[Displayed'][local'.fd].kind = "dir"
    BY <1>2, <2>6, <2>7, <2>9, <2>11
  <2>16. WindowToRead(0)'
    <3>1. ASSUME Asked(k)
          PROVE  /\ 0 + 0 = KindOf(Entries[k]).f_pos /\ 0 < BUFSIZE
                 /\ Holds(TextOf(k), local.data, 0, 0)
                 /\ Len(TextOf(k)) <= BUFSIZE => ShortRest(TextOf(k), local.data, 0, 0)
      <4>1. BUFSIZE \in Nat /\ 0 < BUFSIZE
        BY ProgramSizesAssumption
      <4>2. \A x \in 0 .. 0 - 1 : FALSE
        OBVIOUS
      <4> QED
        BY <2>3, <4>1, <4>2 DEF Holds, ShortRest, Exactly
    <3>2. (Asked(k)' <=> Asked(k)) /\ TextOf(k)' = TextOf(k)
      BY <1>1, GrepSame
    <3> QED
      BY <2>2, <2>5, <2>11, <2>13, <3>1, <3>2 DEF WindowToRead
  <2>17. Promised => AllFound(k, 0)'
    BY <1>1, <1>2, <2>2, <2>10, AllFoundSame
  <2>18. Promised => (AllFound(dir_index, 0))'
    BY <2>2, <2>5, <2>17
  <2> QED
    BY <1>2, <2>10, <2>12, <2>14, <2>15, <2>16, <2>18 DEF GrepIn
<1> QED
  BY <1>3, <1>4

\* A read of a file concerns no other descriptor.
LEMMA ReadOthers ==
  ASSUME Counted, NEW fd \in Fds, NEW n \in Nat, CanRead(fd), ReadCall(fd, n),
         file_array[Displayed][fd].kind # "dir"
  PROVE  /\ dir_index' = dir_index
         /\ \A g \in Fds : g # fd => file_array'[Displayed'][g] = file_array[Displayed][g]
<1>1. PICK p \in Processes : p = Displayed
  BY Lookups DEF Counted
<1>2. Displayed' = p
  BY <1>1, ReadCalls DEF SameProcess, Displayed
<1>3. CASE FileRead(fd, n)
  <2>1. dir_index' = dir_index
    BY <1>3 DEF FileRead
  <2>2. PICK new : file_array' = [file_array EXCEPT ![p][fd] = new]
    BY <1>1, <1>3 DEF FileRead
  <2>3. DOMAIN file_array = Processes /\ DOMAIN file_array[p] = Fds
    BY DEF Counted, TypeOK
  <2>4. \A g \in Fds : g # fd => file_array'[p][g] = file_array[p][g]
    BY <2>2, <2>3
  <2> QED
    BY <1>1, <1>2, <2>1, <2>4
<1>4. CASE UNCHANGED vars
  BY <1>1, <1>2, <1>4 DEF vars
<1> QED
  BY <1>3, <1>4 DEF ReadCall, DirRead, DirReadEnd

\* The file that is read is not the directory.
LEMMA ReadingFile ==
  ASSUME Named, SameFile
  PROVE  Reading.kind # "dir"
<1>1. Entries[dir_index].type # 1 /\ dir_index \in 1 .. NumEntries
  <2>1. Entries[dir_index].name # Dot /\ dir_index \in 1 .. NumEntries
    BY DEF Named
  <2> QED
    BY <2>1, DirectoryAssumption
<1> QED
  BY <1>1, KindIsType DEF SameFile

LEMMA GrepReadFileKeeps ==
  ASSUME Base, GrepIn, GrepReadFile
  PROVE  GrepIn'
<1>1. prog[Me] = "grep" /\ pc = "readfile" /\ Quiet /\ LocalTyped(local) /\ Counted
      /\ local.fd \in Fds /\ local.file_fd \in Fds /\ disk \in Disks
  <2>1. prog[Me] = "grep" /\ pc = "readfile" /\ LocalTyped(local) /\ Counted
        /\ local.fd \in Fds /\ local.file_fd \in Fds /\ disk \in Disks
    BY DEF GrepReadFile, At, Base, StateTyped, FdsIn
  <2> QED
    BY <2>1, GrepQuiet
<1>2. /\ Searching /\ IsSequence(out) /\ file_array[Displayed][local.fd].kind = "dir"
      /\ Named /\ SameFile
      /\ Promised => \E base \in Nat : AllFound(dir_index, base) /\ WindowToRead(base)
  BY <1>1 DEF GrepIn
<1>3. CASE ~CanRead(local.file_fd)
  BY <1>1, <1>3, GrepFails DEF GrepReadFile
<1>4. CASE CanRead(local.file_fd)
  <2>1. PICK fd \in Fds : fd = local.file_fd
    BY <1>1
  <2>2. PICK room : room = Room
    OBVIOUS
  <2>3. PICK last \in 0 .. BUFSIZE : last = local.last
    BY <1>1 DEF LocalTyped
  <2>4. BUFSIZE \in Nat /\ room = BUFSIZE - last /\ room \in 0 .. BUFSIZE /\ room \in Nat
        /\ last \in Nat
    BY <2>2, <2>3, ProgramSizesAssumption DEF Room
  <2>5. PICK got : got = Delivered(fd, room)
    OBVIOUS
  <2>6. Len(got) \in 0 .. room
    BY <1>1, <2>4, <2>5, DeliversAtMost
  <2>7. PICK data : data = local.data
    OBVIOUS
  <2>8. PICK d2 : d2 = [k \in 0 .. BUFSIZE |-> IF k \in last .. last + Len(got) - 1
                                              THEN got[k - last + 1] ELSE data[k]]
    OBVIOUS
  <2>9. /\ pc' = "scan" /\ out' = out
        /\ local' = [local EXCEPT !.data = d2, !.last = @ + Len(got), !.cnt = Len(got)]
    BY <1>4, <2>1, <2>2, <2>3, <2>5, <2>7, <2>8 DEF GrepReadFile, Goto
  <2>10. /\ local'.search = local.search /\ local'.dirt = local.dirt /\ local'.fd = local.fd
         /\ local'.data = d2 /\ local'.buf = local.buf /\ local'.file_fd = fd
         /\ local'.last = last + Len(got) /\ local'.cnt = Len(got)
    BY <1>1, <2>1, <2>3, <2>9 DEF LocalTyped, LocalFields
  <2>11. ReadCall(fd, room)
    BY <2>1, <2>2, Zenon DEF GrepReadFile
  <2>12. PICK e : e = file_array[Displayed][fd]
    OBVIOUS
  <2>13. Reading = e /\ Reading' = file_array'[Displayed'][fd]
    BY <2>1, <2>10, <2>12 DEF Reading
  <2>14. /\ Reading'.kind = e.kind /\ Reading'.inode = e.inode
         /\ e.kind = "file" => Reading'.f_pos = e.f_pos + Len(ReadData(e.inode, e.f_pos, room))
    BY <1>1, <1>4, <2>1, <2>4, <2>11, <2>12, <2>13, ReadEffect
  <2>15. /\ dir_index' = dir_index
         /\ \A g \in Fds : g # fd => file_array'[Displayed'][g] = file_array[Displayed][g]
    <3>1. e.kind # "dir"
      BY <1>2, <2>13, ReadingFile
    <3> QED
      BY <1>1, <1>4, <2>1, <2>4, <2>11, <2>12, <3>1, ReadOthers
  <2>16. file_array'[Displayed'][local'.fd].kind = "dir"
    <3>1. local.fd # fd
      BY <1>2, <2>1 DEF SameFile
    <3> QED
      BY <1>1, <1>2, <2>10, <2>15, <3>1
  <2>17. Named' /\ SameFile' /\ (Promised' <=> Promised)
    BY <1>1, <1>2, <2>1, <2>10, <2>13, <2>14, <2>15, GrepSame DEF Named, SameFile, Promised
  <2>18. d2[BUFSIZE] = data[BUFSIZE]
    <3>1. BUFSIZE \in 0 .. BUFSIZE /\ ~(BUFSIZE \in last .. last + Len(got) - 1)
      BY <2>4, <2>6
    <3> QED
      BY <2>8, <3>1
  <2>19. Searching'
    BY <1>1, <1>2, <2>7, <2>10, <2>18, GrepSame DEF Searching
  <2>20. ASSUME Promised
         PROVE  \E base \in Nat : (AllFound(dir_index, base))' /\ WindowToScan(base)'
    <3>1. PICK base \in Nat : AllFound(dir_index, base) /\ WindowToRead(base)
      BY <1>2, <2>20
    <3>2. PICK n \in 1 .. NumEntries : n = dir_index
      BY <1>2 DEF Named
    <3>3. AllFound(n, base)'
      BY <1>1, <2>9, <3>1, <3>2, AllFoundSame
    <3>4. (AllFound(dir_index, base))'
      BY <2>15, <3>2, <3>3
    <3> DEFINE t == TextOf(n)
               m == Len(got)
    <3>5. ASSUME Asked(n)
          PROVE  /\ base + (last + m) = Reading'.f_pos
                 /\ InBuffer(t, d2, base, last + m, m)
                 /\ Len(t) <= BUFSIZE => Short(t, d2, base, last + m)
      <4>1. PICK i \in Inodes : i = Entries[n].inode
        BY <3>5, AskedIs
      <4>2. IsClean(t) /\ e.kind = "file" /\ e.inode = i
        BY <1>2, <2>13, <3>2, <3>5, <4>1, AskedIs DEF SameFile
      <4>3. t = FileBytes(i) /\ Len(t) = FileLength[i] /\ Len(t) \in Nat
        BY <4>1, BytesOfFile DEF TextOf
      <4>4. /\ base + last = e.f_pos /\ last < BUFSIZE
            /\ Holds(t, data, base, last)
            /\ Len(t) <= BUFSIZE => ShortRest(t, data, base, last)
        BY <2>3, <2>7, <2>13, <3>1, <3>2, <3>5 DEF WindowToRead
      <4>5. PICK f \in Nat : f = e.f_pos
        BY <2>4, <4>4
      <4> HIDE DEF t
      <4>6. /\ m = IF f > Len(t) THEN 0 ELSE IF room < Len(t) THEN room ELSE Len(t)
            /\ m \in Nat /\ Len(ReadData(i, f, room)) = m
            /\ \A x \in 1 .. m : got[x] = IF f + x - 1 < Len(t) THEN t[f + x] ELSE NUL
        <5>1. /\ file_array[Displayed][fd].kind = "file"
              /\ file_array[Displayed][fd].inode = i
              /\ file_array[Displayed][fd].f_pos = f
          BY <2>12, <4>2, <4>5
        <5> DEFINE L == FileLength[i]
                   l == IF f > L THEN 0 ELSE IF room < L THEN room ELSE L
        <5>2. /\ Len(Delivered(fd, room)) = l /\ l \in Nat /\ Len(ReadData(i, f, room)) = l
              /\ \A x \in 1 .. l :
                   Delivered(fd, room)[x] = IF f + x - 1 < L THEN FileBytes(i)[f + x] ELSE NUL
          BY <1>1, <2>4, <5>1, FileDelivers
        <5> QED
          BY <2>5, <4>3, <5>2
      <4> HIDE DEF m
      <4>7. Reading'.f_pos = f + m
        BY <2>14, <4>2, <4>5, <4>6
      <4>8. /\ m = IF base + last > Len(t) THEN 0
                   ELSE IF BUFSIZE - last < Len(t) THEN BUFSIZE - last ELSE Len(t)
            /\ \A x \in 1 .. m : got[x] = IF base + last + x - 1 < Len(t)
                                          THEN t[base + last + x] ELSE NUL
        <5>1. f = base + last
          BY <4>4, <4>5
        <5>2. ASSUME NEW x \in 1 .. m
              PROVE  f + x - 1 = base + last + x - 1 /\ f + x = base + last + x
          BY <2>4, <4>6, <5>1
        <5> QED
          BY <2>4, <4>6, <5>1, <5>2
      <4>9. data[BUFSIZE] # NL
        BY <1>2, <2>7, <2>20 DEF Searching, Promised
      <4>10. d2 = [k \in 0 .. BUFSIZE |-> IF k \in last .. last + m - 1
                                         THEN got[k - last + 1] ELSE data[k]]
        BY <2>8 DEF m
      <4>11. /\ InBuffer(t, d2, base, last + m, m)
             /\ ShortRest(t, data, base, last) => Short(t, d2, base, last + m)
        BY <2>4, <4>2, <4>4, <4>6, <4>8, <4>9, <4>10, ReadFills
      <4>12. base + (last + m) = Reading'.f_pos
        BY <2>4, <4>4, <4>5, <4>6, <4>7
      <4> QED
        BY <4>4, <4>11, <4>12
    <3>6. (Asked(n)' <=> Asked(n)) /\ TextOf(n)' = TextOf(n)
      BY <1>1, GrepSame
    <3>7. WindowToScan(base)'
      BY <2>10, <2>15, <3>2, <3>5, <3>6 DEF WindowToScan
    <3> QED
      BY <3>4, <3>7
  <2> QED
    BY <1>2, <2>9, <2>16, <2>17, <2>19, <2>20 DEF GrepIn
<1> QED
  BY <1>3, <1>4

\* The byte behind the buffer becomes no newline.
LEMMA BehindBuffer ==
  ASSUME BUFSIZE \in Nat, NEW data, NEW last \in 0 .. BUFSIZE, data[BUFSIZE] # NL
  PROVE  /\ Ended(data, last)[BUFSIZE] # NL
         /\ \A start \in 0 .. last : Moved(Ended(data, last), last, start)[BUFSIZE] # NL
<1>0. last \in Nat /\ BUFSIZE \in 0 .. BUFSIZE /\ last <= BUFSIZE
  OBVIOUS
<1>1. PICK ended : ended = Ended(data, last)
  OBVIOUS
<1>2. ended[BUFSIZE] # NL
  BY <1>0, <1>1, EndedIs DEF NUL, NL
<1>3. ASSUME NEW start \in 0 .. last
      PROVE  Moved(ended, last, start)[BUFSIZE] # NL
  <2> DEFINE r    == Slice(ended, start, last)
             text == UpToNul(r)
             x    == Len(text)
  <2>0. start \in Nat /\ start <= last
    BY <1>0
  <2>1. IsSequence(r) /\ Len(r) = last - start
    BY <1>0, <2>0, SliceIs
  <2>2. x \in 0 .. last - start
    BY <2>1, UpToNulEnds
  <2>3. Moved(ended, last, start)[BUFSIZE] =
          IF BUFSIZE < x THEN text[BUFSIZE + 1] ELSE IF BUFSIZE = x THEN NUL ELSE ended[BUFSIZE]
    BY <1>0 DEF Moved
  <2> HIDE DEF x
  <2>4. ~(BUFSIZE < x)
    BY <1>0, <2>0, <2>2
  <2> QED
    BY <1>2, <2>3, <2>4 DEF NUL, NL
<1> QED
  BY <1>1, <1>2, <1>3

\* The m lines printed of entry n.
Pieces(n, data, last, cnt, s, pieces, m) ==
  /\ IsSequence(pieces) /\ Len(pieces) = m
  /\ \E w : /\ Ordered(w, Hits(data, last, cnt, s), m)
            /\ \A k \in 1 .. m :
                 pieces[k] = Printed(Entries[n].name,
                                     UpToNul(Slice(data, w[k], LineEnd(data, last, w[k]))))
  /\ \A j \in 1 .. NumEntries : \A k \in 1 .. m :
       IsPrefix(Colon(Entries[j].name), pieces[k]) <=> j = n

LEMMA PiecesAre ==
  ASSUME NEW n \in 1 .. NumEntries, NEW name, name = Entries[n].name,
         NEW data, NEW last \in Nat, NEW cnt, NEW s, NEW found,
         found = Matches(data, last, cnt, s), NEW pieces,
         pieces = [k \in DOMAIN found |-> Printed(name, found[k])]
  PROVE  \E m \in Nat : Pieces(n, data, last, cnt, s, pieces, m)
<1> DEFINE Text(x) == UpToNul(Slice(data, x, LineEnd(data, last, x)))
<1>1. PICK m \in Nat : \E w : /\ Ordered(w, Hits(data, last, cnt, s), m)
                              /\ found = [k \in 1 .. m |-> Text(w[k])]
                              /\ \A k \in 1 .. m : IsSequence(Text(w[k]))
  BY MatchesAre
<1>2. PICK w : /\ Ordered(w, Hits(data, last, cnt, s), m)
               /\ found = [k \in 1 .. m |-> Text(w[k])]
               /\ \A k \in 1 .. m : IsSequence(Text(w[k]))
  BY <1>1
<1> HIDE DEF Text
<1>3. DOMAIN found = 1 .. m /\ \A k \in 1 .. m : found[k] = Text(w[k])
  BY <1>2
<1>4. /\ pieces = [k \in 1 .. m |-> pieces[k]]
      /\ \A k \in 1 .. m : pieces[k] = Printed(name, Text(w[k]))
  BY <1>3
<1>5. IsSequence(pieces) /\ Len(pieces) = m
  BY <1>4, MadeSequence
<1>6. ASSUME NEW j \in 1 .. NumEntries, NEW k \in 1 .. m
      PROVE  IsPrefix(Colon(Entries[j].name), pieces[k]) <=> j = n
  <2>1. PICK text : text = Text(w[k]) /\ IsSequence(text)
    BY <1>2
  <2>2. pieces[k] = Printed(Entries[n].name, text)
    BY <1>4, <2>1
  <2>3. IsPrefix(Colon(Entries[j].name), Printed(Entries[n].name, text)) <=> j = n
    BY <2>1, PrintedFor
  <2> QED
    BY <2>2, <2>3
<1> QED
  BY <1>2, <1>4, <1>5, <1>6 DEF Text, Pieces

LEMMA PiecesFound ==
  ASSUME NEW t, NEW data, NEW base, NEW last, NEW cnt, InBuffer(t, data, base, last, cnt),
         Len(t) <= BUFSIZE => Short(t, data, base, last),
         NEW s, IsClean(s), s # <<>>, NEW n \in 1 .. NumEntries,
         NEW name, name = Entries[n].name,
         NEW o, IsSequence(o), Found(name, t, s, base, o),
         NEW next, \/ next = base + last /\ Kept(data, last, cnt) = {}
                   \/ \E start \in Kept(data, last, cnt) : next = base + start,
         NEW m \in Nat, NEW pieces, Pieces(n, data, last, cnt, s, pieces, m)
  PROVE  Found(name, t, s, next, o \o pieces)
<1>1. PICK w : /\ Ordered(w, Hits(data, last, cnt, s), m)
               /\ \A k \in 1 .. m :
                    pieces[k] = Printed(name,
                                  UpToNul(Slice(data, w[k], LineEnd(data, last, w[k]))))
  BY DEF Pieces
<1>2. IsSequence(pieces) /\ Len(pieces) = m /\ \A k \in 1 .. m : IsPrefix(Colon(name), pieces[k])
  BY DEF Pieces
<1>3. IsSequence(name)
  BY NamesAssumption
<1> QED
  BY <1>1, <1>2, <1>3, ScanPrints

\* More is printed of entry n, and of no other.
LEMMA AllFoundMore ==
  ASSUME Quiet, prog[Me] = "grep", NEW n \in 1 .. NumEntries, NEW base, AllFound(n, base),
         IsSequence(out), NEW pieces, IsSequence(pieces), out' = out \o pieces,
         \A j \in 1 .. NumEntries : j # n =>
           \A k \in 1 .. Len(pieces) : ~IsPrefix(Colon(Entries[j].name), pieces[k]),
         NEW n2, NEW b2, (n2 = n) \/ (n2 = n + 1 /\ b2 = 0),
         Asked(n) => Found(Entries[n].name, TextOf(n), Arguments(command[Me]),
                           IF n2 = n THEN b2 ELSE Len(TextOf(n)), out')
  PROVE  AllFound(n2, b2)'
<1>1. NumEntries \in Nat
  BY ImageAssumption
<1>2. PICK s : s = Arguments(command[Me]) /\ s = Arguments(command'[Me'])
  BY GrepSame
<1>3. ASSUME NEW k \in 1 .. NumEntries, Asked(k)
      PROVE  Found(Entries[k].name, TextOf(k), s,
                   IF k < n2 THEN Len(TextOf(k)) ELSE IF k = n2 THEN b2 ELSE 0, out')
  <2>1. CASE k = n
    <3>1. (IF k < n2 THEN Len(TextOf(k)) ELSE IF k = n2 THEN b2 ELSE 0) =
            (IF n2 = n THEN b2 ELSE Len(TextOf(n)))
      BY <1>1, <2>1
    <3> QED
      BY <1>2, <1>3, <2>1, <3>1
  <2>2. CASE k # n
    <3>1. PICK b : b = IF k < n THEN Len(TextOf(k)) ELSE IF k = n THEN base ELSE 0
      OBVIOUS
    <3>2. b = IF k < n2 THEN Len(TextOf(k)) ELSE IF k = n2 THEN b2 ELSE 0
      BY <1>1, <2>2, <3>1
    <3>3. Found(Entries[k].name, TextOf(k), s, b, out)
      BY <1>2, <1>3, <3>1 DEF AllFound
    <3>4. PICK o : o = out /\ IsSequence(o)
      OBVIOUS
    <3>5. PICK t : t = TextOf(k)
      OBVIOUS
    <3>6. PICK name : name = Entries[k].name
      OBVIOUS
    <3>7. \A i \in 1 .. Len(pieces) : ~IsPrefix(Colon(name), pieces[i])
      BY <2>2, <3>6
    <3>8. Found(name, t, s, b, o \o pieces)
      BY <3>3, <3>4, <3>5, <3>6, <3>7, FoundStays
    <3>9. out' = o \o pieces
      BY <3>4
    <3> QED
      BY <3>2, <3>5, <3>6, <3>8, <3>9
  <2> QED
    BY <2>1, <2>2
<1>4. \A k \in 1 .. NumEntries : (Asked(k)' <=> Asked(k)) /\ TextOf(k)' = TextOf(k)
  BY GrepSame
<1> QED
  BY <1>2, <1>3, <1>4 DEF AllFound

\* What the window holds after a scan: nothing, or the line that is kept.
LEMMA WindowMoves ==
  ASSUME NEW t, NEW data, NEW base, NEW last, NEW cnt, InBuffer(t, data, base, last, cnt),
         Len(t) <= BUFSIZE => Short(t, data, base, last), BUFSIZE # 0
  PROVE  /\ \A d2 : /\ Holds(t, d2, base + last, 0)
                    /\ Len(t) <= BUFSIZE => ShortRest(t, d2, base + last, 0)
         /\ cnt = 0 => base + last >= Len(t)
         /\ \A start \in Kept(data, last, cnt) :
              LET d2 == Moved(Ended(data, last), last, start) IN
              /\ last - start < BUFSIZE
              /\ Holds(t, d2, base + start, last - start)
              /\ Len(t) <= BUFSIZE => ShortRest(t, d2, base + start, last - start)
<1>0. /\ IsClean(t) /\ BUFSIZE \in Nat /\ base \in Nat /\ last \in 0 .. BUFSIZE
      /\ cnt = 0 => base + last >= Len(t)
  BY DEF InBuffer, Filled
<1>1. Len(t) \in Nat /\ last \in Nat
  BY <1>0 DEF IsClean, IsSequence
<1>2. ASSUME NEW d2
      PROVE  /\ Holds(t, d2, base + last, 0)
             /\ Len(t) <= BUFSIZE => ShortRest(t, d2, base + last, 0)
  <2>1. \A x \in 0 .. 0 - 1 : FALSE
    OBVIOUS
  <2>2. Holds(t, d2, base + last, 0) /\ Exactly(t, d2, base + last, 0) /\ NoNewline(d2, 0)
    BY <2>1 DEF Holds, Exactly, NoNewline
  <2>3. Len(t) <= BUFSIZE => base + last >= Len(t)
    BY <1>0, <1>1 DEF Short
  <2>4. base + last + 0 = base + last
    BY <1>0, <1>1
  <2> QED
    BY <2>2, <2>3, <2>4 DEF ShortRest
<1>3. ASSUME NEW start \in Kept(data, last, cnt),
             NEW d2, d2 = Moved(Ended(data, last), last, start)
      PROVE  /\ last - start < BUFSIZE
             /\ Holds(t, d2, base + start, last - start)
             /\ Len(t) <= BUFSIZE => ShortRest(t, d2, base + start, last - start)
  <2>1. /\ start \in 1 .. last - 1 /\ last - start < BUFSIZE
        /\ Holds(t, d2, base + start, last - start)
        /\ Short(t, data, base, last) =>
             /\ Exactly(t, d2, base + start, last - start)
             /\ NoNewline(d2, last - start)
             /\ base + last = Len(t) /\ t[base + start] = NL
    BY <1>3, ScanLeaves
  <2>2. (base + start) + (last - start) = base + last
    BY <1>0, <1>1, <2>1
  <2>3. ASSUME Len(t) <= BUFSIZE
        PROVE  ShortRest(t, d2, base + start, last - start)
    <3>1. base + last >= Len(t)
      BY <1>0, <1>1, <2>1, <2>3
    <3> QED
      BY <2>1, <2>2, <2>3, <3>1 DEF ShortRest
  <2> QED
    BY <2>1, <2>3
<1> QED
  BY <1>0, <1>2, <1>3

LEMMA GrepScanKeeps ==
  ASSUME Base, GrepIn, GrepScan
  PROVE  GrepIn'
<1>1. prog[Me] = "grep" /\ pc = "scan" /\ Quiet /\ LocalTyped(local) /\ UNCHANGED vars
  <2>1. prog[Me] = "grep" /\ pc = "scan" /\ LocalTyped(local) /\ UNCHANGED vars
    BY DEF GrepScan, At, Base, StateTyped
  <2> QED
    BY <2>1, GrepQuiet
<1>2. /\ Searching /\ IsSequence(out) /\ file_array[Displayed][local.fd].kind = "dir"
      /\ Named /\ SameFile
      /\ Promised => \E base \in Nat : AllFound(dir_index, base) /\ WindowToScan(base)
  BY <1>1 DEF GrepIn
<1>3. PICK data : data = local.data
  OBVIOUS
<1>4. PICK last \in 0 .. BUFSIZE : last = local.last
  BY <1>1 DEF LocalTyped
<1>5. PICK cnt : cnt = local.cnt
  OBVIOUS
<1>6. PICK s : s = local.search
  OBVIOUS
<1>7. PICK n \in 1 .. NumEntries : n = dir_index
  BY <1>2 DEF Named
<1>8. PICK name : name = Entries[n].name /\ name = local.buf
  BY <1>2, <1>7 DEF Named
<1>9. BUFSIZE \in Nat /\ BUFSIZE # 0 /\ last \in Nat /\ last <= BUFSIZE
  BY ProgramSizesAssumption
<1>10. PICK found : found = Matches(data, last, cnt, s)
  OBVIOUS
<1>11. PICK pieces : pieces = [k \in DOMAIN found |-> Printed(name, found[k])]
  OBVIOUS
<1>12. PICK m \in Nat : Pieces(n, data, last, cnt, s, pieces, m)
  BY <1>8, <1>9, <1>10, <1>11, PiecesAre
<1>21. IsSequence(pieces) /\ Len(pieces) = m /\ m \in Nat
  BY <1>12 DEF Pieces
<1>13. out' = out \o pieces
  BY <1>3, <1>4, <1>5, <1>6, <1>8, <1>10, <1>11 DEF GrepScan
<1>14. IsSequence(out')
  BY <1>2, <1>13, <1>21, Joined
<1>15. PICK ended : ended = Ended(data, last)
  OBVIOUS
<1>16. \/ /\ Kept(data, last, cnt) = {}
          /\ pc' = IF cnt = 0 THEN "close" ELSE "readfile"
          /\ local' = [local EXCEPT !.data = ended, !.last = 0]
       \/ \E start \in Kept(data, last, cnt) :
            /\ pc' = "readfile"
            /\ local' = [local EXCEPT !.data = Moved(ended, last, start), !.last = @ - start]
  BY <1>3, <1>4, <1>5, <1>15 DEF GrepScan, Goto
\* Both ends of the scan, with what is left and where it begins.
<1>17. ASSUME NEW d2, NEW left, NEW next \in Nat,
              local' = [local EXCEPT !.data = d2, !.last = left],
              data[BUFSIZE] # NL => d2[BUFSIZE] # NL,
              pc' \in {"close", "readfile"},
              \A base \in Nat : InBuffer(TextOf(n), data, base, last, cnt) /\
                  (Len(TextOf(n)) <= BUFSIZE => Short(TextOf(n), data, base, last)) =>
                /\ (base + next) + left = base + last /\ left < BUFSIZE
                /\ Holds(TextOf(n), d2, base + next, left)
                /\ Len(TextOf(n)) <= BUFSIZE => ShortRest(TextOf(n), d2, base + next, left)
                /\ pc' = "close" => base + next >= Len(TextOf(n)),
              \/ next = last /\ Kept(data, last, cnt) = {}
              \/ next \in Kept(data, last, cnt)
       PROVE  GrepIn'
  <2>1. /\ local'.search = local.search /\ local'.dirt = local.dirt /\ local'.fd = local.fd
        /\ local'.data = d2 /\ local'.buf = local.buf /\ local'.file_fd = local.file_fd
        /\ local'.last = left
    BY <1>1, <1>17 DEF LocalTyped, LocalFields
  <2>2. dir_index' = dir_index /\ file_array' = file_array /\ Displayed' = Displayed
    BY <1>1, GrepSame DEF vars
  <2>3. Reading' = Reading
    BY <2>1, <2>2 DEF Reading
  <2>4. Named' /\ SameFile' /\ (Promised' <=> Promised) /\ Searching'
    BY <1>1, <1>2, <1>3, <1>17, <2>1, <2>2, <2>3, GrepSame DEF Named, SameFile, Promised, Searching
  <2>5. ASSUME Promised
        PROVE  /\ pc' = "close" => (AllFound(dir_index + 1, 0))'
               /\ pc' = "readfile" =>
                    \E base \in Nat : (AllFound(dir_index, base))' /\ WindowToRead(base)'
    <3>1. PICK base \in Nat : AllFound(dir_index, base) /\ WindowToScan(base)
      BY <1>2, <2>5
    <3> DEFINE t == TextOf(n)
               b2 == base + next
    <3>2. b2 \in Nat
      OBVIOUS
    <3>3. s = Arguments(command[Me]) /\ IsClean(s) /\ s # <<>>
      BY <1>1, <1>2, <1>6, <2>5, PatternClean DEF Searching, Promised
    <3>4. ASSUME Asked(n)
          PROVE  /\ base + last = Reading.f_pos /\ InBuffer(t, data, base, last, cnt)
                 /\ Len(t) <= BUFSIZE => Short(t, data, base, last)
      BY <1>3, <1>4, <1>5, <1>7, <3>1, <3>4 DEF WindowToScan
    <3>5. ASSUME Asked(n)
          PROVE  Found(name, t, s, b2, out') /\ IsSequence(t)
      <4>1. IsSequence(t)
        BY <3>5, AskedIs
      <4>2. PICK o : o = out
        OBVIOUS
      <4>3. Found(name, t, s, base, o)
        <5>1. ~(n < n)
          BY <1>7
        <5> QED
          BY <1>7, <1>8, <3>1, <3>3, <3>5, <4>2, <5>1 DEF AllFound
      <4>6. \/ b2 = base + last /\ Kept(data, last, cnt) = {}
            \/ \E start \in Kept(data, last, cnt) : b2 = base + start
        BY <1>17
      <4>8. InBuffer(t, data, base, last, cnt) /\ (Len(t) <= BUFSIZE => Short(t, data, base, last))
        BY <3>4, <3>5
      <4> HIDE DEF t, b2
      <4>9. IsSequence(o)
        BY <1>2, <4>2
      <4>10. Found(name, t, s, b2, o \o pieces)
        BY <1>8, <1>12, <3>3, <4>3, <4>6, <4>8, <4>9, PiecesFound
      <4> QED
        BY <1>13, <4>1, <4>2, <4>10
    <3>6. AllFound(n, base)
      BY <1>7, <3>1
    <3>7. \A j \in 1 .. NumEntries : j # n =>
            \A k \in 1 .. Len(pieces) : ~IsPrefix(Colon(Entries[j].name), pieces[k])
      BY <1>12 DEF Pieces
    <3> HIDE DEF b2
    <3>8. CASE pc' = "close"
      <4>1. Asked(n) => Found(Entries[n].name, TextOf(n), Arguments(command[Me]),
                              Len(TextOf(n)), out')
        <5> SUFFICES ASSUME Asked(n)
                     PROVE  Found(name, t, s, Len(t), out')
          BY <1>8, <3>3
        <5>1. b2 >= Len(t)
          BY <1>17, <3>4, <3>8 DEF b2
        <5>2. IsSequence(s)
          BY <3>3 DEF IsClean
        <5>3. PICK o : o = out'
          OBVIOUS
        <5> HIDE DEF t
        <5> QED
          BY <3>2, <3>3, <3>5, <5>1, <5>2, <5>3, FoundEnd
      <4>2. PICK n2 : n2 = n + 1
        OBVIOUS
      <4>3. n2 # n
        BY <4>2
      <4>4. AllFound(n2, 0)'
        BY <1>1, <1>2, <1>13, <1>21, <3>6, <3>7, <4>1, <4>2, <4>3, AllFoundMore
      <4> QED
        BY <1>7, <2>2, <3>8, <4>2, <4>4
    <3>9. CASE pc' = "readfile"
      <4>1. Asked(n) => Found(Entries[n].name, TextOf(n), Arguments(command[Me]), b2, out')
        BY <1>8, <3>3, <3>5
      <4>2. AllFound(n, b2)'
        BY <1>1, <1>2, <1>13, <1>21, <3>6, <3>7, <4>1, AllFoundMore
      <4>3. Asked(n) => /\ b2 + left = Reading.f_pos /\ left < BUFSIZE
                        /\ Holds(t, d2, b2, left)
                        /\ Len(t) <= BUFSIZE => ShortRest(t, d2, b2, left)
        BY <1>17, <3>4 DEF b2
      <4>4. (Asked(n)' <=> Asked(n)) /\ TextOf(n)' = TextOf(n)
        BY <1>1, GrepSame
      <4>5. WindowToRead(b2)'
        BY <1>7, <2>1, <2>2, <2>3, <4>3, <4>4 DEF WindowToRead
      <4>6. (AllFound(dir_index, b2))'
        BY <1>7, <2>2, <4>2
      <4> QED
        BY <3>2, <3>9, <4>5, <4>6
    <3> QED
      BY <1>17, <3>8, <3>9
  <2>6. file_array'[Displayed'][local'.fd].kind = "dir"
    BY <1>2, <2>1, <2>2
  <2> QED
    BY <1>14, <1>17, <2>4, <2>5, <2>6 DEF GrepIn
<1>18. data[BUFSIZE] # NL =>
         /\ ended[BUFSIZE] # NL
         /\ \A start \in 0 .. last : Moved(ended, last, start)[BUFSIZE] # NL
  BY <1>9, <1>15, BehindBuffer
<1>19. CASE /\ Kept(data, last, cnt) = {}
            /\ pc' = IF cnt = 0 THEN "close" ELSE "readfile"
            /\ local' = [local EXCEPT !.data = ended, !.last = 0]
  <2>1. ASSUME NEW base \in Nat, InBuffer(TextOf(n), data, base, last, cnt),
               Len(TextOf(n)) <= BUFSIZE => Short(TextOf(n), data, base, last)
        PROVE  /\ (base + last) + 0 = base + last /\ 0 < BUFSIZE
               /\ Holds(TextOf(n), ended, base + last, 0)
               /\ Len(TextOf(n)) <= BUFSIZE => ShortRest(TextOf(n), ended, base + last, 0)
               /\ pc' = "close" => base + last >= Len(TextOf(n))
    <3>1. PICK t : t = TextOf(n)
      OBVIOUS
    <3>2. /\ Holds(t, ended, base + last, 0)
          /\ Len(t) <= BUFSIZE => ShortRest(t, ended, base + last, 0)
          /\ cnt = 0 => base + last >= Len(t)
      BY <1>9, <2>1, <3>1, WindowMoves
    <3> QED
      BY <1>9, <1>19, <3>1, <3>2
  <2> QED
    BY <1>9, <1>17, <1>18, <1>19, <2>1
<1>20. ASSUME NEW start \in Kept(data, last, cnt), pc' = "readfile",
              local' = [local EXCEPT !.data = Moved(ended, last, start), !.last = @ - start]
       PROVE  GrepIn'
  <2>1. PICK d2 : d2 = Moved(ended, last, start)
    OBVIOUS
  <2>2. start \in 1 .. last - 1
    BY <1>9, KeptIs
  <2>3. start \in Nat /\ start \in 0 .. last
    BY <1>9, <2>2
  <2>4. PICK left : left = last - start
    OBVIOUS
  <2>5. local' = [local EXCEPT !.data = d2, !.last = left]
    BY <1>4, <1>20, <2>1, <2>4
  <2>6. ASSUME NEW base \in Nat, InBuffer(TextOf(n), data, base, last, cnt),
               Len(TextOf(n)) <= BUFSIZE => Short(TextOf(n), data, base, last)
        PROVE  /\ (base + start) + left = base + last /\ left < BUFSIZE
               /\ Holds(TextOf(n), d2, base + start, left)
               /\ Len(TextOf(n)) <= BUFSIZE => ShortRest(TextOf(n), d2, base + start, left)
    <3>1. PICK t : t = TextOf(n)
      OBVIOUS
    <3>2. /\ last - start < BUFSIZE
          /\ Holds(t, d2, base + start, last - start)
          /\ Len(t) <= BUFSIZE => ShortRest(t, d2, base + start, last - start)
      BY <1>9, <1>15, <2>1, <2>6, <3>1, WindowMoves
    <3>3. (base + start) + left = base + last
      BY <1>9, <2>3, <2>4
    <3> QED
      BY <2>4, <3>1, <3>2, <3>3
  <2>7. data[BUFSIZE] # NL => d2[BUFSIZE] # NL
    BY <1>18, <2>1, <2>3
  <2> QED
    BY <1>17, <1>20, <2>3, <2>5, <2>6, <2>7
<1> QED
  BY <1>16, <1>19, <1>20

LEMMA GrepCloseKeeps ==
  ASSUME Base, GrepIn, GrepClose
  PROVE  GrepIn'
<1>1. prog[Me] = "grep" /\ pc = "close" /\ Quiet /\ LocalTyped(local) /\ Counted
      /\ local.fd \in Fds
  <2>1. prog[Me] = "grep" /\ pc = "close" /\ LocalTyped(local) /\ Counted
        /\ local.fd \in Fds
    BY DEF GrepClose, At, Base, StateTyped, FdsIn
  <2> QED
    BY <2>1, GrepQuiet
<1>2. /\ Searching /\ IsSequence(out) /\ file_array[Displayed][local.fd].kind = "dir"
      /\ SameFile
      /\ Promised => AllFound(dir_index + 1, 0)
  BY <1>1 DEF GrepIn
<1>3. CASE ~CanClose(local.file_fd)
  BY <1>1, <1>3, GrepFails DEF GrepClose
<1>4. CASE CanClose(local.file_fd)
  <2>1. PICK fd \in Fds : fd = local.file_fd
    BY <1>4 DEF CanClose
  <2>2. Close(fd)
    BY <1>4, <2>1 DEF GrepClose, CloseCall
  <2>3. PICK p \in Processes : p = Displayed /\ p = Displayed'
    BY <1>1, GrepSame, Lookups DEF Counted
  <2>4. file_array' = [file_array EXCEPT ![p][fd] = Absent] /\ dir_index' = dir_index
    BY <2>2, <2>3 DEF Close
  <2>5. pc' = "readdir" /\ local' = local /\ out' = out
    BY <1>4 DEF GrepClose, Goto
  <2>6. file_array'[Displayed'][local'.fd].kind = "dir"
    <3>1. local.fd # fd
      BY <1>2, <2>1 DEF SameFile
    <3>2. DOMAIN file_array = Processes /\ DOMAIN file_array[p] = Fds
      BY <1>1 DEF Counted, TypeOK
    <3> QED
      BY <1>1, <1>2, <2>3, <2>4, <2>5, <3>1, <3>2
  <2>7. Searching' /\ (Promised' <=> Promised)
    BY <1>1, <1>2, <2>5, GrepSame DEF Searching, Promised
  <2>8. PICK next : next = dir_index + 1
    OBVIOUS
  <2>9. Promised => AllFound(next, 0)'
    BY <1>1, <1>2, <2>5, <2>8, AllFoundSame
  <2>10. Promised => (AllFound(dir_index + 1, 0))'
    BY <2>4, <2>8, <2>9
  <2> QED
    BY <1>2, <2>5, <2>6, <2>7, <2>10 DEF GrepIn
<1> QED
  BY <1>3, <1>4

\* The steps of the other programs.
LEMMA OthersGrep ==
  ASSUME Base, GrepIn,
         \/ Halt \/ ShellExecute \/ \E line \in Lines : ShellRead(line)
         \/ CatArgs \/ CatOpen \/ CatRead \/ CatWrite
         \/ LsOpen \/ LsRead \/ LsWrite
         \/ HelloAsk \/ HelloAnswer \/ TestPrint
         \/ SyserrAsk \/ (\E n \in 0 .. 9 : SyserrChoose(n)) \/ SyserrCall
         \/ SyserrVerdict \/ SyserrEnd
  PROVE  GrepIn'
<1>1. CASE Halt
  BY <1>1 DEF Halt, Goto, GrepIn
<1>2. CASE ShellExecute
  <2>1. CASE Me = MaxDepth \/ Executable(local.buf.word) = {}
    BY <1>2, <2>1 DEF ShellExecute, Goto, GrepIn
  <2>2. CASE ~(Me = MaxDepth \/ Executable(local.buf.word) = {})
    <3>1. out = <<>>
      BY <1>2 DEF Base, LineIn, ShellExecute, At
    <3> QED
      BY <1>2, <2>2, <3>1 DEF ShellExecute, Goto, GrepIn
  <2> QED
    BY <2>1, <2>2
<1>3. ASSUME prog[Me] # "grep", Stay, SameProcess
      PROVE  GrepIn'
  BY <1>3, QuietSame DEF GrepIn
<1>4. CASE \E line \in Lines : ShellRead(line)
  BY <1>3, <1>4, NothingCalled DEF ShellRead, At
<1>5. CASE HelloAsk \/ HelloAnswer \/ TestPrint
  BY <1>3, <1>5, NothingCalled DEF HelloAsk, HelloAnswer, TestPrint, At
<1>6. CASE CatArgs \/ CatOpen \/ CatRead \/ CatWrite
  <2>1. prog[Me] = "cat"
    BY <1>6 DEF CatArgs, CatOpen, CatRead, CatWrite, At
  <2> QED
    BY <1>3, <1>6, <2>1, CatQuiet DEF Quiet
<1>7. CASE LsOpen \/ LsRead \/ LsWrite
  <2>1. prog[Me] = "ls"
    BY <1>7 DEF LsOpen, LsRead, LsWrite, At
  <2> QED
    BY <1>3, <1>7, <2>1, LsQuiet DEF Quiet
<1>8. CASE SyserrAsk \/ (\E n \in 0 .. 9 : SyserrChoose(n)) \/ SyserrVerdict \/ SyserrEnd
  BY <1>3, <1>8, NothingCalled DEF SyserrAsk, SyserrChoose, SyserrVerdict, SyserrEnd, At
<1>9. CASE SyserrCall
  BY <1>3, <1>9, SyserrSame DEF SyserrCall, At
<1> QED
  BY <1>1, <1>2, <1>4, <1>5, <1>6, <1>7, <1>8, <1>9

LEMMA GrepInit == ProgramsInit => GrepIn
<1> SUFFICES ASSUME ProgramsInit
             PROVE  GrepIn
  OBVIOUS
<1>1. pc = "read"
  BY DEF ProgramsInit
<1> QED
  BY <1>1 DEF GrepIn

LEMMA GrepStep == Base /\ GrepIn /\ [ProgramsNext]_allVars => GrepIn'
<1> SUFFICES ASSUME Base, GrepIn, [ProgramsNext]_allVars
             PROVE  GrepIn'
  OBVIOUS
<1>1. CASE GrepArgs
  BY <1>1, GrepArgsKeeps
<1>2. CASE GrepOpenDir
  BY <1>2, GrepOpenDirKeeps
<1>3. CASE GrepReadDir
  BY <1>3, GrepReadDirKeeps
<1>4. CASE GrepOpen
  BY <1>4, GrepOpenKeeps
<1>5. CASE GrepReadFile
  BY <1>5, GrepReadFileKeeps
<1>6. CASE GrepScan
  BY <1>6, GrepScanKeeps
<1>7. CASE GrepClose
  BY <1>7, GrepCloseKeeps
<1>8. CASE \/ Halt \/ ShellExecute \/ \E line \in Lines : ShellRead(line)
           \/ CatArgs \/ CatOpen \/ CatRead \/ CatWrite
           \/ LsOpen \/ LsRead \/ LsWrite
           \/ HelloAsk \/ HelloAnswer \/ TestPrint
           \/ SyserrAsk \/ (\E n \in 0 .. 9 : SyserrChoose(n)) \/ SyserrCall
           \/ SyserrVerdict \/ SyserrEnd
  BY <1>8, OthersGrep
<1>9. CASE UNCHANGED allVars
  <2>1. /\ Searching' <=> Searching
        /\ Promised' <=> Promised
        /\ Named' <=> Named
        /\ SameFile' <=> SameFile
    BY <1>9 DEF allVars, vars, Searching, Promised, Named, SameFile, Reading, Me, Displayed
  <2>2. /\ \A n, b : AllFound(n, b)' <=> AllFound(n, b)
    BY <1>9 DEF allVars, vars, AllFound, Asked, TextOf, IsText, FileBytes, Me
  <2>3. /\ \A base : WindowToRead(base)' <=> WindowToRead(base)
        /\ \A base : WindowToScan(base)' <=> WindowToScan(base)
    BY <1>9 DEF allVars, vars, WindowToRead, WindowToScan, Reading, Asked, TextOf, IsText,
                FileBytes, Displayed
  <2>4. /\ prog'[Me'] = prog[Me] /\ pc' = pc /\ out' = out /\ dir_index' = dir_index
        /\ local' = local
        /\ file_array'[Displayed'][local'.fd] = file_array[Displayed][local.fd]
    BY <1>9 DEF allVars, vars, Me, Displayed
  <2> QED
    BY <2>1, <2>2, <2>3, <2>4 DEF GrepIn
<1> QED
  BY <1>1, <1>2, <1>3, <1>4, <1>5, <1>6, <1>7, <1>8, <1>9 DEF ProgramsNext, Step, Typed

LEMMA GrepHolds == ProgramsSpec => [](Base /\ GrepIn)
BY BaseInit, BaseStep, GrepInit, GrepStep, PTL DEF ProgramsSpec

\* grep has printed every line that holds the pattern, of every file of text,
\* whatever the lengths of files and buffer and wherever the reads cut the lines;
\* and of a file that fits into the buffer exactly these lines, in their order.
THEOREM GrepPrintsLines == ProgramsSpec => []GrepFindsLines
<1>1. ASSUME Base, GrepIn
      PROVE  GrepFindsLines
  <2>1. PICK s : s = Arguments(command[Me])
    OBVIOUS
  <2> SUFFICES ASSUME Finished("grep"), s # <<>>, local.dirt # NL,
                      NEW k \in 1 .. NumEntries, Asked(k)
               PROVE  LET name == Entries[k].name
                          i    == Entries[k].inode
                          text == FileBytes(i)
                      IN  /\ \A start \in LinesWith(text, s) :
                               Len(LineFrom(text, start)) <= BUFSIZE =>
                                 \E j \in DOMAIN out :
                                   out[j] = Printed(name, LineFrom(text, start))
                          /\ FileLength[i] <= BUFSIZE =>
                               WrittenFor(name, out) = WrittenAs(name, text, LinesWith(text, s))
    BY <2>1 DEF GrepFindsLines, Asked
  <2>2. prog[Me] = "grep" /\ pc = "halt" /\ local.status = 0
    BY DEF Finished, At
  <2>3. AllFound(NumEntries + 1, 0)
    BY <1>1, <2>1, <2>2 DEF GrepIn, Promised
  <2>4. PICK t : t = TextOf(k)
    OBVIOUS
  <2>5. IsSequence(t) /\ Entries[k].inode \in Inodes /\ Len(t) \in Nat
    BY <2>4, AskedIs
  <2>6. t = FileBytes(Entries[k].inode) /\ Len(t) = FileLength[Entries[k].inode]
    BY <2>4, <2>5, BytesOfFile DEF TextOf
  <2>7. Found(Entries[k].name, t, s, Len(t), out)
    <3>1. k < NumEntries + 1
      BY ImageAssumption
    <3> QED
      BY <2>1, <2>3, <2>4, <3>1 DEF AllFound
  <2>8. IsSequence(s)
    BY <1>1, <2>1, <2>2, PatternClean DEF IsClean
  <2>9. {q \in LinesWith(t, s) : q <= Len(t)} = LinesWith(t, s)
    <3>1. \A q \in LinesWith(t, s) : q \in 1 .. Len(t)
      BY <2>5, <2>8, LinesWithIs
    <3>2. \A q \in LinesWith(t, s) : q <= Len(t)
      BY <2>5, <3>1
    <3> QED
      BY <3>2
  <2>10. /\ \A q \in LinesWith(t, s) :
              Len(LineFrom(t, q)) <= BUFSIZE =>
                \E j \in DOMAIN out : out[j] = Printed(Entries[k].name, LineFrom(t, q))
         /\ Len(t) <= BUFSIZE =>
              WrittenFor(Entries[k].name, out) = WrittenAs(Entries[k].name, t, LinesWith(t, s))
    BY <2>7, <2>9, Zenon DEF Found
  <2> QED
    BY <2>6, <2>10
<1> QED
  BY <1>1, GrepHolds, PTL

=============================================================================
