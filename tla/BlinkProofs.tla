---------------------------- MODULE BlinkProofs ----------------------------
(***************************************************************************)
(* Theorems about Blink, for any number of cells and places and any        *)
(* program that calls mp1_ioctl: the links form one list of exactly the    *)
(* cells in use, synced blinkers stay in step, and the cells and links     *)
(* implement the list of Blinkers.                                         *)
(*                                                                         *)
(* Nth is recursive.  The proofs do not unfold it from step to step: the   *)
(* invariant says that there is a row of cells that the links run through, *)
(* each step says how the row changes, and Nth is read off the row.        *)
(***************************************************************************)
EXTENDS Blink, FiniteSetTheorems, SequenceTheorems, WellFoundedInduction, TLAPS

-----------------------------------------------------------------------------
(* Numbers *)

\* Every nonempty set of numbers has a least one.
LEMMA LeastNumber ==
  ASSUME NEW T, T \subseteq Nat, T # {}
  PROVE  \E n \in T : \A m \in T : n <= m
<1>1. \A x, y \in Nat : <<x, y>> \in OpToRel(<, Nat) <=> x < y
  BY DEF OpToRel
<1>2. PICK n \in T : \A m \in T : ~(<<m, n>> \in OpToRel(<, Nat))
  BY NatLessThanWellFounded, WFMin
<1>3. \A m \in T : ~(m < n)
  BY <1>1, <1>2, Zenon
<1> HIDE <1>1, <1>2
<1> QED
  BY <1>3, SMT

\* Every nonempty set of numbers up to a bound has a greatest one.
LEMMA GreatestNumber ==
  ASSUME NEW b \in Nat, NEW T, T \subseteq 0 .. b, T # {}
  PROVE  \E n \in T : \A m \in T : m <= n
<1> DEFINE U == {x \in 0 .. b : b - x \in T}
<1>1. U \subseteq Nat
  OBVIOUS
<1>2. U # {}
  <2>1. PICK t \in T : TRUE
    OBVIOUS
  <2>2. b - t \in U
    BY <2>1
  <2> QED
    BY <2>2
<1>3. PICK n \in U : \A m \in U : n <= m
  <2> HIDE DEF U
  <2> QED
    BY <1>1, <1>2, LeastNumber
<1>4. b - n \in T
  BY <1>3
<1>5. ASSUME NEW m \in T PROVE m <= b - n
  <2>1. b - m \in U
    OBVIOUS
  <2>2. n <= b - m
    BY <1>3, <2>1
  <2> QED
    BY <1>3, <2>2
<1> QED
  BY <1>4, <1>5

-----------------------------------------------------------------------------
(* The row of cells *)

\* The links of the cells run from head h through the m cells of row q, which
\* are the cells in use.
Chain(cells, h, m, q) ==
  /\ m \in 0 .. NumCells
  /\ q \in [1 .. m -> Cells]
  /\ h = IF m = 0 THEN NULL ELSE q[1]
  /\ \A i \in 1 .. m : cells[q[i]].next = IF i = m THEN NULL ELSE q[i+1]
  /\ \A i, j \in 1 .. m : q[i] = q[j] => i = j
  /\ \A c \in Cells : cells[c].location # 0 <=> \E i \in 1 .. m : q[i] = c

InRow(m, q) == Chain(blink_array, mp1_list_head, m, q)

\* Nth reads the row, and NULL behind its end.
LEMMA NthIs ==
  \A m, q : InRow(m, q) =>
    \A n \in 0 .. NumCells : Nth[n] = IF n < m THEN q[n+1] ELSE NULL
<1> SUFFICES ASSUME NEW m, NEW q, InRow(m, q)
             PROVE  \A n \in 0 .. NumCells : Nth[n] = IF n < m THEN q[n+1] ELSE NULL
  OBVIOUS
<1> DEFINE Walk(f) == f = [n \in 0 .. NumCells |->
                             IF n = 0 THEN mp1_list_head
                             ELSE IF f[n - 1] = NULL THEN NULL
                             ELSE blink_array[f[n - 1]].next]
           row == [n \in 0 .. NumCells |-> IF n < m THEN q[n+1] ELSE NULL]
<1>0. /\ NumCells \in Nat /\ m \in 0 .. NumCells /\ q \in [1 .. m -> Cells]
      /\ mp1_list_head = IF m = 0 THEN NULL ELSE q[1]
      /\ \A i \in 1 .. m : blink_array[q[i]].next = IF i = m THEN NULL ELSE q[i+1]
      /\ NULL \notin Cells
  BY SizeAssumption DEF InRow, Chain, NULL, Cells
<1>1. Walk(row)
  <2>1. ASSUME NEW n \in 0 .. NumCells
        PROVE  row[n] = IF n = 0 THEN mp1_list_head
                        ELSE IF row[n - 1] = NULL THEN NULL
                        ELSE blink_array[row[n - 1]].next
    <3>1. CASE n = 0
      BY <1>0, <3>1
    <3>2. CASE n # 0
      <4>1. n - 1 \in 0 .. NumCells /\ (n - 1) + 1 = n
        BY <1>0, <3>2
      <4>2. CASE n - 1 < m
        <5>1. n \in 1 .. m /\ row[n - 1] = q[n] /\ q[n] # NULL
          BY <1>0, <3>2, <4>1, <4>2
        <5>2. blink_array[q[n]].next = IF n = m THEN NULL ELSE q[n+1]
          BY <1>0, <5>1
        <5>3. row[n] = IF n = m THEN NULL ELSE q[n+1]
          BY <1>0, <5>1
        <5> QED
          BY <3>2, <5>1, <5>2, <5>3
      <4>3. CASE ~(n - 1 < m)
        BY <1>0, <3>2, <4>1, <4>3
      <4> QED
        BY <4>2, <4>3
    <3> QED
      BY <3>1, <3>2
  <2> QED
    BY <2>1, Zenon
<1>2. ASSUME NEW f, NEW g, Walk(f), Walk(g)
      PROVE  \A n \in 0 .. NumCells : f[n] = g[n]
  <2> DEFINE apart == {n \in 0 .. NumCells : f[n] # g[n]}
  <2>1. SUFFICES ASSUME apart # {} PROVE FALSE
    OBVIOUS
  <2>2. apart \subseteq Nat
    BY <1>0
  <2>3. PICK n \in apart : \A k \in apart : n <= k
    <3> HIDE DEF apart
    <3> QED
      BY <2>1, <2>2, LeastNumber
  <2>4. /\ f[n] = IF n = 0 THEN mp1_list_head
                  ELSE IF f[n - 1] = NULL THEN NULL ELSE blink_array[f[n - 1]].next
        /\ g[n] = IF n = 0 THEN mp1_list_head
                  ELSE IF g[n - 1] = NULL THEN NULL ELSE blink_array[g[n - 1]].next
    BY <1>2, <2>3, Zenon
  <2>5. CASE n = 0
    BY <2>3, <2>4, <2>5
  <2>6. CASE n # 0
    <3>1. n - 1 \in 0 .. NumCells /\ n - 1 \notin apart
      BY <1>0, <2>3, <2>6
    <3>2. f[n - 1] = g[n - 1]
      BY <3>1
    <3> QED
      BY <2>3, <2>4, <2>6, <3>2
  <2> QED
    BY <2>5, <2>6
<1>3. Nth = CHOOSE f : Walk(f)
  BY Zenon DEF Nth
<1> HIDE DEF Walk
<1>4. Walk(Nth)
  BY <1>1, <1>3, Zenon
<1>5. \A n \in 0 .. NumCells : Nth[n] = row[n]
  BY <1>1, <1>2, <1>4, Zenon
<1> QED
  BY <1>5

\* The places of the walk, the cells it meets, and those at one place.
LEMMA RowIs ==
  \A m, q : InRow(m, q) =>
    /\ Linked = 0 .. m - 1
    /\ \A l : Links(l) = {n \in 0 .. m - 1 : blink_array[q[n+1]].location = l}
    /\ OnList = Taken
    /\ \A c \in Cells : c \in OnList <=> \E i \in 1 .. m : q[i] = c
<1> SUFFICES ASSUME NEW m, NEW q, InRow(m, q)
             PROVE  /\ Linked = 0 .. m - 1
                    /\ \A l : Links(l) = {n \in 0 .. m - 1 : blink_array[q[n+1]].location = l}
                    /\ OnList = Taken
                    /\ \A c \in Cells : c \in OnList <=> \E i \in 1 .. m : q[i] = c
  OBVIOUS
<1>0. /\ NumCells \in Nat /\ m \in 0 .. NumCells /\ q \in [1 .. m -> Cells]
      /\ \A c \in Cells : blink_array[c].location # 0 <=> \E i \in 1 .. m : q[i] = c
      /\ NULL \notin Cells
  BY SizeAssumption DEF InRow, Chain, NULL, Cells
<1>1. \A n \in 0 .. NumCells : Nth[n] = IF n < m THEN q[n+1] ELSE NULL
  BY NthIs
<1>2. Linked = 0 .. m - 1
  <2>1. ASSUME NEW n \in 0 .. NumCells - 1
        PROVE  Nth[n] # NULL <=> n < m
    <3>1. n < m => q[n+1] \in Cells
      BY <1>0
    <3> QED
      BY <1>0, <1>1, <3>1
  <2> QED
    BY <1>0, <2>1 DEF Linked
<1>3. \A n \in 0 .. m - 1 : Nth[n] = q[n+1]
  BY <1>0, <1>1
<1>4. \A l : Links(l) = {n \in 0 .. m - 1 : blink_array[q[n+1]].location = l}
  BY <1>2, <1>3 DEF Links
<1>5. ASSUME NEW c
      PROVE  c \in OnList <=> \E i \in 1 .. m : q[i] = c
  <2>1. c \in OnList <=> \E n \in 0 .. m - 1 : c = Nth[n]
    BY <1>2 DEF OnList
  <2>2. \A n \in 0 .. m - 1 : n + 1 \in 1 .. m
    BY <1>0
  <2>3. \A i \in 1 .. m : i - 1 \in 0 .. m - 1 /\ (i - 1) + 1 = i
    BY <1>0
  <2> QED
    BY <1>3, <2>1, <2>2, <2>3
<1>6. OnList = Taken
  <2>1. \A c : c \in OnList => c \in Cells
    BY <1>0, <1>5
  <2> QED
    BY <1>0, <1>5, <2>1 DEF Taken
<1> QED
  BY <1>2, <1>4, <1>5, <1>6

\* mp1_find_helper finds the first cell of the row at the place.
LEMMA FoundIs ==
  \A m, q, l : InRow(m, q) /\ Found(l) =>
    \E k \in 1 .. m :
      /\ FindHelper(l) = q[k]
      /\ blink_array[q[k]].location = l
      /\ \A j \in 1 .. k - 1 : blink_array[q[j]].location # l
<1> SUFFICES ASSUME NEW m, NEW q, NEW l, InRow(m, q), Found(l)
             PROVE  \E k \in 1 .. m :
                      /\ FindHelper(l) = q[k]
                      /\ blink_array[q[k]].location = l
                      /\ \A j \in 1 .. k - 1 : blink_array[q[j]].location # l
  OBVIOUS
<1>0. m \in Nat /\ m \in 0 .. NumCells /\ NumCells \in Nat
  BY SizeAssumption DEF InRow, Chain
<1>1. Links(l) = {n \in 0 .. m - 1 : blink_array[q[n+1]].location = l}
  BY RowIs
<1>2. Links(l) \subseteq Nat /\ Links(l) # {}
  BY <1>0, <1>1 DEF Found
<1>3. \E n \in Links(l) : \A k \in Links(l) : n <= k
  BY <1>2, LeastNumber
<1>4. PICK n : n = CHOOSE x \in Links(l) : \A k \in Links(l) : x <= k
  OBVIOUS
<1>5. n \in Links(l) /\ \A k \in Links(l) : n <= k
  BY <1>3, <1>4, Zenon
<1>6. FindHelper(l) = Nth[n]
  BY <1>4, Zenon DEF FindHelper
<1>7. n \in 0 .. m - 1 /\ blink_array[q[n+1]].location = l
  BY <1>1, <1>5
<1>8. Nth[n] = q[n+1]
  BY <1>0, <1>7, NthIs
<1>9. ASSUME NEW j \in 1 .. n PROVE blink_array[q[j]].location # l
  <2>1. j - 1 \in 0 .. m - 1 /\ (j - 1) + 1 = j /\ ~(n <= j - 1)
    BY <1>0, <1>7
  <2>2. j - 1 \notin Links(l)
    BY <1>5, <2>1
  <2> QED
    BY <1>1, <2>1, <2>2
<1>10. n + 1 \in 1 .. m /\ (n + 1) - 1 = n
  BY <1>0, <1>7
<1> QED
  BY <1>6, <1>7, <1>8, <1>9, <1>10

\* mp1_malloc finds a cell that is not in the row.
LEMMA MallocIs ==
  ASSUME NEW m, NEW q, InRow(m, q), Free # {}
  PROVE  /\ Malloc \in Cells
         /\ \A i \in 1 .. m : q[i] # Malloc
         /\ m < NumCells
<1>0. /\ NumCells \in Nat /\ m \in 0 .. NumCells /\ q \in [1 .. m -> Cells]
      /\ \A i, j \in 1 .. m : q[i] = q[j] => i = j
      /\ \A c \in Cells : blink_array[c].location # 0 <=> \E i \in 1 .. m : q[i] = c
  BY SizeAssumption DEF InRow, Chain
<1>1. Free \subseteq Nat
  BY <1>0 DEF Free, Cells
<1>2. \E c \in Free : \A d \in Free : c <= d
  BY <1>1, LeastNumber
<1>3. Malloc \in Free
  BY <1>2, Zenon DEF Malloc
<1>4. Malloc \in Cells /\ \A i \in 1 .. m : q[i] # Malloc
  BY <1>0, <1>3 DEF Free
<1>5. m < NumCells
  <2> DEFINE T == Cells \ {Malloc}
  <2>1. IsFiniteSet(Cells) /\ Cardinality(Cells) = NumCells
    BY <1>0, FS_Interval, SizeAssumption DEF Cells
  <2>2. IsFiniteSet(T) /\ Cardinality(T) = NumCells - 1
    BY <1>4, <2>1, FS_RemoveElement
  <2>3. q \in Injection(1 .. m, T)
    BY <1>0, <1>4 DEF Injection, IsInjective
  <2>4. Cardinality(1 .. m) <= Cardinality(T)
    <3> HIDE DEF T
    <3> QED
      BY <2>2, <2>3, FS_Injection
  <2>5. Cardinality(1 .. m) = m
    BY <1>0, FS_Interval
  <2> QED
    BY <1>0, <2>2, <2>4, <2>5
<1> QED
  BY <1>4, <1>5

\* RTC_ADD puts the cell in front.
Front(c, m, q) == [i \in 1 .. m + 1 |-> IF i = 1 THEN c ELSE q[i - 1]]

LEMMA FrontChain ==
  ASSUME NEW cells, NEW h, NEW m, NEW q, Chain(cells, h, m, q), m < NumCells,
         NEW c \in Cells, \A i \in 1 .. m : q[i] # c,
         NEW new, DOMAIN cells = Cells,
         \A d \in Cells : new[d].next = (IF d = c THEN h ELSE cells[d].next)
                          /\ (new[d].location # 0 <=> d = c \/ cells[d].location # 0)
  PROVE  Chain(new, c, m + 1, Front(c, m, q))
<1> DEFINE r == Front(c, m, q)
<1>0. /\ NumCells \in Nat /\ m \in 0 .. NumCells /\ q \in [1 .. m -> Cells]
      /\ h = IF m = 0 THEN NULL ELSE q[1]
      /\ \A i \in 1 .. m : cells[q[i]].next = IF i = m THEN NULL ELSE q[i+1]
      /\ \A i, j \in 1 .. m : q[i] = q[j] => i = j
      /\ \A d \in Cells : cells[d].location # 0 <=> \E i \in 1 .. m : q[i] = d
  BY SizeAssumption DEF Chain
<1>1. /\ r \in [1 .. m + 1 -> Cells]
      /\ r[1] = c
      /\ \A i \in 2 .. m + 1 : i - 1 \in 1 .. m /\ r[i] = q[i - 1]
  BY <1>0 DEF Front
<1>2. \A i \in 1 .. m : i + 1 \in 2 .. m + 1 /\ r[i + 1] = q[i]
  BY <1>0 DEF Front
<1> HIDE DEF r
<1>3. ASSUME NEW i \in 1 .. m + 1
      PROVE  new[r[i]].next = IF i = m + 1 THEN NULL ELSE r[i+1]
  <2>1. CASE i = 1
    <3>1. new[r[i]].next = h
      BY <1>1, <2>1
    <3>2. m # 0 => r[1 + 1] = q[1]
      BY <1>0, <1>2
    <3> QED
      BY <1>0, <2>1, <3>1, <3>2
  <2>2. CASE i # 1
    <3>1. i \in 2 .. m + 1 /\ i - 1 \in 1 .. m /\ r[i] = q[i - 1] /\ (i - 1) + 1 = i
      BY <1>0, <1>1, <2>2
    <3>2. new[r[i]].next = IF i - 1 = m THEN NULL ELSE q[i]
      <4>1. q[i - 1] \in Cells /\ q[i - 1] # c
        BY <1>0, <3>1
      <4> QED
        BY <1>0, <3>1, <4>1
    <3>3. i # m + 1 => r[i + 1] = q[i]
      BY <1>0, <1>2, <2>2
    <3> QED
      BY <1>0, <3>2, <3>3
  <2> QED
    BY <2>1, <2>2
<1>4. ASSUME NEW i \in 1 .. m + 1, NEW j \in 1 .. m + 1, r[i] = r[j]
      PROVE  i = j
  <2>1. \A x \in 1 .. m + 1 : x = 1 \/ x \in 2 .. m + 1
    BY <1>0
  <2> QED
    BY <1>0, <1>1, <1>4, <2>1
<1>5. ASSUME NEW d \in Cells
      PROVE  new[d].location # 0 <=> \E i \in 1 .. m + 1 : r[i] = d
  <2>1. (\E i \in 1 .. m + 1 : r[i] = d) <=> d = c \/ \E i \in 1 .. m : q[i] = d
    <3>1. \A x \in 1 .. m + 1 : x = 1 \/ x \in 2 .. m + 1
      BY <1>0
    <3>2. 1 \in 1 .. m + 1 /\ \A x \in 1 .. m : x + 1 \in 1 .. m + 1
      BY <1>0
    <3> QED
      BY <1>1, <1>2, <3>1, <3>2
  <2> QED
    BY <1>0, <2>1
<1>6. m + 1 \in 0 .. NumCells /\ m + 1 # 0
  BY <1>0
<1> QED
  BY <1>1, <1>3, <1>4, <1>5, <1>6 DEF Chain, r

\* RTC_REMOVE closes the row over the cell it frees.
Without(k, m, q) == [i \in 1 .. m - 1 |-> IF i < k THEN q[i] ELSE q[i + 1]]

LEMMA WithoutChain ==
  ASSUME NEW cells, NEW h, NEW m, NEW q, Chain(cells, h, m, q), NEW k \in 1 .. m,
         NEW new,
         \A d \in Cells \ {q[k]} :
           /\ new[d].next = IF cells[d].next = q[k] THEN cells[q[k]].next ELSE cells[d].next
           /\ new[d].location = cells[d].location,
         new[q[k]].location = 0
  PROVE  Chain(new, IF h = q[k] THEN cells[q[k]].next ELSE h, m - 1, Without(k, m, q))
<1> DEFINE r == Without(k, m, q)
           g == IF h = q[k] THEN cells[q[k]].next ELSE h
<1>0. /\ NumCells \in Nat /\ m \in 1 .. NumCells /\ q \in [1 .. m -> Cells]
      /\ h = q[1]
      /\ \A i \in 1 .. m : cells[q[i]].next = IF i = m THEN NULL ELSE q[i+1]
      /\ \A i, j \in 1 .. m : q[i] = q[j] => i = j
      /\ \A d \in Cells : cells[d].location # 0 <=> \E i \in 1 .. m : q[i] = d
      /\ NULL \notin Cells
  BY SizeAssumption DEF Chain, NULL, Cells
<1>1. /\ r \in [1 .. m - 1 -> Cells]
      /\ \A i \in 1 .. m - 1 : i < k => i \in 1 .. m /\ r[i] = q[i]
      /\ \A i \in 1 .. m - 1 : ~(i < k) => i + 1 \in 1 .. m /\ r[i] = q[i + 1]
  BY <1>0 DEF Without
<1> HIDE DEF r
<1>2. g = IF m - 1 = 0 THEN NULL ELSE r[1]
  <2>1. CASE k = 1
    <3>1. g = IF m = 1 THEN NULL ELSE q[2]
      BY <1>0, <2>1
    <3>2. m # 1 => r[1] = q[2]
      BY <1>0, <1>1, <2>1
    <3> QED
      BY <1>0, <3>1, <3>2
  <2>2. CASE k # 1
    <3>1. q[1] # q[k] /\ 1 \in 1 .. m - 1 /\ 1 < k
      BY <1>0, <2>2
    <3> QED
      BY <1>0, <1>1, <3>1
  <2> QED
    BY <2>1, <2>2
<1>3. ASSUME NEW i \in 1 .. m - 1
      PROVE  new[r[i]].next = IF i = m - 1 THEN NULL ELSE r[i+1]
  <2>1. CASE i < k - 1
    <3>1. r[i] = q[i] /\ r[i + 1] = q[i + 1] /\ i # m - 1 /\ i \in 1 .. m /\ i # m
          /\ i + 1 \in 1 .. m /\ i # k /\ i + 1 # k
      BY <1>0, <1>1, <2>1
    <3>2. q[i] \in Cells \ {q[k]} /\ q[i + 1] # q[k]
      BY <1>0, <3>1
    <3>3. cells[q[i]].next = q[i + 1]
      BY <1>0, <3>1
    <3> QED
      BY <3>1, <3>2, <3>3
  <2>2. CASE i = k - 1
    <3>1. r[i] = q[i] /\ i \in 1 .. m /\ i # m /\ i # k /\ i + 1 = k
      BY <1>0, <1>1, <2>2
    <3>2. q[i] \in Cells \ {q[k]} /\ cells[q[i]].next = q[k]
      BY <1>0, <3>1
    <3>3. new[r[i]].next = IF k = m THEN NULL ELSE q[k + 1]
      BY <1>0, <3>1, <3>2
    <3>4. k # m => r[i + 1] = q[k + 1]
      BY <1>0, <1>1, <2>2
    <3> QED
      BY <1>0, <3>1, <3>3, <3>4
  <2>3. CASE i > k - 1
    <3>1. r[i] = q[i + 1] /\ i + 1 \in 1 .. m /\ i + 1 # k
      BY <1>0, <1>1, <2>3
    <3>2. q[i + 1] \in Cells \ {q[k]}
      BY <1>0, <3>1
    <3>3. cells[q[i + 1]].next = IF i + 1 = m THEN NULL ELSE q[i + 2]
      BY <1>0, <3>1
    <3>4. i + 1 # m => i + 2 \in 1 .. m /\ q[i + 2] # q[k] /\ r[i + 1] = q[i + 2]
      BY <1>0, <1>1, <2>3
    <3>5. NULL # q[k]
      BY <1>0
    <3> QED
      BY <1>0, <3>1, <3>2, <3>3, <3>4, <3>5
  <2> QED
    BY <1>0, <2>1, <2>2, <2>3
<1>4. ASSUME NEW i \in 1 .. m - 1, NEW j \in 1 .. m - 1, r[i] = r[j]
      PROVE  i = j
  BY <1>0, <1>1, <1>4
<1>5. ASSUME NEW d \in Cells
      PROVE  new[d].location # 0 <=> \E i \in 1 .. m - 1 : r[i] = d
  <2>1. CASE d = q[k]
    <3>1. \A i \in 1 .. m - 1 : r[i] # q[k]
      BY <1>0, <1>1
    <3> QED
      BY <2>1, <3>1
  <2>2. CASE d # q[k]
    <3>1. ASSUME NEW x \in 1 .. m, q[x] = d
          PROVE  \E i \in 1 .. m - 1 : r[i] = d
      <4>1. x # k
        BY <2>2, <3>1
      <4>2. CASE x < k
        BY <1>0, <1>1, <3>1, <4>2
      <4>3. CASE x > k
        <5>1. x - 1 \in 1 .. m - 1 /\ ~(x - 1 < k) /\ (x - 1) + 1 = x
          BY <1>0, <4>3
        <5> QED
          BY <1>1, <3>1, <5>1
      <4> QED
        BY <1>0, <4>1, <4>2, <4>3
    <3>2. (\E i \in 1 .. m - 1 : r[i] = d) => \E x \in 1 .. m : q[x] = d
      BY <1>1
    <3> QED
      BY <1>0, <2>2, <3>1, <3>2
  <2> QED
    BY <2>1, <2>2
<1>6. m - 1 \in 0 .. NumCells
  BY <1>0
<1> QED
  BY <1>1, <1>2, <1>3, <1>4, <1>5, <1>6 DEF Chain, r

-----------------------------------------------------------------------------
(* The inductive invariant *)

CellType == [location : Places, on_char : Chars, off_char : Chars, on_length : Lengths,
             off_length : Lengths, countdown : Lengths, status : {0, 1},
             next : Cells \cup {NULL}]

\* Two cells with the same rhythm, at the same point of it.
Together(b, d) ==
  /\ b.on_length = d.on_length /\ b.off_length = d.off_length
  /\ b.countdown = d.countdown /\ b.status = d.status

\* Synced cells are in use: none of them is handed out again with its pair.
SyncedTogether ==
  \A pair \in synced :
    /\ pair[1] \in Taken /\ pair[2] \in Taken
    /\ Together(blink_array[pair[1]], blink_array[pair[2]])

BlinkInv ==
  /\ TypeOK
  /\ \E m, q : InRow(m, q)
  /\ SyncedTogether

\* What a program passes to RTC_ADD.
LEMMA StructsTyped ==
  ASSUME NEW s \in Structs
  PROVE  /\ s.on_char \in Chars /\ s.off_char \in Chars
         /\ s.on_length \in Lengths /\ s.off_length \in Lengths
         /\ s.location # 0
<1>1. s.on_char \in {x.on_char : x \in Structs} /\ s.off_char \in {x.off_char : x \in Structs}
  OBVIOUS
<1> QED
  BY <1>1, StructAssumption DEF Chars, Lengths

LEMMA StartInv == Init => BlinkInv
<1> SUFFICES ASSUME Init PROVE BlinkInv
  OBVIOUS
<1>0. NumCells \in Nat /\ NULL \notin Cells /\ 0 \in Places /\ 0 \in Chars /\ 0 \in Lengths
  BY SizeAssumption DEF NULL, Cells, Places, Chars, Lengths, MaxLength
<1>1. Zero \in CellType /\ Zero.location = 0
  BY <1>0 DEF Zero, CellType, NULL
<1>2. TypeOK
  BY <1>1 DEF Init, TypeOK, CellType
<1>3. InRow(0, [i \in 1 .. 0 |-> 1])
  BY <1>0, <1>1 DEF Init, InRow, Chain
<1>4. SyncedTogether
  BY DEF Init, SyncedTogether
<1> QED
  BY <1>2, <1>3, <1>4 DEF BlinkInv

\* The cell that RTC_ADD fills.
NewCell(s, h) ==
  [location |-> s.location, on_char |-> s.on_char, off_char |-> s.off_char,
   on_length |-> s.on_length, off_length |-> s.off_length,
   countdown |-> s.on_length, status |-> 1, next |-> h]

LEMMA AddIs ==
  ASSUME BlinkInv, NEW s \in Structs, Add(s), NEW m, NEW q, InRow(m, q)
  PROVE  \E c \in Cells :
           /\ \A i \in 1 .. m : q[i] # c
           /\ blink_array' = [blink_array EXCEPT ![c] = NewCell(s, mp1_list_head)]
           /\ mp1_list_head' = c
           /\ m < NumCells
           /\ InRow(m + 1, Front(c, m, q))'
<1>1. PICK c : c = Malloc
  OBVIOUS
<1>2. Free # {} /\ mp1_list_head' = Malloc
  BY DEF Add
<1>3. c \in Cells /\ (\A i \in 1 .. m : q[i] # c) /\ m < NumCells
  BY <1>1, <1>2, MallocIs
<1>4. blink_array' = [blink_array EXCEPT ![c] = NewCell(s, mp1_list_head)]
  BY <1>1 DEF Add, NewCell
<1>5. DOMAIN blink_array = Cells
  BY DEF BlinkInv, TypeOK
<1>6. NewCell(s, mp1_list_head).next = mp1_list_head
      /\ NewCell(s, mp1_list_head).location # 0
  BY StructsTyped DEF NewCell
<1>7. \A d \in Cells :
        blink_array'[d] = IF d = c THEN NewCell(s, mp1_list_head) ELSE blink_array[d]
  BY <1>3, <1>4, <1>5
<1>8. PICK new : new = blink_array'
  OBVIOUS
<1>9. PICK old, h : old = blink_array /\ h = mp1_list_head
  OBVIOUS
<1>10. \A d \in Cells : /\ new[d].next = (IF d = c THEN h ELSE old[d].next)
                        /\ new[d].location # 0 <=> d = c \/ old[d].location # 0
  BY <1>6, <1>7, <1>8, <1>9
<1>11. Chain(new, c, m + 1, Front(c, m, q))
  BY <1>3, <1>5, <1>9, <1>10, FrontChain DEF InRow
<1>12. InRow(m + 1, Front(c, m, q))'
  BY <1>1, <1>2, <1>8, <1>11 DEF InRow
<1> QED
  BY <1>1, <1>2, <1>3, <1>4, <1>12

LEMMA AddKeeps ==
  ASSUME BlinkInv, NEW s \in Structs, Add(s)
  PROVE  BlinkInv'
<1>1. PICK m, q : InRow(m, q)
  BY DEF BlinkInv
<1>2. PICK c \in Cells :
        /\ \A i \in 1 .. m : q[i] # c
        /\ blink_array' = [blink_array EXCEPT ![c] = NewCell(s, mp1_list_head)]
        /\ mp1_list_head' = c
        /\ InRow(m + 1, Front(c, m, q))'
  BY <1>1, AddIs
<1>3. TypeOK
  BY DEF BlinkInv
<1>4. NewCell(s, mp1_list_head) \in CellType
  <2>1. s.location \in Places /\ mp1_list_head \in Cells \cup {NULL}
    BY <1>3 DEF Add, TypeOK
  <2> QED
    BY <2>1, StructsTyped DEF NewCell, CellType
<1>5. blink_array' \in [Cells -> CellType]
  BY <1>2, <1>3, <1>4 DEF TypeOK, CellType
<1>6. screen' \in [Places -> Chars \cup {Blank}] /\ synced' = synced
  BY <1>3, StructsTyped DEF Add, TypeOK
<1>7. TypeOK'
  BY <1>2, <1>3, <1>5, <1>6 DEF TypeOK, CellType
<1>8. c \notin Taken
  BY <1>1, <1>2 DEF InRow, Chain, Taken
<1>9. \A d \in Taken : d \in Taken' /\ blink_array'[d] = blink_array[d]
  BY <1>2, <1>3, <1>8 DEF Taken, TypeOK
<1>10. SyncedTogether'
  BY <1>6, <1>9 DEF BlinkInv, SyncedTogether, Together
<1> QED
  BY <1>2, <1>7, <1>10 DEF BlinkInv

LEMMA RemoveIs ==
  ASSUME BlinkInv, NEW l, Remove(l), NEW m, NEW q, InRow(m, q)
  PROVE  \E k \in 1 .. m :
           /\ blink_array[q[k]].location = l
           /\ \A j \in 1 .. k - 1 : blink_array[q[j]].location # l
           /\ \A d \in Cells :
                blink_array'[d] =
                  IF d = q[k] THEN Zero
                  ELSE [blink_array[d] EXCEPT
                          !.next = IF @ = q[k] THEN blink_array[q[k]].next ELSE @]
           /\ mp1_list_head' = IF mp1_list_head = q[k] THEN blink_array[q[k]].next
                               ELSE mp1_list_head
           /\ blink_array' \in [Cells -> CellType]
           /\ synced' = {pair \in synced : q[k] \notin {pair[1], pair[2]}}
           /\ InRow(m - 1, Without(k, m, q))'
<1>0. TypeOK /\ NULL \notin Cells
  BY DEF BlinkInv, NULL, Cells
<1>1. PICK k \in 1 .. m :
        /\ FindHelper(l) = q[k]
        /\ blink_array[q[k]].location = l
        /\ \A j \in 1 .. k - 1 : blink_array[q[j]].location # l
  BY FoundIs DEF Remove
<1>2. q[k] \in Cells
  BY DEF InRow, Chain
<1> DEFINE Skip(link) == IF link = q[k] THEN blink_array[q[k]].next ELSE link
<1>3. /\ blink_array' = [[d \in Cells |-> [blink_array[d] EXCEPT !.next = Skip(@)]]
                           EXCEPT ![q[k]] = Zero]
      /\ mp1_list_head' = Skip(mp1_list_head)
      /\ synced' = {pair \in synced : q[k] \notin {pair[1], pair[2]}}
  BY <1>1 DEF Remove, Freed
<1>4. \A d \in Cells :
        blink_array'[d] = IF d = q[k] THEN Zero
                          ELSE [blink_array[d] EXCEPT !.next = Skip(@)]
  BY <1>2, <1>3
<1>5. \A d \in Cells : /\ blink_array[d] \in CellType
                       /\ DOMAIN blink_array[d] = DOMAIN Zero
  BY <1>0 DEF TypeOK, CellType, Zero
<1>6. blink_array' \in [Cells -> CellType]
  <2>1. Zero \in CellType
    BY SizeAssumption DEF Zero, CellType, NULL, Cells, Places, Chars, Lengths, MaxLength
  <2>2. \A d \in Cells : [blink_array[d] EXCEPT !.next = Skip(@)] \in CellType
    BY <1>2, <1>5 DEF CellType
  <2>3. \A d \in Cells : blink_array'[d] \in CellType
    BY <1>4, <2>1, <2>2
  <2> HIDE DEF Skip
  <2>4. DOMAIN blink_array' = Cells /\ blink_array' = [d \in DOMAIN blink_array' |-> blink_array'[d]]
    BY <1>3
  <2> QED
    BY <2>3, <2>4
<1>7. PICK new : new = blink_array'
  OBVIOUS
<1>8. PICK old, h : old = blink_array /\ h = mp1_list_head
  OBVIOUS
<1>9. /\ \A d \in Cells \ {q[k]} :
           /\ new[d].next = IF old[d].next = q[k] THEN old[q[k]].next ELSE old[d].next
           /\ new[d].location = old[d].location
      /\ new[q[k]].location = 0
  <2>1. \A d \in Cells \ {q[k]} : /\ new[d] = [old[d] EXCEPT !.next = Skip(@)]
                                  /\ DOMAIN old[d] = DOMAIN Zero
    BY <1>4, <1>5, <1>7, <1>8
  <2>2. new[q[k]] = Zero
    BY <1>2, <1>4, <1>7
  <2>3. \A d \in Cells \ {q[k]} : /\ new[d].next = Skip(old[d].next)
                                  /\ new[d].location = old[d].location
    <3> HIDE DEF Skip
    <3> QED
      BY <2>1 DEF Zero
  <2>4. \A link : Skip(link) = IF link = q[k] THEN old[q[k]].next ELSE link
    BY <1>8
  <2>5. new[q[k]].location = 0
    BY <2>2 DEF Zero
  <2> HIDE DEF Skip
  <2> QED
    BY <2>3, <2>4, <2>5, Zenon
<1>10. Chain(new, IF h = q[k] THEN old[q[k]].next ELSE h, m - 1, Without(k, m, q))
  BY <1>8, <1>9, WithoutChain DEF InRow
<1>11. InRow(m - 1, Without(k, m, q))'
  BY <1>3, <1>7, <1>8, <1>10 DEF InRow
<1> QED
  BY <1>1, <1>3, <1>4, <1>6, <1>11

LEMMA RemoveKeeps ==
  ASSUME BlinkInv, NEW l, Remove(l)
  PROVE  BlinkInv'
<1>1. PICK m, q : InRow(m, q)
  BY DEF BlinkInv
<1>2. PICK k \in 1 .. m :
        /\ \A d \in Cells :
             blink_array'[d] =
               IF d = q[k] THEN Zero
               ELSE [blink_array[d] EXCEPT
                       !.next = IF @ = q[k] THEN blink_array[q[k]].next ELSE @]
        /\ mp1_list_head' = IF mp1_list_head = q[k] THEN blink_array[q[k]].next
                            ELSE mp1_list_head
        /\ blink_array' \in [Cells -> CellType]
        /\ synced' = {pair \in synced : q[k] \notin {pair[1], pair[2]}}
        /\ InRow(m - 1, Without(k, m, q))'
  BY <1>1, RemoveIs
<1>3. TypeOK /\ q[k] \in Cells
  BY <1>1 DEF BlinkInv, InRow, Chain
<1>4. TypeOK'
  BY <1>2, <1>3 DEF TypeOK, CellType, Remove
<1>5. \A d \in Taken : d # q[k] => d \in Taken' /\ Together(blink_array'[d], blink_array[d])
  BY <1>2, <1>3 DEF Taken, TypeOK, Together
<1>6. SyncedTogether'
  BY <1>2, <1>5 DEF BlinkInv, SyncedTogether, Together
<1> QED
  BY <1>2, <1>4, <1>6 DEF BlinkInv

\* A step that moves no link and puts no cell to use or out of use.
LEMMA SameRow ==
  ASSUME NEW m, NEW q, InRow(m, q), mp1_list_head' = mp1_list_head,
         \A d \in Cells : /\ blink_array'[d].next = blink_array[d].next
                          /\ blink_array'[d].location = blink_array[d].location
  PROVE  InRow(m, q)'
<1>1. PICK new, old, h : new = blink_array' /\ old = blink_array /\ h = mp1_list_head
  OBVIOUS
<1>2. \A d \in Cells : new[d].next = old[d].next /\ new[d].location = old[d].location
  BY <1>1
<1>3. Chain(old, h, m, q)
  BY <1>1 DEF InRow
<1>4. Chain(new, h, m, q)
  BY <1>2, <1>3 DEF Chain
<1> QED
  BY <1>1, <1>4 DEF InRow

LEMMA SyncIs ==
  ASSUME BlinkInv, NEW l, NEW p, Sync(l, p), NEW m, NEW q, InRow(m, q)
  PROVE  \E k, j \in 1 .. m :
           /\ blink_array[q[k]].location = l
           /\ \A i \in 1 .. k - 1 : blink_array[q[i]].location # l
           /\ blink_array[q[j]].location = p
           /\ \A i \in 1 .. j - 1 : blink_array[q[i]].location # p
           /\ blink_array' = [blink_array EXCEPT ![q[j]] =
                                Takes(blink_array[q[j]], blink_array[q[k]])]
           /\ screen' = [screen EXCEPT ![p] = blink_array[q[j]].off_char]
           /\ synced' = IF q[k] = q[j] THEN synced
                        ELSE {pair \in synced : q[j] \notin {pair[1], pair[2]}}
                               \cup {<<q[k], q[j]>>}
           /\ mp1_list_head' = mp1_list_head
           /\ InRow(m, q)'
<1>0. TypeOK
  BY DEF BlinkInv
<1>1. PICK k \in 1 .. m :
        /\ FindHelper(l) = q[k]
        /\ blink_array[q[k]].location = l
        /\ \A j \in 1 .. k - 1 : blink_array[q[j]].location # l
  BY FoundIs DEF Sync
<1>2. PICK j \in 1 .. m :
        /\ FindHelper(p) = q[j]
        /\ blink_array[q[j]].location = p
        /\ \A i \in 1 .. j - 1 : blink_array[q[i]].location # p
  BY FoundIs DEF Sync
<1>3. q[j] \in Cells /\ q[k] \in Cells
  BY DEF InRow, Chain
<1>4. /\ blink_array' = [blink_array EXCEPT ![q[j]] =
                           Takes(blink_array[q[j]], blink_array[q[k]])]
      /\ screen' = [screen EXCEPT ![p] = blink_array[q[j]].off_char]
      /\ mp1_list_head' = mp1_list_head
  BY <1>1, <1>2 DEF Sync
<1>5. synced' = IF q[k] = q[j] THEN synced
                ELSE {pair \in synced : q[j] \notin {pair[1], pair[2]}}
                       \cup {<<q[k], q[j]>>}
  BY <1>1, <1>2, Zenon DEF Sync
<1>6. InRow(m, q)'
  <2>1. blink_array[q[j]] \in CellType
    BY <1>0, <1>3 DEF TypeOK, CellType
  <2>2. /\ Takes(blink_array[q[j]], blink_array[q[k]]).next = blink_array[q[j]].next
        /\ Takes(blink_array[q[j]], blink_array[q[k]]).location = blink_array[q[j]].location
    BY <2>1 DEF Takes, CellType
  <2>3. \A d \in Cells : blink_array'[d] = IF d = q[j] THEN Takes(blink_array[q[j]], blink_array[q[k]])
                                                      ELSE blink_array[d]
    BY <1>0, <1>3, <1>4 DEF TypeOK
  <2>4. \A d \in Cells : /\ blink_array'[d].next = blink_array[d].next
                         /\ blink_array'[d].location = blink_array[d].location
    BY <2>2, <2>3
  <2> QED
    BY <1>4, <2>4, SameRow
<1> QED
  BY <1>1, <1>2, <1>4, <1>5, <1>6

LEMMA SyncKeeps ==
  ASSUME BlinkInv, NEW l, NEW p \in Places, Sync(l, p)
  PROVE  BlinkInv'
<1>1. PICK m, q : InRow(m, q)
  BY DEF BlinkInv
<1>2. PICK k \in 1 .. m, j \in 1 .. m :
        /\ blink_array' = [blink_array EXCEPT ![q[j]] =
                             Takes(blink_array[q[j]], blink_array[q[k]])]
        /\ screen' = [screen EXCEPT ![p] = blink_array[q[j]].off_char]
        /\ synced' = IF q[k] = q[j] THEN synced
                     ELSE {pair \in synced : q[j] \notin {pair[1], pair[2]}}
                            \cup {<<q[k], q[j]>>}
        /\ mp1_list_head' = mp1_list_head
        /\ InRow(m, q)'
  BY <1>1, SyncIs
<1>3. PICK from, to : from = q[k] /\ to = q[j]
  OBVIOUS
<1>4. TypeOK /\ from \in Cells /\ to \in Cells /\ from \in Taken /\ to \in Taken
  BY <1>1, <1>3 DEF BlinkInv, InRow, Chain, Taken
<1>5. blink_array[from] \in CellType /\ blink_array[to] \in CellType
  BY <1>4 DEF TypeOK, CellType
<1> DEFINE new == Takes(blink_array[to], blink_array[from])
<1>6. /\ new \in CellType
      /\ new.location = blink_array[to].location
      /\ Together(new, blink_array[from])
  BY <1>5 DEF Takes, CellType, Together
<1> HIDE DEF new
<1>7. \A d \in Cells : blink_array'[d] = IF d = to THEN new ELSE blink_array[d]
  BY <1>2, <1>3, <1>4 DEF TypeOK, new
<1>8. blink_array' \in [Cells -> CellType]
  BY <1>2, <1>3, <1>4, <1>6 DEF TypeOK, CellType, new
<1>9. screen' \in [Places -> Chars \cup {Blank}]
  BY <1>2, <1>3, <1>4, <1>5 DEF TypeOK, CellType
<1>10. synced' \subseteq Cells \X Cells
  BY <1>2, <1>3, <1>4 DEF TypeOK
<1>11. TypeOK'
  BY <1>2, <1>4, <1>8, <1>9, <1>10 DEF TypeOK, CellType
<1>12. Taken' = Taken
  BY <1>6, <1>7, <1>4 DEF Taken
<1>13. SyncedTogether'
  <2>1. CASE from = to
    <3>1. \A d \in Cells : Together(blink_array'[d], blink_array[d])
      BY <1>6, <1>7, <2>1 DEF Together
    <3>2. synced' = synced
      BY <1>2, <1>3, <2>1
    <3> QED
      BY <1>12, <3>1, <3>2 DEF BlinkInv, SyncedTogether, Together, Taken
  <2>2. CASE from # to
    <3>1. ASSUME NEW pair \in synced, to \notin {pair[1], pair[2]}
          PROVE  /\ pair[1] \in Taken' /\ pair[2] \in Taken'
                 /\ Together(blink_array'[pair[1]], blink_array'[pair[2]])
      BY <1>7, <1>12, <3>1 DEF BlinkInv, SyncedTogether, Taken
    <3>2. /\ from \in Taken' /\ to \in Taken'
          /\ Together(blink_array'[from], blink_array'[to])
      BY <1>4, <1>6, <1>7, <1>12, <2>2 DEF Together
    <3>3. synced' = {pair \in synced : to \notin {pair[1], pair[2]}} \cup {<<from, to>>}
      BY <1>2, <1>3, <2>2
    <3>4. \A pair \in synced' : pair = <<from, to>> \/ (pair \in synced /\ to \notin {pair[1], pair[2]})
      BY <3>3
    <3> QED
      BY <3>1, <3>2, <3>4 DEF SyncedTogether
  <2> QED
    BY <2>1, <2>2
<1> QED
  BY <1>2, <1>11, <1>13 DEF BlinkInv

\* What the tasklet makes of one blinker.
LEMMA BlinkedTyped ==
  ASSUME NEW b \in CellType
  PROVE  /\ Blinked(b) \in CellType
         /\ Blinked(b).next = b.next /\ Blinked(b).location = b.location
         /\ \A d \in CellType : Together(b, d) => Together(Blinked(b), Blinked(d))
<1>0. MaxLength \in Nat
  BY DEF MaxLength
<1>1. /\ b.countdown \in 0 .. MaxLength /\ b.status \in {0, 1} /\ MaxLength \in Nat
      /\ b.on_length \in 0 .. MaxLength /\ b.off_length \in 0 .. MaxLength
  BY <1>0 DEF CellType, Lengths
<1>2. ~Expired(b.countdown - 1) => b.countdown - 1 \in 0 .. MaxLength
  BY <1>1 DEF Expired
<1>3. 1 - b.status \in {0, 1}
  BY <1>1
<1>4. Blinked(b) \in CellType /\ Blinked(b).next = b.next /\ Blinked(b).location = b.location
  <2>1. CASE Expired(b.countdown - 1)
    <3>1. Blinked(b) = [b EXCEPT !.countdown = IF b.status = 1 THEN b.off_length ELSE b.on_length,
                                 !.status = 1 - @]
      BY <2>1 DEF Blinked
    <3> QED
      BY <1>1, <1>3, <3>1 DEF CellType, Lengths
  <2>2. CASE ~Expired(b.countdown - 1)
    <3>1. Blinked(b) = [b EXCEPT !.countdown = @ - 1]
      BY <2>2 DEF Blinked
    <3> QED
      BY <1>2, <2>2, <3>1 DEF CellType, Lengths
  <2> QED
    BY <2>1, <2>2
<1>5. ASSUME NEW d \in CellType, Together(b, d)
      PROVE  Together(Blinked(b), Blinked(d))
  BY <1>5 DEF CellType, Together, Blinked
<1> QED
  BY <1>4, <1>5

LEMMA TickIs ==
  ASSUME BlinkInv, RtcTasklet, NEW m, NEW q, InRow(m, q)
  PROVE  /\ \A d \in Cells :
              blink_array'[d] = IF d \in Taken THEN Blinked(blink_array[d]) ELSE blink_array[d]
         /\ blink_array' \in [Cells -> CellType]
         /\ InRow(m, q)'
<1>0. \A d \in Cells : blink_array[d] \in CellType
  BY DEF BlinkInv, TypeOK, CellType
<1>1. blink_array' = [c \in Cells |-> IF c \in Taken THEN Blinked(blink_array[c])
                                                     ELSE blink_array[c]]
  BY RowIs DEF RtcTasklet
<1>2. \A d \in Cells : /\ blink_array'[d] \in CellType
                       /\ blink_array'[d].next = blink_array[d].next
                       /\ blink_array'[d].location = blink_array[d].location
  BY <1>0, <1>1, BlinkedTyped
<1>3. InRow(m, q)'
  BY <1>2, SameRow DEF RtcTasklet
<1> QED
  BY <1>1, <1>2, <1>3

LEMMA TickKeeps ==
  ASSUME BlinkInv, RtcTasklet
  PROVE  BlinkInv'
<1>1. PICK m, q : InRow(m, q)
  BY DEF BlinkInv
<1>2. TypeOK
  BY DEF BlinkInv
<1>3. /\ \A d \in Cells :
           blink_array'[d] = IF d \in Taken THEN Blinked(blink_array[d]) ELSE blink_array[d]
      /\ blink_array' \in [Cells -> CellType]
      /\ InRow(m, q)'
  BY <1>1, TickIs
<1>4. screen' \in [Places -> Chars \cup {Blank}]
  <2> DEFINE writers(p) == {n \in Links(p) : Due(Nth[n])}
             last(p) == CHOOSE n \in writers(p) : \A k \in writers(p) : k <= n
  <2>1. screen' = [p \in Places |->
                     IF writers(p) = {} THEN screen[p] ELSE Char(blink_array[Nth[last(p)]])]
    BY DEF RtcTasklet
  <2>2. ASSUME NEW p \in Places, writers(p) # {}
        PROVE  Char(blink_array[Nth[last(p)]]) \in Chars
    <3>1. m \in 0 .. NumCells /\ NumCells \in Nat /\ q \in [1 .. m -> Cells]
      BY <1>1, SizeAssumption DEF InRow, Chain
    <3>2. Links(p) \subseteq 0 .. m - 1
      BY <1>1, RowIs
    <3>3. writers(p) \subseteq 0 .. NumCells
      BY <3>1, <3>2
    <3> DEFINE W == writers(p)
    <3>4. \E n \in W : \A k \in W : k <= n
      <4> HIDE DEF W
      <4> QED
        BY <2>2, <3>1, <3>3, GreatestNumber DEF W
    <3>5. last(p) \in W
      BY <3>4, Zenon
    <3>6. last(p) \in 0 .. m - 1
      <4> HIDE DEF last
      <4> QED
        BY <3>2, <3>5
    <3>7. Nth[last(p)] \in Cells
      <4> HIDE DEF last
      <4>1. last(p) \in 0 .. NumCells /\ last(p) < m /\ last(p) + 1 \in 1 .. m
        BY <3>1, <3>6
      <4> QED
        BY <1>1, <3>1, <4>1, NthIs
    <3> HIDE DEF last, W
    <3> QED
      BY <1>2, <3>7 DEF Char, TypeOK
  <2> HIDE DEF writers, last
  <2> QED
    BY <1>2, <2>1, <2>2 DEF TypeOK
<1>5. synced' = synced /\ mp1_list_head' = mp1_list_head
  BY DEF RtcTasklet
<1>6. TypeOK'
  BY <1>2, <1>3, <1>4, <1>5 DEF TypeOK, CellType
<1>7. \A d \in Taken : /\ d \in Taken' /\ blink_array[d] \in CellType
                       /\ blink_array'[d] = Blinked(blink_array[d])
  BY <1>2, <1>3, BlinkedTyped DEF Taken, TypeOK, CellType
<1>8. SyncedTogether'
  BY <1>5, <1>7, BlinkedTyped DEF BlinkInv, SyncedTogether
<1> QED
  BY <1>3, <1>6, <1>8 DEF BlinkInv

LEMMA StepInv ==
  ASSUME BlinkInv, [Next]_vars
  PROVE  BlinkInv'
<1>1. ASSUME NEW s \in Structs, Add(s) PROVE BlinkInv'
  BY <1>1, AddKeeps
<1>2. ASSUME NEW l \in Places, Remove(l) PROVE BlinkInv'
  BY <1>2, RemoveKeeps
<1>3. ASSUME NEW l \in Places, NEW p \in Places, Sync(l, p) PROVE BlinkInv'
  BY <1>3, SyncKeeps
<1>4. CASE RtcTasklet
  BY <1>4, TickKeeps
<1>5. CASE UNCHANGED vars
  <2>1. PICK m, q : InRow(m, q)
    BY DEF BlinkInv
  <2>2. InRow(m, q)'
    BY <1>5, <2>1, SameRow DEF vars
  <2> QED
    BY <1>5, <2>2 DEF vars, BlinkInv, TypeOK, SyncedTogether, Taken
<1> QED
  BY <1>1, <1>2, <1>3, <1>4, <1>5 DEF Next

LEMMA InvHolds == Spec => []BlinkInv
<1>1. BlinkInv /\ [Next]_vars => BlinkInv'
  BY StepInv
<1> QED
  BY StartInv, <1>1, PTL DEF Spec

-----------------------------------------------------------------------------
(* Theorems *)

\* Every field of a cell keeps its range, and no countdown runs below zero.
THEOREM CellsTyped == Spec => []TypeOK
<1>1. BlinkInv => TypeOK
  BY DEF BlinkInv
<1> QED
  BY <1>1, InvHolds, PTL

\* mp1_ioctl: whatever is added and removed, and in whatever order, the list
\* holds the cells in use, each once, and ends.
THEOREM NoBlinkerLost == Spec => []ListHoldsBlinkers
<1>1. ASSUME BlinkInv
      PROVE  ListHoldsBlinkers
  <2>1. PICK m, q : InRow(m, q)
    BY <1>1 DEF BlinkInv
  <2>2. /\ NumCells \in Nat /\ m \in 0 .. NumCells
        /\ \A i, j \in 1 .. m : q[i] = q[j] => i = j
    BY <2>1, SizeAssumption DEF InRow, Chain
  <2>3. Linked = 0 .. m - 1 /\ OnList = Taken
    BY <2>1, RowIs
  <2>4. \A n \in 0 .. NumCells : Nth[n] = IF n < m THEN q[n+1] ELSE NULL
    BY <2>1, NthIs
  <2>5. Nth[NumCells] = NULL
    BY <2>2, <2>4
  <2>6. ASSUME NEW n \in Linked, NEW k \in Linked, Nth[n] = Nth[k]
        PROVE  n = k
    <3>1. q[n + 1] = q[k + 1] /\ n + 1 \in 1 .. m /\ k + 1 \in 1 .. m
      BY <2>2, <2>3, <2>4, <2>6
    <3>2. n + 1 = k + 1
      BY <2>2, <3>1
    <3> QED
      BY <2>2, <2>3, <3>2
  <2> QED
    BY <2>3, <2>5, <2>6 DEF ListHoldsBlinkers
<1> QED
  BY <1>1, InvHolds, PTL

\* RTC_SYNC: a synced pair blinks together until one of the two is synced anew
\* or removed, whatever happens to its cells in between.
THEOREM SyncedPairsTogether == Spec => []SyncedInStep
<1>1. BlinkInv => SyncedInStep
  BY DEF BlinkInv, SyncedTogether, Together, SyncedInStep
<1> QED
  BY <1>1, InvHolds, PTL

-----------------------------------------------------------------------------
(* The list that the cells stand for *)

Bar == [i \in 1 .. Cardinality(Linked) |-> Blinker(blink_array[Nth[i - 1]])]

Row(cells, m, q) == [i \in 1 .. m |-> Blinker(cells[q[i]])]

BlinkerType ==
  [location : Places, on_char : Chars, off_char : Chars, on_length : Lengths,
   off_length : Lengths, countdown : Lengths, status : {0, 1}]

LEMMA RowTyped ==
  ASSUME NEW cells \in [Cells -> CellType], NEW m \in Nat, NEW q \in [1 .. m -> Cells]
  PROVE  /\ Row(cells, m, q) \in Seq(BlinkerType)
         /\ Len(Row(cells, m, q)) = m
         /\ DOMAIN Row(cells, m, q) = 1 .. m
         /\ \A i \in 1 .. m : Row(cells, m, q)[i] = Blinker(cells[q[i]])
<1>1. \A b \in CellType : Blinker(b) \in BlinkerType
  BY DEF CellType, BlinkerType, Blinker
<1>2. \A i \in 1 .. m : cells[q[i]] \in CellType
  OBVIOUS
<1>3. Row(cells, m, q) \in [1 .. m -> BlinkerType]
  <2>1. \A i \in 1 .. m : Blinker(cells[q[i]]) \in BlinkerType
    BY <1>1, <1>2
  <2> QED
    BY <2>1, Zenon DEF Row
<1>4. Row(cells, m, q) \in Seq(BlinkerType) /\ Len(Row(cells, m, q)) = m
  BY <1>3
<1> QED
  BY <1>3, <1>4, Zenon DEF Row

\* The list of the refinement, read off the row.
LEMMA BarIs ==
  \A m, q : InRow(m, q) => Bar = Row(blink_array, m, q)
<1> SUFFICES ASSUME NEW m, NEW q, InRow(m, q)
             PROVE  Bar = Row(blink_array, m, q)
  OBVIOUS
<1>1. m \in 0 .. NumCells /\ NumCells \in Nat
  BY SizeAssumption DEF InRow, Chain
<1>2. Linked = 0 .. m - 1
  BY RowIs
<1>3. Cardinality(0 .. m - 1) = m
  BY <1>1, FS_Interval
<1>4. \A i \in 1 .. m : i - 1 \in 0 .. NumCells /\ i - 1 < m /\ (i - 1) + 1 = i
  BY <1>1
<1>5. \A i \in 1 .. m : Nth[i - 1] = q[i]
  BY <1>4, NthIs
<1> QED
  BY <1>2, <1>3, <1>5, Zenon DEF Bar, Row

LEMMA BarPrimed ==
  (\A m, q : InRow(m, q) => Bar = Row(blink_array, m, q))'
BY BarIs, PTL

\* A row as the list sees it.
LEMMA BarTyped ==
  ASSUME TypeOK, NEW m, NEW q, InRow(m, q)
  PROVE  /\ Bar = Row(blink_array, m, q)
         /\ Bar \in Seq(BlinkerType) /\ Len(Bar) = m /\ DOMAIN Bar = 1 .. m
         /\ \A i \in 1 .. m : Bar[i] = Blinker(blink_array[q[i]])
         /\ m \in Nat /\ q \in [1 .. m -> Cells]
         /\ \A i \in 1 .. m : blink_array[q[i]] \in CellType
<1>1. m \in Nat /\ q \in [1 .. m -> Cells] /\ blink_array \in [Cells -> CellType]
  BY SizeAssumption DEF InRow, Chain, TypeOK, CellType
<1>2. Bar = Row(blink_array, m, q)
  BY BarIs
<1> QED
  BY <1>1, <1>2, RowTyped

\* The newest blinker at a place is the first one of the row there.
LEMMA NewestIs ==
  ASSUME TypeOK, NEW m, NEW q, InRow(m, q), NEW l, NEW k \in 1 .. m,
         blink_array[q[k]].location = l,
         \A i \in 1 .. k - 1 : blink_array[q[i]].location # l
  PROVE  BL!At(l) # {} /\ BL!Newest(l) = k
<1>1. /\ DOMAIN Bar = 1 .. m /\ m \in Nat
      /\ \A i \in 1 .. m : Bar[i].location = blink_array[q[i]].location
  <2>1. \A x : Blinker(x).location = x.location
    BY DEF Blinker
  <2>2. /\ DOMAIN Bar = 1 .. m /\ m \in Nat
        /\ \A i \in 1 .. m : Bar[i] = Blinker(blink_array[q[i]])
    BY BarTyped
  <2> QED
    BY <2>1, <2>2, Zenon
<1>2. BL!At(l) = {i \in DOMAIN Bar : Bar[i].location = l}
  BY Zenon DEF BL!At, Bar
<1> HIDE DEF Bar
<1>3. k \in BL!At(l) /\ \A j \in BL!At(l) : j \in 1 .. m /\ k <= j
  BY <1>1, <1>2
<1>4. \A i \in BL!At(l) : (\A j \in BL!At(l) : i <= j) => i = k
  BY <1>1, <1>3
<1>5. BL!Newest(l) = CHOOSE i \in BL!At(l) : \A j \in BL!At(l) : i <= j
  BY Zenon DEF BL!Newest, BL!At
<1> QED
  BY <1>3, <1>4, <1>5, Zenon

LEMMA StartMaps == Init => BL!Init
<1> SUFFICES ASSUME Init PROVE BL!Init
  OBVIOUS
<1>1. BlinkInv
  BY StartInv
<1>2. InRow(0, [i \in 1 .. 0 |-> 1])
  <2>1. NumCells \in Nat /\ NULL \notin Cells
    BY SizeAssumption DEF NULL, Cells
  <2> QED
    BY <2>1 DEF Init, InRow, Chain, Zero
<1>3. Bar \in Seq(BlinkerType) /\ Len(Bar) = 0
  BY <1>1, <1>2, BarTyped DEF BlinkInv
<1>4. Bar = <<>>
  BY <1>3, EmptySeq
<1> QED
  BY <1>4, Zenon DEF Init, BL!Init, Bar

LEMMA AddMaps ==
  ASSUME BlinkInv, BlinkInv', NEW s \in Structs, Add(s)
  PROVE  BL!Add(s)
<1>1. TypeOK /\ TypeOK'
  BY DEF BlinkInv
<1>2. PICK m, q : InRow(m, q)
  BY DEF BlinkInv
<1>3. PICK c \in Cells :
        /\ \A i \in 1 .. m : q[i] # c
        /\ blink_array' = [blink_array EXCEPT ![c] = NewCell(s, mp1_list_head)]
        /\ m < NumCells
        /\ InRow(m + 1, Front(c, m, q))'
  BY <1>2, AddIs
<1>4. PICK new, old, h, a, b : new = blink_array' /\ old = blink_array /\ h = mp1_list_head
                               /\ a = Bar /\ b = Bar'
  OBVIOUS
<1> DEFINE r == Front(c, m, q)
           x == [location |-> s.location,
                 on_char |-> s.on_char, off_char |-> s.off_char,
                 on_length |-> s.on_length, off_length |-> s.off_length,
                 countdown |-> s.on_length, status |-> 1]
<1>5. /\ a \in Seq(BlinkerType) /\ Len(a) = m
      /\ \A i \in 1 .. m : a[i] = Blinker(old[q[i]])
      /\ m \in Nat /\ q \in [1 .. m -> Cells]
  BY <1>1, <1>2, <1>4, BarTyped
<1>6. b = Row(new, m + 1, r)
  BY <1>3, <1>4, BarPrimed, Zenon
<1>7. new \in [Cells -> CellType] /\ old \in [Cells -> CellType]
  BY <1>1, <1>4 DEF TypeOK, CellType
<1>8. r \in [1 .. m + 1 -> Cells] /\ r[1] = c /\ \A i \in 1 .. m + 1 : i # 1 => r[i] = q[i - 1]
  BY <1>5 DEF Front
<1>9. /\ b \in Seq(BlinkerType) /\ Len(b) = m + 1
      /\ \A i \in 1 .. m + 1 : b[i] = Blinker(new[r[i]])
  <2> HIDE DEF r
  <2>1. m + 1 \in Nat
    BY <1>5
  <2> QED
    BY <1>6, <1>7, <1>8, <2>1, RowTyped
<1>10. b[1] = x
  <2>1. new[c] = NewCell(s, h)
    BY <1>3, <1>4, <1>7
  <2>2. b[1] = Blinker(new[c])
    BY <1>5, <1>8, <1>9
  <2> QED
    BY <2>1, <2>2 DEF NewCell, Blinker
<1>11. \A i \in 1 .. m + 1 : i # 1 => b[i] = a[i - 1]
  <2> SUFFICES ASSUME NEW i \in 1 .. m + 1, i # 1 PROVE b[i] = a[i - 1]
    OBVIOUS
  <2>1. i - 1 \in 1 .. m /\ q[i - 1] \in Cells /\ q[i - 1] # c
    BY <1>3, <1>5
  <2>2. new[q[i - 1]] = old[q[i - 1]]
    BY <1>3, <1>4, <1>7, <2>1
  <2> HIDE DEF r
  <2> QED
    BY <1>5, <1>8, <1>9, <2>1, <2>2
<1>12. b = <<x>> \o a
  <2>1. x \in BlinkerType
    <3>1. b[1] \in BlinkerType
      BY <1>5, <1>9
    <3> QED
      BY <1>10, <3>1
  <2> HIDE DEF x
  <2>2. <<x>> \in Seq(BlinkerType) /\ Len(<<x>>) = 1 /\ <<x>>[1] = x
    BY <2>1
  <2>3. /\ <<x>> \o a \in Seq(BlinkerType)
        /\ Len(<<x>> \o a) = 1 + m
        /\ \A i \in 1 .. 1 + m : (<<x>> \o a)[i] = IF i <= 1 THEN <<x>>[i] ELSE a[i - 1]
    BY <1>5, <2>2, ConcatProperties
  <2>4. \A i \in 1 .. m + 1 : b[i] = (<<x>> \o a)[i]
    BY <1>5, <1>10, <1>11, <2>2, <2>3
  <2>5. Len(b) = Len(<<x>> \o a) /\ \A i \in 1 .. Len(b) : b[i] = (<<x>> \o a)[i]
    BY <1>5, <1>9, <2>3, <2>4
  <2> QED
    BY <1>9, <2>3, <2>5, SeqEqual
<1>13. Len(a) < NumCells
  BY <1>3, <1>5
<1>14. s.location \in Places /\ screen' = [screen EXCEPT ![s.location] = s.on_char]
  BY DEF Add
<1>15. Len(Bar) < NumCells /\ Bar' = <<x>> \o Bar
  BY <1>4, <1>12, <1>13, Zenon
<1> QED
  BY <1>14, <1>15, Zenon DEF BL!Add, Bar

LEMMA RemoveMaps ==
  ASSUME BlinkInv, BlinkInv', NEW l, Remove(l)
  PROVE  BL!Remove(l)
<1>1. TypeOK /\ TypeOK'
  BY DEF BlinkInv
<1>2. PICK m, q : InRow(m, q)
  BY DEF BlinkInv
<1>3. PICK k \in 1 .. m :
        /\ blink_array[q[k]].location = l
        /\ \A j \in 1 .. k - 1 : blink_array[q[j]].location # l
        /\ \A d \in Cells :
             blink_array'[d] =
               IF d = q[k] THEN Zero
               ELSE [blink_array[d] EXCEPT
                       !.next = IF @ = q[k] THEN blink_array[q[k]].next ELSE @]
        /\ InRow(m - 1, Without(k, m, q))'
  BY <1>2, RemoveIs, SMTT(30)
<1>4. PICK new, old, a, b : new = blink_array' /\ old = blink_array /\ a = Bar /\ b = Bar'
  OBVIOUS
<1> DEFINE r == Without(k, m, q)
<1>5. /\ a \in Seq(BlinkerType) /\ Len(a) = m
      /\ \A i \in 1 .. m : a[i] = Blinker(old[q[i]]) /\ a[i] \in BlinkerType
      /\ m \in Nat /\ q \in [1 .. m -> Cells]
  BY <1>1, <1>2, <1>4, BarTyped
<1>6. b = Row(new, m - 1, r)
  BY <1>3, <1>4, BarPrimed, Zenon
<1>7. new \in [Cells -> CellType] /\ old \in [Cells -> CellType]
  BY <1>1, <1>4 DEF TypeOK, CellType
<1>8. /\ r \in [1 .. m - 1 -> Cells]
      /\ \A i \in 1 .. m - 1 : r[i] = IF i < k THEN q[i] ELSE q[i + 1]
  BY <1>5 DEF Without
<1>9. /\ b \in Seq(BlinkerType) /\ Len(b) = m - 1
      /\ \A i \in 1 .. m - 1 : b[i] = Blinker(new[r[i]])
  <2> HIDE DEF r
  <2>1. m - 1 \in Nat
    BY <1>5
  <2> QED
    BY <1>6, <1>7, <1>8, <2>1, RowTyped
<1>10. \A d \in Cells : d # q[k] => Blinker(new[d]) = Blinker(old[d])
  <2> SUFFICES ASSUME NEW d \in Cells, d # q[k] PROVE Blinker(new[d]) = Blinker(old[d])
    OBVIOUS
  <2>1. PICK link : new[d] = [old[d] EXCEPT !.next = link]
    BY <1>3, <1>4
  <2>2. old[d] \in CellType
    BY <1>7
  <2> QED
    BY <2>1, <2>2 DEF Blinker, CellType
<1>11. \A i \in 1 .. m - 1 : b[i] = IF i < k THEN a[i] ELSE a[i + 1]
  <2> SUFFICES ASSUME NEW i \in 1 .. m - 1
               PROVE  b[i] = IF i < k THEN a[i] ELSE a[i + 1]
    OBVIOUS
  <2>1. PICK j : j = IF i < k THEN i ELSE i + 1
    OBVIOUS
  <2>2. j \in 1 .. m /\ j # k /\ r[i] = q[j]
    BY <1>5, <1>8, <2>1
  <2>3. \A x, y \in 1 .. m : q[x] = q[y] => x = y
    BY <1>2 DEF InRow, Chain
  <2>4. q[j] \in Cells /\ q[j] # q[k]
    BY <1>5, <2>2, <2>3
  <2>5. b[i] = a[j]
    BY <1>5, <1>9, <1>10, <2>2, <2>4
  <2> QED
    BY <2>1, <2>5
<1>12. b = SubSeq(a, 1, k - 1) \o SubSeq(a, k + 1, Len(a))
  <2> DEFINE head == SubSeq(a, 1, k - 1)
             tail == SubSeq(a, k + 1, m)
  <2>1. /\ head \in Seq(BlinkerType) /\ Len(head) = k - 1
        /\ \A i \in 1 .. k - 1 : head[i] = a[i]
    <3>1. k - 1 \in Int /\ 1 \in Int /\ \A i \in 1 .. k - 1 : a[i] \in BlinkerType
      BY <1>5
    <3>2. /\ head \in Seq(BlinkerType)
          /\ Len(head) = IF 1 <= k - 1 THEN (k - 1) - 1 + 1 ELSE 0
          /\ \A i \in 1 .. (k - 1) - 1 + 1 : head[i] = a[1 + i - 1]
      <4> HIDE DEF head
      <4> QED
        BY <3>1, SubSeqProperties DEF head
    <3> HIDE DEF head
    <3>3. \A i \in 1 .. k - 1 : i \in 1 .. (k - 1) - 1 + 1 /\ 1 + i - 1 = i
      BY <1>5
    <3> QED
      BY <3>2, <3>3, <1>5
  <2>2. /\ tail \in Seq(BlinkerType) /\ Len(tail) = m - k
        /\ \A i \in 1 .. m - k : tail[i] = a[k + i]
    <3>1. k + 1 \in Int /\ m \in Int /\ \A i \in k + 1 .. m : a[i] \in BlinkerType
      BY <1>5
    <3>2. /\ tail \in Seq(BlinkerType)
          /\ Len(tail) = IF k + 1 <= m THEN m - (k + 1) + 1 ELSE 0
          /\ \A i \in 1 .. m - (k + 1) + 1 : tail[i] = a[(k + 1) + i - 1]
      <4> HIDE DEF tail
      <4> QED
        BY <3>1, SubSeqProperties DEF tail
    <3> HIDE DEF tail
    <3>3. \A i \in 1 .. m - k : i \in 1 .. m - (k + 1) + 1 /\ (k + 1) + i - 1 = k + i
      BY <1>5
    <3> QED
      BY <3>2, <3>3, <1>5
  <2> HIDE DEF head, tail
  <2>3. /\ head \o tail \in Seq(BlinkerType)
        /\ Len(head \o tail) = (k - 1) + (m - k)
        /\ \A i \in 1 .. (k - 1) + (m - k) :
             (head \o tail)[i] = IF i <= k - 1 THEN head[i] ELSE tail[i - (k - 1)]
    <3>1. /\ head \o tail \in Seq(BlinkerType)
          /\ Len(head \o tail) = Len(head) + Len(tail)
          /\ \A i \in 1 .. Len(head) + Len(tail) :
               (head \o tail)[i] = IF i <= Len(head) THEN head[i] ELSE tail[i - Len(head)]
      BY <2>1, <2>2, ConcatProperties
    <3>2. Len(head) = k - 1 /\ Len(tail) = m - k
      BY <2>1, <2>2
    <3> QED
      BY <3>1, <3>2
  <2>4. ASSUME NEW i \in 1 .. m - 1 PROVE b[i] = (head \o tail)[i]
    <3>1. i \in 1 .. (k - 1) + (m - k)
      BY <1>5
    <3>2. CASE i < k
      <4>1. i <= k - 1 /\ i \in 1 .. k - 1
        BY <1>5, <3>2
      <4> QED
        BY <1>11, <2>1, <2>3, <3>1, <3>2, <4>1
    <3>3. CASE ~(i < k)
      <4>1. ~(i <= k - 1) /\ i - (k - 1) \in 1 .. m - k /\ k + (i - (k - 1)) = i + 1
        BY <1>5, <3>3
      <4> QED
        BY <1>11, <2>2, <2>3, <3>1, <3>3, <4>1
    <3> QED
      BY <3>2, <3>3
  <2>5. Len(b) = Len(head \o tail) /\ \A i \in 1 .. Len(b) : b[i] = (head \o tail)[i]
    BY <1>5, <1>9, <2>3, <2>4
  <2>6. b = head \o tail
    BY <1>9, <2>3, <2>5, SeqEqual
  <2> QED
    BY <1>5, <2>6 DEF head, tail
<1>13. BL!At(l) # {} /\ BL!Newest(l) = k
  BY <1>1, <1>2, <1>3, NewestIs
<1>14. Bar' = SubSeq(Bar, 1, BL!Newest(l) - 1) \o SubSeq(Bar, BL!Newest(l) + 1, Len(Bar))
  BY <1>4, <1>12, <1>13, Zenon
<1>15. screen' = screen
  BY DEF Remove
<1> QED
  BY <1>13, <1>14, <1>15, Zenon DEF BL!Remove, BL!Newest, BL!At, Bar

\* Every step that keeps the row changes the list cell by cell.
LEMMA BarSteps ==
  ASSUME TypeOK, TypeOK', NEW m, NEW q, InRow(m, q), InRow(m, q)'
  PROVE  /\ DOMAIN Bar = 1 .. m /\ m \in Nat /\ q \in [1 .. m -> Cells]
         /\ DOMAIN Bar' = 1 .. m
         /\ Bar' = [i \in 1 .. m |-> Bar'[i]]
         /\ \A i \in 1 .. m : Bar[i] = Blinker(blink_array[q[i]])
         /\ \A i \in 1 .. m : Bar'[i] = Blinker(blink_array'[q[i]])
<1>1. /\ DOMAIN Bar = 1 .. m /\ m \in Nat /\ q \in [1 .. m -> Cells]
      /\ \A i \in 1 .. m : Bar[i] = Blinker(blink_array[q[i]])
  BY BarTyped
<1>2. PICK new, b : new = blink_array' /\ b = Bar'
  OBVIOUS
<1>3. b = Row(new, m, q)
  BY <1>2, BarPrimed, Zenon
<1>4. new \in [Cells -> CellType]
  BY <1>2 DEF TypeOK, CellType
<1>5. /\ DOMAIN b = 1 .. m /\ b = [i \in 1 .. m |-> b[i]]
      /\ \A i \in 1 .. m : b[i] = Blinker(new[q[i]])
  <2>1. DOMAIN b = 1 .. m /\ b \in Seq(BlinkerType) /\ \A i \in 1 .. m : b[i] = Blinker(new[q[i]])
    BY <1>1, <1>3, <1>4, RowTyped
  <2>2. b = [i \in 1 .. m |-> b[i]]
    BY <2>1
  <2> QED
    BY <2>1, <2>2
<1> QED
  BY <1>1, <1>2, <1>5, Zenon

\* The rhythm that a cell takes is the one its blinker takes.
LEMMA TakesBlinker ==
  ASSUME NEW x \in CellType, NEW y
  PROVE  Blinker(Takes(x, y)) =
           [Blinker(x) EXCEPT !.on_length = Blinker(y).on_length,
                              !.off_length = Blinker(y).off_length,
                              !.countdown = Blinker(y).countdown,
                              !.status = Blinker(y).status]
<1> DEFINE both == [location |-> x.location, on_char |-> x.on_char, off_char |-> x.off_char,
                    on_length |-> y.on_length, off_length |-> y.off_length,
                    countdown |-> y.countdown, status |-> y.status]
<1>1. PICK t : t = Takes(x, y)
  OBVIOUS
<1>2. /\ t.location = x.location /\ t.on_char = x.on_char /\ t.off_char = x.off_char
      /\ t.on_length = y.on_length /\ t.off_length = y.off_length
      /\ t.countdown = y.countdown /\ t.status = y.status
  BY <1>1 DEF Takes, CellType
<1>3. Blinker(t) = both
  BY <1>2 DEF Blinker
<1>4. both = [Blinker(x) EXCEPT !.on_length = Blinker(y).on_length,
                                !.off_length = Blinker(y).off_length,
                                !.countdown = Blinker(y).countdown,
                                !.status = Blinker(y).status]
  <2>1. PICK u, v : u = Blinker(x) /\ v = Blinker(y)
    OBVIOUS
  <2> DEFINE e == [u EXCEPT !.on_length = v.on_length, !.off_length = v.off_length,
                            !.countdown = v.countdown, !.status = v.status]
  <2>2. e \in [location : {x.location}, on_char : {x.on_char}, off_char : {x.off_char},
               on_length : {y.on_length}, off_length : {y.off_length},
               countdown : {y.countdown}, status : {y.status}]
    BY <2>1 DEF Blinker
  <2> HIDE DEF e
  <2>3. both = e
    BY <2>2
  <2> QED
    BY <2>1, <2>3, Zenon DEF e
<1> QED
  BY <1>1, <1>3, <1>4

LEMMA SyncMaps ==
  ASSUME BlinkInv, BlinkInv', NEW l, NEW p \in Places, Sync(l, p)
  PROVE  BL!Sync(l, p)
<1>1. TypeOK /\ TypeOK'
  BY DEF BlinkInv
<1>2. PICK m, q : InRow(m, q)
  BY DEF BlinkInv
<1>3. PICK k \in 1 .. m, j \in 1 .. m :
        /\ blink_array[q[k]].location = l
        /\ \A i \in 1 .. k - 1 : blink_array[q[i]].location # l
        /\ blink_array[q[j]].location = p
        /\ \A i \in 1 .. j - 1 : blink_array[q[i]].location # p
        /\ blink_array' = [blink_array EXCEPT ![q[j]] =
                             Takes(blink_array[q[j]], blink_array[q[k]])]
        /\ screen' = [screen EXCEPT ![p] = blink_array[q[j]].off_char]
        /\ InRow(m, q)'
  BY <1>2, SyncIs
<1>4. /\ DOMAIN Bar = 1 .. m /\ m \in Nat /\ q \in [1 .. m -> Cells]
      /\ DOMAIN Bar' = 1 .. m
      /\ Bar' = [i \in 1 .. m |-> Bar'[i]]
      /\ \A i \in 1 .. m : Bar[i] = Blinker(blink_array[q[i]])
      /\ \A i \in 1 .. m : Bar'[i] = Blinker(blink_array'[q[i]])
  BY <1>1, <1>2, <1>3, BarSteps
<1>5. PICK new, old, a, b : new = blink_array' /\ old = blink_array /\ a = Bar /\ b = Bar'
  OBVIOUS
<1>6. old \in [Cells -> CellType]
  BY <1>1, <1>5 DEF TypeOK, CellType
<1>7. \A x, y \in 1 .. m : q[x] = q[y] => x = y
  BY <1>2 DEF InRow, Chain
<1> DEFINE t == [a[j] EXCEPT !.on_length = a[k].on_length, !.off_length = a[k].off_length,
                             !.countdown = a[k].countdown, !.status = a[k].status]
<1>8. Blinker(Takes(old[q[j]], old[q[k]])) = t
  <2>1. old[q[j]] \in CellType /\ a[j] = Blinker(old[q[j]]) /\ a[k] = Blinker(old[q[k]])
    BY <1>4, <1>5, <1>6
  <2>2. Blinker(Takes(old[q[j]], old[q[k]])) =
          [Blinker(old[q[j]]) EXCEPT !.on_length = Blinker(old[q[k]]).on_length,
                                     !.off_length = Blinker(old[q[k]]).off_length,
                                     !.countdown = Blinker(old[q[k]]).countdown,
                                     !.status = Blinker(old[q[k]]).status]
    BY <2>1, TakesBlinker, Zenon
  <2> QED
    BY <2>1, <2>2, Zenon
<1>9. \A i \in 1 .. m : b[i] = IF i = j THEN t ELSE a[i]
  <2> SUFFICES ASSUME NEW i \in 1 .. m PROVE b[i] = IF i = j THEN t ELSE a[i]
    OBVIOUS
  <2>1. b[i] = Blinker(new[q[i]]) /\ a[i] = Blinker(old[q[i]])
    BY <1>4, <1>5
  <2>2. new[q[i]] = IF i = j THEN Takes(old[q[j]], old[q[k]]) ELSE old[q[i]]
    BY <1>3, <1>4, <1>5, <1>6, <1>7
  <2> HIDE DEF t
  <2> QED
    BY <1>8, <2>1, <2>2
<1>10. b = [a EXCEPT ![j] = t]
  <2>1. DOMAIN a = 1 .. m /\ b = [i \in 1 .. m |-> b[i]]
    BY <1>4, <1>5
  <2> HIDE DEF t
  <2>2. [a EXCEPT ![j] = t] = [i \in 1 .. m |-> IF i = j THEN t ELSE a[i]]
    BY <2>1
  <2> QED
    BY <1>9, <2>1, <2>2
<1>11. BL!At(l) # {} /\ BL!Newest(l) = k
  BY <1>1, <1>2, <1>3, NewestIs
<1>12. BL!At(p) # {} /\ BL!Newest(p) = j
  BY <1>1, <1>2, <1>3, NewestIs
<1>13. Bar' = [Bar EXCEPT ![BL!Newest(p)] =
                 [@ EXCEPT !.on_length = Bar[BL!Newest(l)].on_length,
                           !.off_length = Bar[BL!Newest(l)].off_length,
                           !.countdown = Bar[BL!Newest(l)].countdown,
                           !.status = Bar[BL!Newest(l)].status]]
  BY <1>5, <1>10, <1>11, <1>12, Zenon
<1>14. screen' = [screen EXCEPT ![p] = Bar[BL!Newest(p)].off_char]
  <2>1. Bar[j].off_char = blink_array[q[j]].off_char
    BY <1>4 DEF Blinker
  <2> QED
    BY <1>3, <1>12, <2>1, Zenon
<1> QED
  BY <1>11, <1>12, <1>13, <1>14, Zenon DEF BL!Sync, BL!Newest, BL!At, Bar

\* A tick of a cell is a tick of its blinker.
LEMMA BlinkedBlinker ==
  ASSUME NEW x \in CellType
  PROVE  /\ BL!Due(Blinker(x)) <=> Expired(x.countdown - 1)
         /\ BL!Char(Blinker(x)) = Char(x)
         /\ Blinker(Blinked(x)) =
              IF BL!Due(Blinker(x))
                THEN [Blinker(x) EXCEPT
                        !.countdown = IF Blinker(x).status = 1 THEN Blinker(x).off_length
                                                               ELSE Blinker(x).on_length,
                        !.status = 1 - @]
                ELSE [Blinker(x) EXCEPT !.countdown = @ - 1]
<1>0. MaxLength \in Nat
  BY DEF MaxLength
<1>1. x.countdown \in Int
  BY <1>0 DEF CellType, Lengths
<1>2. BL!Due(Blinker(x)) <=> Expired(x.countdown - 1)
  BY <1>1 DEF BL!Due, Expired, Blinker
<1>3. BL!Char(Blinker(x)) = Char(x)
  BY DEF BL!Char, Char, Blinker
<1> DEFINE after(countdown, status) ==
             [location |-> x.location, on_char |-> x.on_char, off_char |-> x.off_char,
              on_length |-> x.on_length, off_length |-> x.off_length,
              countdown |-> countdown, status |-> status]
<1>4. CASE Expired(x.countdown - 1)
  <2> DEFINE next == IF x.status = 1 THEN x.off_length ELSE x.on_length
  <2>1. Blinked(x) = [x EXCEPT !.countdown = next, !.status = 1 - @]
    BY <1>4 DEF Blinked
  <2>2. PICK t : t = Blinked(x)
    OBVIOUS
  <2>3. /\ t.location = x.location /\ t.on_char = x.on_char /\ t.off_char = x.off_char
        /\ t.on_length = x.on_length /\ t.off_length = x.off_length
        /\ t.countdown = next /\ t.status = 1 - x.status
    BY <2>1, <2>2 DEF CellType
  <2>4. Blinker(t) = after(next, 1 - x.status)
    BY <2>3 DEF Blinker
  <2>5. after(next, 1 - x.status) =
          [Blinker(x) EXCEPT !.countdown = IF Blinker(x).status = 1
                                             THEN Blinker(x).off_length
                                             ELSE Blinker(x).on_length,
                             !.status = 1 - @]
    <3>1. PICK u : u = Blinker(x)
      OBVIOUS
    <3> DEFINE e == [u EXCEPT !.countdown = IF u.status = 1 THEN u.off_length ELSE u.on_length,
                              !.status = 1 - @]
    <3>2. e \in [location : {x.location}, on_char : {x.on_char}, off_char : {x.off_char},
                 on_length : {x.on_length}, off_length : {x.off_length},
                 countdown : {next}, status : {1 - x.status}]
      BY <3>1 DEF Blinker
    <3> HIDE DEF e, next
    <3>3. after(next, 1 - x.status) = e
      BY <3>2
    <3> HIDE DEF after
    <3> QED
      BY <3>1, <3>3, Zenon DEF e
  <2> QED
    BY <1>2, <1>3, <1>4, <2>2, <2>4, <2>5
<1>5. CASE ~Expired(x.countdown - 1)
  <2>1. Blinked(x) = [x EXCEPT !.countdown = @ - 1]
    BY <1>5 DEF Blinked
  <2>2. PICK t : t = Blinked(x)
    OBVIOUS
  <2>3. /\ t.location = x.location /\ t.on_char = x.on_char /\ t.off_char = x.off_char
        /\ t.on_length = x.on_length /\ t.off_length = x.off_length
        /\ t.countdown = x.countdown - 1 /\ t.status = x.status
    BY <2>1, <2>2 DEF CellType
  <2>4. Blinker(t) = after(x.countdown - 1, x.status)
    BY <2>3 DEF Blinker
  <2>5. after(x.countdown - 1, x.status) = [Blinker(x) EXCEPT !.countdown = @ - 1]
    BY DEF Blinker
  <2> QED
    BY <1>2, <1>3, <1>5, <2>2, <2>4, <2>5
<1> QED
  BY <1>4, <1>5

\* What a tick writes at a place that shows old, in the cells and in the list.
CellsWrite(p, old) ==
  LET writers == {n \in Links(p) : Due(Nth[n])} IN
  IF writers = {} THEN old
  ELSE Char(blink_array[Nth[CHOOSE n \in writers : \A k \in writers : k <= n]])

ListWrites(p, old) ==
  LET writers == {i \in BL!At(p) : BL!Due(Bar[i])} IN
  IF writers = {} THEN old
  ELSE BL!Char(Bar[CHOOSE i \in writers : \A j \in writers : i >= j])

\* The last blinker to write a place is the same one in both.
LEMMA ShownAlike ==
  ASSUME TypeOK, NEW m, NEW q, InRow(m, q), NEW p, NEW old
  PROVE  CellsWrite(p, old) = ListWrites(p, old)
<1> DEFINE concrete == {n \in Links(p) : Due(Nth[n])}
           abstract == {i \in BL!At(p) : BL!Due(Bar[i])}
           last == CHOOSE n \in concrete : \A k \in concrete : k <= n
           oldest == CHOOSE i \in abstract : \A k \in abstract : i >= k
<1> SUFFICES (IF concrete = {} THEN old ELSE Char(blink_array[Nth[last]]))
             = (IF abstract = {} THEN old ELSE BL!Char(Bar[oldest]))
  BY Zenon DEF CellsWrite, ListWrites
<1>1. /\ DOMAIN Bar = 1 .. m /\ m \in Nat /\ q \in [1 .. m -> Cells]
      /\ \A i \in 1 .. m : Bar[i] = Blinker(blink_array[q[i]])
      /\ \A i \in 1 .. m : blink_array[q[i]] \in CellType
  BY BarTyped
<1>2. BL!At(p) = {i \in DOMAIN Bar : Bar[i].location = p}
  BY Zenon DEF BL!At, Bar
<1>3. Links(p) = {n \in 0 .. m - 1 : blink_array[q[n+1]].location = p}
  BY RowIs
<1>4. \A n \in 0 .. m - 1 : n \in 0 .. NumCells /\ Nth[n] = q[n + 1]
  <2>1. m \in 0 .. NumCells /\ NumCells \in Nat
    BY SizeAssumption DEF InRow, Chain
  <2> QED
    BY <2>1, NthIs
<1>5. \A i \in 1 .. m : /\ BL!Due(Bar[i]) <=> Due(q[i])
                        /\ BL!Char(Bar[i]) = Char(blink_array[q[i]])
                        /\ Bar[i].location = blink_array[q[i]].location
  <2>1. \A x : Blinker(x).location = x.location
    BY DEF Blinker
  <2> QED
    BY <1>1, <2>1, BlinkedBlinker, Zenon DEF Due
<1> HIDE DEF Bar
<1>6. \A n : n \in concrete <=> n \in 0 .. m - 1 /\ blink_array[q[n+1]].location = p /\ Due(q[n+1])
  BY <1>3, <1>4, Zenon
<1>7. \A i : i \in abstract <=> i \in 1 .. m /\ blink_array[q[i]].location = p /\ Due(q[i])
  BY <1>1, <1>2, <1>5, Zenon
<1> HIDE DEF concrete, abstract
<1>8. \A n \in concrete : n + 1 \in abstract /\ n \in Nat
  BY <1>1, <1>6, <1>7
<1>9. \A i \in abstract : i - 1 \in concrete /\ i \in Nat
  <2> SUFFICES ASSUME NEW i \in abstract PROVE i - 1 \in concrete /\ i \in Nat
    OBVIOUS
  <2>1. i \in 1 .. m /\ i - 1 \in 0 .. m - 1 /\ (i - 1) + 1 = i
    BY <1>1, <1>7
  <2> QED
    BY <1>6, <1>7, <2>1
<1>10. CASE concrete = {}
  <2>1. abstract = {}
    BY <1>9, <1>10
  <2> QED
    BY <1>10, <2>1, Zenon
<1>11. CASE concrete # {}
  <2>1. abstract # {}
    BY <1>8, <1>11
  <2>2. concrete \subseteq 0 .. m
    BY <1>1, <1>6
  <2>3. \E n \in concrete : \A k \in concrete : k <= n
    BY <1>1, <1>11, <2>2, GreatestNumber
  <2>4. last \in concrete /\ \A k \in concrete : k <= last
    BY <2>3, Zenon
  <2>5. PICK n : n = last
    OBVIOUS
  <2>6. n \in concrete /\ n \in Nat /\ \A k \in concrete : k \in Nat /\ k <= n
    BY <1>8, <2>4, <2>5
  <2>7. n + 1 \in abstract
    BY <1>8, <2>6
  <2>8. \A k \in abstract : n + 1 >= k
    <3> SUFFICES ASSUME NEW k \in abstract PROVE n + 1 >= k
      OBVIOUS
    <3>1. k - 1 \in concrete /\ k \in Nat
      BY <1>9
    <3>2. k - 1 <= n
      BY <2>6, <3>1
    <3> QED
      BY <2>6, <3>1, <3>2
  <2>9. \A i \in abstract : (\A k \in abstract : i >= k) => i = n + 1
    <3> SUFFICES ASSUME NEW i \in abstract, \A k \in abstract : i >= k PROVE i = n + 1
      OBVIOUS
    <3>1. i >= n + 1 /\ n + 1 >= i /\ i \in Nat
      BY <1>9, <2>7, <2>8
    <3> QED
      BY <2>6, <3>1
  <2>10. oldest = n + 1
    BY <2>7, <2>8, <2>9, Zenon
  <2>11. n + 1 \in 1 .. m /\ n \in 0 .. m - 1
    BY <1>6, <1>7, <2>6, <2>7
  <2>12. Char(blink_array[Nth[last]]) = BL!Char(Bar[oldest])
    <3>1. Nth[last] = q[n + 1]
      BY <1>4, <2>5, <2>11, Zenon
    <3> HIDE DEF last, oldest
    <3> QED
      BY <1>5, <2>10, <2>11, <3>1
  <2> HIDE DEF last, oldest
  <2> QED
    BY <1>11, <2>1, <2>12
<1> QED
  BY <1>10, <1>11

LEMMA TickMaps ==
  ASSUME BlinkInv, BlinkInv', RtcTasklet
  PROVE  BL!Tick
<1>1. TypeOK /\ TypeOK'
  BY DEF BlinkInv
<1>2. PICK m, q : InRow(m, q)
  BY DEF BlinkInv
<1>3. /\ \A d \in Cells :
           blink_array'[d] = IF d \in Taken THEN Blinked(blink_array[d]) ELSE blink_array[d]
      /\ InRow(m, q)'
  BY <1>2, TickIs
<1>4. /\ DOMAIN Bar = 1 .. m /\ m \in Nat /\ q \in [1 .. m -> Cells]
      /\ Bar' = [i \in 1 .. m |-> Bar'[i]]
      /\ \A i \in 1 .. m : Bar[i] = Blinker(blink_array[q[i]])
      /\ \A i \in 1 .. m : Bar'[i] = Blinker(blink_array'[q[i]])
  BY <1>1, <1>2, <1>3, BarSteps
<1>5. \A i \in 1 .. m : q[i] \in Taken /\ q[i] \in Cells
  BY <1>2, <1>4 DEF InRow, Chain, Taken
<1> DEFINE after(b) ==
      IF BL!Due(b)
        THEN [b EXCEPT !.countdown = IF b.status = 1 THEN b.off_length ELSE b.on_length,
                       !.status = 1 - @]
        ELSE [b EXCEPT !.countdown = @ - 1]
<1>6. \A x \in CellType : Blinker(Blinked(x)) = after(Blinker(x))
  BY BlinkedBlinker, Zenon
<1>7. \A i \in 1 .. m : Bar'[i] = after(Bar[i])
  <2> SUFFICES ASSUME NEW i \in 1 .. m PROVE Bar'[i] = after(Bar[i])
    OBVIOUS
  <2>1. blink_array[q[i]] \in CellType
    BY <1>1, <1>5 DEF TypeOK, CellType
  <2>2. blink_array'[q[i]] = Blinked(blink_array[q[i]])
    BY <1>3, <1>5
  <2>3. Blinker(blink_array'[q[i]]) = after(Blinker(blink_array[q[i]]))
    BY <1>6, <2>1, <2>2, Zenon
  <2> HIDE DEF after
  <2> QED
    BY <1>4, <2>3
<1>8. Bar' = [i \in DOMAIN Bar |-> after(Bar[i])]
  BY <1>4, <1>7, Zenon
<1>9. screen' = [p \in Places |->
                   LET writers == {i \in BL!At(p) : BL!Due(Bar[i])} IN
                   IF writers = {} THEN screen[p]
                   ELSE BL!Char(Bar[CHOOSE i \in writers : \A j \in writers : i >= j])]
  <2>1. \A p, old : CellsWrite(p, old) = ListWrites(p, old)
    BY <1>1, <1>2, ShownAlike
  <2>2. screen' = [p \in Places |-> CellsWrite(p, screen[p])]
    BY Zenon DEF RtcTasklet, CellsWrite
  <2>3. screen' = [p \in Places |-> ListWrites(p, screen[p])]
    BY <2>1, <2>2, Zenon
  <2> QED
    BY <2>3, Zenon DEF ListWrites
<1> QED
  BY <1>8, <1>9, Zenon DEF BL!Tick, BL!At, Bar

\* mp1_ioctl and the tasklet do to the cells what Blinkers does to its list:
\* every call is the one step of the list, whatever the order in which the
\* cells were taken and freed.
THEOREM CellsAreTheList == Spec => ImplementsBlinkers
<1>1. ASSUME BlinkInv, BlinkInv', [Next]_vars
      PROVE  [BL!Next]_(BL!vars)
  <2>1. ASSUME NEW s \in Structs, Add(s) PROVE BL!Next
    BY <1>1, <2>1, AddMaps DEF BL!Next
  <2>2. ASSUME NEW l \in Places, Remove(l) PROVE BL!Next
    BY <1>1, <2>2, RemoveMaps DEF BL!Next
  <2>3. ASSUME NEW l \in Places, NEW p \in Places, Sync(l, p) PROVE BL!Next
    BY <1>1, <2>3, SyncMaps DEF BL!Next
  <2>4. CASE RtcTasklet
    BY <1>1, <2>4, TickMaps DEF BL!Next
  <2>5. CASE UNCHANGED vars
    <3>1. UNCHANGED Nth
      BY <2>5 DEF vars, Nth
    <3> QED
      BY <2>5, <3>1 DEF vars, BL!vars, Linked
  <2> QED
    BY <1>1, <2>1, <2>2, <2>3, <2>4, <2>5 DEF Next
<1>2. BlinkInv /\ BlinkInv' /\ [Next]_vars => [BL!Next]_(BL!vars)
  BY <1>1
<1> QED
  BY <1>2, StartMaps, InvHolds, PTL DEF Spec, ImplementsBlinkers, BL!Spec

=============================================================================
