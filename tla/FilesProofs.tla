---------------------------- MODULE FilesProofs ----------------------------
(***************************************************************************)
(* Proofs about FileCalls, for any number of terminals, programs and       *)
(* descriptors, and any file system: the types, wherever calls overlap;    *)
(* and, when programs take turns on a table, that the count of open        *)
(* descriptors is exact, so that open finds the free descriptor it counts  *)
(* on, that the reads of a descriptor return its file in order, and that   *)
(* one reader of the directory gets every entry once.  The first part, on  *)
(* the one-step calls of Files, serves ProgramsProofs too.                 *)
(***************************************************************************)
EXTENDS FileCalls, FiniteSetTheorems, WellFoundedInduction, SequenceTheorems, TLAPS

\* What open relies on: the types, and the count of every running process.
Counted == TypeOK /\ SizeCountsOpen

\* Sets of descriptors are finite.
LEMMA FdSets ==
  ASSUME NEW S, S \subseteq Fds
  PROVE  IsFiniteSet(S) /\ Cardinality(S) \in Nat
<1>1. IsFiniteSet(Fds)
  BY SizesAssumption, FS_Interval DEF Fds, STDI_O
<1>2. IsFiniteSet(S)
  BY <1>1, FS_Subset
<1> QED
  BY <1>2, FS_CardinalityType

\* The childmost processes of the two terminals are running ones.
LEMMA Lookups ==
  ASSUME TypeOK
  PROVE  /\ Displayed \in Processes /\ Live(Displayed)
         /\ Caller \in Processes /\ Live(Caller)
BY DEF TypeOK, Displayed, Caller, Processes, Live

\* An open file, a fresh descriptor.
LEMMA KindOfEntry ==
  ASSUME NEW k \in 1 .. NumEntries
  PROVE  LET e == KindOf(Entries[k]) IN
         /\ DOMAIN e = {"kind", "inode", "f_pos", "got"}
         /\ e.kind \in Kinds \ {"none"}
         /\ e.kind = "file" => e.inode \in Inodes
         /\ e.f_pos = 0
<1>1. Entries[k].type \in {0, 1, 2}
  BY ImageAssumption
<1> QED
  BY <1>1, ImageAssumption DEF KindOf, Fd, Kinds

\* read_data copies a number of bytes.
LEMMA BytesRead ==
  ASSUME NEW i \in Inodes, NEW offset \in Int, NEW n \in Nat
  PROVE  Len(ReadData(i, offset, n)) \in Nat
<1> DEFINE m == IF n < FileLength[i] THEN n ELSE FileLength[i]
           cell[k \in 1 .. m] == IF k = 1 THEN FirstCell(offset) ELSE NextCell(cell[k-1])
<1>1. m \in Nat
  BY SizesAssumption, ImageAssumption
<1>2. ReadData(i, offset, n) =
        IF offset > FileLength[i] THEN <<>>
        ELSE [k \in 1 .. m |-> <<DataBlocks[i][cell[k][1]], cell[k][2]>>]
  BY Zenon DEF ReadData
<1> HIDE DEF m, cell
<1> QED
  BY <1>1, <1>2

\* Initially only stdin and stdout are there.
LEMMA InitCounted == Init => Counted
<1> SUFFICES ASSUME Init PROVE Counted
  OBVIOUS
<1>1. TypeOK
  BY SizesAssumption, ImageAssumption
  DEF Init, TypeOK, Terminals, FreshTable, Absent, Fd, Kinds, STDI_O
<1>2. \A p \in Processes : Open(p) = {}
  BY DEF Init, Open, FreshTable, Absent, Fd
<1>3. SizeCountsOpen
  BY <1>2, FS_EmptySet DEF Init, SizeCountsOpen, STDI_O
<1> QED
  BY <1>1, <1>3 DEF Counted

\* open takes a free descriptor and counts it.
LEMMA OpenFileCounts ==
  ASSUME Counted, NEW k \in 1 .. NumEntries, OpenFile(k)
  PROVE  Counted'
<1> USE DEF Counted
<1>1. PICK fd \in Fds \ Open(Displayed) :
        file_array' = [file_array EXCEPT ![Displayed][fd] = KindOf(Entries[k])]
  BY DEF OpenFile
<1>2. /\ file_arr_size' = [file_arr_size EXCEPT ![Displayed] = @ + 1]
      /\ file_arr_size[Displayed] < MAX_OPEN_FILES
      /\ UNCHANGED <<curr_terminal, curr_scheduled, depth>>
  BY DEF OpenFile, schedVars
<1>3. dir_index' \in 0 .. NumEntries
  BY ImageAssumption DEF OpenFile, DirOpen, TypeOK
<1>4. TypeOK'
  <2>1. \A p \in Processes, d \in Fds :
          file_array'[p][d] = IF p = Displayed /\ d = fd THEN KindOf(Entries[k])
                                                      ELSE file_array[p][d]
    BY <1>1, Lookups DEF TypeOK
  <2>2. DOMAIN file_array' = Processes /\ \A p \in Processes : DOMAIN file_array'[p] = Fds
    BY <1>1, Lookups DEF TypeOK
  <2>3. file_arr_size' \in [Processes -> STDI_O .. MAX_OPEN_FILES]
    BY <1>2, Lookups, SizesAssumption DEF TypeOK, STDI_O
  <2>4. \A p \in Processes, d \in Fds :
          /\ DOMAIN file_array'[p][d] = {"kind", "inode", "f_pos", "got"}
          /\ file_array'[p][d].kind \in Kinds
          /\ file_array'[p][d].kind = "file" => file_array'[p][d].inode \in Inodes
          /\ file_array'[p][d].f_pos \in Nat
    BY <2>1, KindOfEntry DEF TypeOK
  <2> QED
    BY <1>2, <1>3, <2>2, <2>3, <2>4 DEF TypeOK
<1>5. SizeCountsOpen'
  <2> SUFFICES ASSUME NEW p \in Processes, Live(p)'
               PROVE  file_arr_size'[p] = STDI_O + Cardinality(Open(p)')
    BY DEF SizeCountsOpen
  <2>1. Live(p)
    BY <1>2 DEF Live
  <2>2. CASE p = Displayed
    <3>1. Open(p)' = Open(p) \cup {fd} /\ fd \notin Open(p)
      BY <1>1, <2>2, Lookups, KindOfEntry DEF Open, TypeOK
    <3>2. Cardinality(Open(p)') = Cardinality(Open(p)) + 1
      BY <3>1, FdSets, FS_AddElement DEF Open
    <3>3. Cardinality(Open(p)) \in Nat
      BY FdSets DEF Open
    <3>4. file_arr_size'[p] = file_arr_size[p] + 1
      BY <1>2, <2>2 DEF TypeOK
    <3> QED
      BY <2>1, <3>2, <3>3, <3>4 DEF SizeCountsOpen, STDI_O
  <2>3. CASE p # Displayed
    <3>1. Open(p)' = Open(p) /\ file_arr_size'[p] = file_arr_size[p]
      BY <1>1, <1>2, <2>3 DEF Open, TypeOK
    <3> QED
      BY <2>1, <3>1 DEF SizeCountsOpen
  <2> QED
    BY <2>2, <2>3
<1> QED
  BY <1>4, <1>5

\* close gives one back.
LEMMA CloseCounts ==
  ASSUME Counted, NEW fd \in Fds, Close(fd)
  PROVE  Counted'
<1> USE DEF Counted
<1>1. /\ fd \in Open(Displayed)
      /\ file_array' = [file_array EXCEPT ![Displayed][fd] = Absent]
      /\ file_arr_size' = [file_arr_size EXCEPT ![Displayed] = @ - 1]
      /\ UNCHANGED <<curr_terminal, curr_scheduled, depth, dir_index>>
  BY DEF Close, schedVars
<1>2. Cardinality(Open(Displayed) \ {fd}) = Cardinality(Open(Displayed)) - 1
      /\ Cardinality(Open(Displayed)) \in Nat /\ Cardinality(Open(Displayed) \ {fd}) \in Nat
  BY <1>1, FdSets, FS_RemoveElement DEF Open
<1>3. file_arr_size[Displayed] = STDI_O + Cardinality(Open(Displayed))
  BY Lookups DEF SizeCountsOpen
<1>4. TypeOK'
  <2>1. \A p \in Processes, d \in Fds :
          file_array'[p][d] = IF p = Displayed /\ d = fd THEN Absent ELSE file_array[p][d]
    BY <1>1, Lookups DEF TypeOK
  <2>2. DOMAIN file_array' = Processes /\ \A p \in Processes : DOMAIN file_array'[p] = Fds
    BY <1>1, Lookups DEF TypeOK
  <2>3. file_arr_size' \in [Processes -> STDI_O .. MAX_OPEN_FILES]
    BY <1>1, <1>2, <1>3, Lookups, SizesAssumption DEF TypeOK, STDI_O
  <2>4. \A p \in Processes, d \in Fds :
          /\ DOMAIN file_array'[p][d] = {"kind", "inode", "f_pos", "got"}
          /\ file_array'[p][d].kind \in Kinds
          /\ file_array'[p][d].kind = "file" => file_array'[p][d].inode \in Inodes
          /\ file_array'[p][d].f_pos \in Nat
    BY <2>1 DEF TypeOK, Absent, Fd, Kinds
  <2> QED
    BY <1>1, <2>2, <2>3, <2>4 DEF TypeOK
<1>5. SizeCountsOpen'
  <2> SUFFICES ASSUME NEW p \in Processes, Live(p)'
               PROVE  file_arr_size'[p] = STDI_O + Cardinality(Open(p)')
    BY DEF SizeCountsOpen
  <2>1. Live(p)
    BY <1>1 DEF Live
  <2>2. CASE p = Displayed
    <3>1. Open(p)' = Open(p) \ {fd}
      BY <1>1, <2>2, Lookups DEF Open, TypeOK, Absent, Fd
    <3>2. file_arr_size'[p] = file_arr_size[p] - 1
      BY <1>1, <2>2 DEF TypeOK
    <3> QED
      BY <2>2, <3>1, <3>2, <1>2, <1>3 DEF STDI_O
  <2>3. CASE p # Displayed
    <3>1. Open(p)' = Open(p) /\ file_arr_size'[p] = file_arr_size[p]
      BY <1>1, <2>3 DEF Open, TypeOK
    <3> QED
      BY <2>1, <3>1 DEF SizeCountsOpen
  <2> QED
    BY <2>2, <2>3
<1> QED
  BY <1>4, <1>5

\* A step that keeps which descriptors are present keeps the counts.
LEMMA SameOpen ==
  ASSUME Counted, UNCHANGED <<depth, file_arr_size>>,
         \A p \in Processes, fd \in Fds :
           file_array'[p][fd].kind = file_array[p][fd].kind
  PROVE  SizeCountsOpen'
<1>1. \A p \in Processes : Open(p)' = Open(p) /\ (Live(p)' <=> Live(p))
  BY DEF Open, Live
<1> QED
  BY <1>1 DEF Counted, SizeCountsOpen

\* file_read moves f_pos only.
LEMMA FileReadStep ==
  ASSUME Counted, NEW fd \in Fds, NEW n \in Nat, FileRead(fd, n)
  PROVE  Counted'
<1> USE DEF Counted
<1> DEFINE e == file_array[Displayed][fd]
           bytes == ReadData(e.inode, e.f_pos, n)
<1>1. /\ e.kind = "file"
      /\ file_array' = [file_array EXCEPT ![Displayed][fd] =
                          [e EXCEPT !.f_pos = @ + Len(bytes), !.got = @ \o bytes]]
      /\ UNCHANGED <<curr_terminal, curr_scheduled, depth, file_arr_size, dir_index>>
  BY DEF FileRead, schedVars
<1>2. \A p \in Processes, d \in Fds :
        file_array'[p][d] =
          IF p = Displayed /\ d = fd
            THEN [e EXCEPT !.f_pos = @ + Len(bytes), !.got = @ \o bytes]
            ELSE file_array[p][d]
  <2> HIDE DEF bytes
  <2> QED
    BY <1>1, Lookups DEF TypeOK
<1>3. Len(bytes) \in Nat
  BY <1>1, BytesRead, Lookups DEF TypeOK
<1>4. \A p \in Processes, d \in Fds :
        /\ DOMAIN file_array'[p][d] = {"kind", "inode", "f_pos", "got"}
        /\ file_array'[p][d].kind = file_array[p][d].kind
        /\ file_array'[p][d].inode = file_array[p][d].inode
        /\ file_array'[p][d].f_pos \in Nat
  <2> DEFINE r == [e EXCEPT !.f_pos = @ + Len(bytes), !.got = @ \o bytes]
  <2> HIDE DEF bytes
  <2>1. DOMAIN e = {"kind", "inode", "f_pos", "got"} /\ e.f_pos \in Nat
    BY Lookups DEF TypeOK
  <2> HIDE DEF e
  <2>2. /\ DOMAIN r = {"kind", "inode", "f_pos", "got"}
        /\ r.kind = e.kind /\ r.inode = e.inode /\ r.f_pos = e.f_pos + Len(bytes)
    BY <2>1
  <2>3. r.f_pos \in Nat
    BY <2>1, <2>2, <1>3
  <2>4. \A p \in Processes, d \in Fds :
          file_array'[p][d] = IF p = Displayed /\ d = fd THEN r ELSE file_array[p][d]
    BY <1>2 DEF e
  <2> HIDE DEF r
  <2>5. \A p \in Processes, d \in Fds :
          /\ DOMAIN file_array[p][d] = {"kind", "inode", "f_pos", "got"}
          /\ file_array[p][d].f_pos \in Nat
    BY DEF TypeOK
  <2> QED
    BY <2>2, <2>3, <2>4, <2>5 DEF e
<1>5. DOMAIN file_array' = Processes /\ \A p \in Processes : DOMAIN file_array'[p] = Fds
  BY <1>1, Lookups DEF TypeOK
<1>6. TypeOK'
  BY <1>1, <1>4, <1>5 DEF TypeOK
<1>7. SizeCountsOpen'
  BY <1>1, <1>4, SameOpen
<1> QED
  BY <1>6, <1>7

\* dir_read moves the index of the directory.
LEMMA DirReadStep ==
  ASSUME Counted, NEW fd \in Fds, DirRead(fd)
  PROVE  Counted'
<1> USE DEF Counted
<1>1. /\ file_array' = [file_array EXCEPT ![Displayed][fd].got = Append(@, dir_index)]
      /\ dir_index < NumEntries /\ dir_index' = dir_index + 1
      /\ UNCHANGED <<curr_terminal, curr_scheduled, depth, file_arr_size>>
  BY DEF DirRead, schedVars
<1>2. \A p \in Processes, d \in Fds :
        /\ DOMAIN file_array'[p][d] = {"kind", "inode", "f_pos", "got"}
        /\ file_array'[p][d].kind = file_array[p][d].kind
        /\ file_array'[p][d].inode = file_array[p][d].inode
        /\ file_array'[p][d].f_pos = file_array[p][d].f_pos
  <2> DEFINE e == file_array[Displayed][fd]
             r == [e EXCEPT !.got = Append(@, dir_index)]
  <2>1. /\ DOMAIN file_array = Processes /\ \A p \in Processes : DOMAIN file_array[p] = Fds
        /\ \A p \in Processes, d \in Fds :
             DOMAIN file_array[p][d] = {"kind", "inode", "f_pos", "got"}
        /\ Displayed \in Processes
    BY Lookups DEF TypeOK
  <2>2. /\ DOMAIN r = {"kind", "inode", "f_pos", "got"}
        /\ r.kind = e.kind /\ r.inode = e.inode /\ r.f_pos = e.f_pos
    BY <2>1
  <2>3. \A p \in Processes, d \in Fds :
          file_array'[p][d] = IF p = Displayed /\ d = fd THEN r ELSE file_array[p][d]
    <3> HIDE DEF r, e
    <3>1. file_array' = [file_array EXCEPT ![Displayed][fd] = r]
      BY <1>1 DEF r, e
    <3> QED
      BY <2>1, <3>1
  <2> HIDE DEF r
  <2> QED
    BY <2>1, <2>2, <2>3 DEF e
<1>3. DOMAIN file_array' = Processes /\ \A p \in Processes : DOMAIN file_array'[p] = Fds
  BY <1>1, Lookups DEF TypeOK
<1>4. dir_index' \in 0 .. NumEntries
  BY <1>1, ImageAssumption DEF TypeOK
<1>5. TypeOK'
  BY <1>1, <1>2, <1>3, <1>4 DEF TypeOK
<1>6. SizeCountsOpen'
  BY <1>1, <1>2, SameOpen
<1> QED
  BY <1>5, <1>6

\* A table that is made anew has nothing open.
LEMMA FreshTables ==
  /\ DOMAIN FreshTable = Fds
  /\ \A fd \in Fds : /\ DOMAIN FreshTable[fd] = {"kind", "inode", "f_pos", "got"}
                     /\ FreshTable[fd].kind = "none" /\ FreshTable[fd].f_pos = 0
BY DEF FreshTable, Absent, Fd

\* execute gives the child an empty table and the count of one.
LEMMA ExecuteStep ==
  ASSUME Counted, Execute
  PROVE  Counted'
<1> USE DEF Counted
<1> DEFINE child == <<curr_terminal, depth[curr_terminal] + 1>>
<1>1. /\ depth[curr_terminal] < MaxDepth
      /\ depth' = [depth EXCEPT ![curr_terminal] = @ + 1]
      /\ file_array' = [file_array EXCEPT ![child] = FreshTable]
      /\ file_arr_size' = [file_arr_size EXCEPT ![child] = STDI_O]
      /\ UNCHANGED <<curr_terminal, curr_scheduled, dir_index>>
  BY DEF Execute, schedVars
<1>2. child \in Processes
  BY <1>1, SizesAssumption DEF TypeOK, Processes
<1>3. \A p \in Processes : Live(p)' => p = child \/ Live(p)
  BY <1>1, SizesAssumption DEF TypeOK, Processes, Live
<1> HIDE DEF child
<1>4. TypeOK'
  <2>1. depth' \in [Terminals -> 1 .. MaxDepth]
    BY <1>1, SizesAssumption DEF TypeOK
  <2>2. file_arr_size' \in [Processes -> STDI_O .. MAX_OPEN_FILES]
    <3>1. STDI_O \in STDI_O .. MAX_OPEN_FILES
      BY SizesAssumption DEF STDI_O
    <3> QED
      BY <1>1, <3>1 DEF TypeOK
  <2>3. DOMAIN file_array' = Processes /\ \A p \in Processes : DOMAIN file_array'[p] = Fds
    BY <1>1, FreshTables DEF TypeOK
  <2>4. \A p \in Processes, d \in Fds :
          /\ DOMAIN file_array'[p][d] = {"kind", "inode", "f_pos", "got"}
          /\ file_array'[p][d].kind \in Kinds
          /\ file_array'[p][d].kind = "file" => file_array'[p][d].inode \in Inodes
          /\ file_array'[p][d].f_pos \in Nat
    BY <1>1, <1>2, FreshTables DEF TypeOK, Kinds
  <2> QED
    BY <1>1, <2>1, <2>2, <2>3, <2>4 DEF TypeOK
<1>5. SizeCountsOpen'
  <2> SUFFICES ASSUME NEW p \in Processes, Live(p)'
               PROVE  file_arr_size'[p] = STDI_O + Cardinality(Open(p)')
    BY DEF SizeCountsOpen
  <2>1. CASE p = child
    <3>1. Open(p)' = {} /\ file_arr_size'[p] = STDI_O
      BY <1>1, <1>2, <2>1, FreshTables DEF Open, TypeOK
    <3> QED
      BY <3>1, FS_EmptySet DEF STDI_O
  <2>2. CASE p # child
    <3>1. Open(p)' = Open(p) /\ file_arr_size'[p] = file_arr_size[p] /\ Live(p)
      BY <1>1, <1>3, <2>2 DEF Open, TypeOK
    <3> QED
      BY <3>1 DEF SizeCountsOpen
  <2> QED
    BY <2>1, <2>2
<1> QED
  BY <1>4, <1>5

\* halt closes, in the displayed process, the descriptors on which the caller
\* has a file, and counts each of them down once; the caller is gone after it.
LEMMA HaltStep ==
  ASSUME Counted, HaltChild
  PROVE  Counted'
<1> USE DEF Counted
<1> DEFINE hit    == FilesOf(Caller) \cap Open(Displayed)
           closed == [fd \in Fds |-> IF fd \in hit THEN Absent ELSE file_array[Displayed][fd]]
<1>1. /\ depth[curr_scheduled] > 1
      /\ file_array' = [file_array EXCEPT ![Displayed] = closed, ![Caller] = FreshTable]
      /\ file_arr_size' = [file_arr_size EXCEPT ![Displayed] = @ - Cardinality(hit),
                                                 ![Caller] = STDI_O]
      /\ dir_index' \in {0, dir_index}
      /\ depth' = [depth EXCEPT ![curr_scheduled] = depth[curr_scheduled] - 1]
      /\ UNCHANGED <<curr_terminal, curr_scheduled>>
  <2>1. HaltAt(depth[curr_scheduled] - 1) /\ depth[curr_scheduled] > 1
    BY DEF HaltChild
  <2>2. file_array' = [file_array EXCEPT ![Displayed] = closed, ![Caller] = FreshTable]
    BY <2>1, Lookups DEF HaltAt, TypeOK
  <2> QED
    BY <2>1, <2>2 DEF HaltAt, schedVars
<1>2. \A fd \in Fds :
        /\ DOMAIN closed[fd] = {"kind", "inode", "f_pos", "got"}
        /\ closed[fd].kind = IF fd \in hit THEN "none" ELSE file_array[Displayed][fd].kind
        /\ closed[fd].kind = "file" => closed[fd].inode \in Inodes
        /\ closed[fd].f_pos \in Nat
  BY Lookups DEF Absent, Fd, TypeOK
<1>3. DOMAIN closed = Fds
  OBVIOUS
<1>4. hit \subseteq Open(Displayed) /\ Open(Displayed) \subseteq Fds
  BY DEF Open
<1> HIDE DEF closed, hit
<1>5. /\ Cardinality(hit) \in Nat /\ Cardinality(Open(Displayed)) \in Nat
      /\ Cardinality(Open(Displayed) \ hit) \in Nat
      /\ Cardinality(Open(Displayed) \ hit) = Cardinality(Open(Displayed)) - Cardinality(hit)
  <2>1. Open(Displayed) \cap hit = hit /\ hit \subseteq Fds /\ Open(Displayed) \ hit \subseteq Fds
    BY <1>4
  <2> QED
    BY <1>4, <2>1, FdSets, FS_Difference, ZenonT(40)
<1>6. file_arr_size[Displayed] = STDI_O + Cardinality(Open(Displayed))
  BY Lookups DEF SizeCountsOpen
<1>7. TypeOK'
  <2>1. depth' \in [Terminals -> 1 .. MaxDepth]
    BY <1>1, SizesAssumption DEF TypeOK
  <2>2. file_arr_size' \in [Processes -> STDI_O .. MAX_OPEN_FILES]
    <3>1. /\ file_arr_size[Displayed] - Cardinality(hit) \in STDI_O .. MAX_OPEN_FILES
          /\ STDI_O \in STDI_O .. MAX_OPEN_FILES
      BY <1>5, <1>6, Lookups, SizesAssumption DEF TypeOK, STDI_O
    <3> QED
      BY <1>1, <3>1 DEF TypeOK
  <2>3. DOMAIN file_array' = Processes /\ \A p \in Processes : DOMAIN file_array'[p] = Fds
    BY <1>1, <1>3, FreshTables DEF TypeOK
  <2>4. \A p \in Processes, d \in Fds :
          /\ DOMAIN file_array'[p][d] = {"kind", "inode", "f_pos", "got"}
          /\ file_array'[p][d].kind \in Kinds
          /\ file_array'[p][d].kind = "file" => file_array'[p][d].inode \in Inodes
          /\ file_array'[p][d].f_pos \in Nat
    <3> SUFFICES ASSUME NEW p \in Processes, NEW d \in Fds
                 PROVE  /\ DOMAIN file_array'[p][d] = {"kind", "inode", "f_pos", "got"}
                        /\ file_array'[p][d].kind \in Kinds
                        /\ file_array'[p][d].kind = "file" => file_array'[p][d].inode \in Inodes
                        /\ file_array'[p][d].f_pos \in Nat
      OBVIOUS
    <3>1. CASE p = Caller
      BY <1>1, <3>1, FreshTables DEF TypeOK, Kinds
    <3>2. CASE p # Caller /\ p = Displayed
      BY <1>1, <1>2, <3>2 DEF TypeOK, Kinds
    <3>3. CASE p # Caller /\ p # Displayed
      BY <1>1, <3>3 DEF TypeOK
    <3> QED
      BY <3>1, <3>2, <3>3
  <2>5. dir_index' \in 0 .. NumEntries
    BY <1>1, ImageAssumption DEF TypeOK
  <2> QED
    BY <1>1, <2>1, <2>2, <2>3, <2>4, <2>5 DEF TypeOK
<1>8. SizeCountsOpen'
  <2> SUFFICES ASSUME NEW p \in Processes, Live(p)'
               PROVE  file_arr_size'[p] = STDI_O + Cardinality(Open(p)')
    BY DEF SizeCountsOpen
  <2>1. Live(p) /\ p # Caller
    BY <1>1, SizesAssumption DEF TypeOK, Processes, Live, Caller
  <2>2. CASE p = Displayed
    <3>1. Open(p)' = Open(p) \ hit
      BY <1>1, <1>2, <2>1, <2>2 DEF Open, TypeOK
    <3>2. file_arr_size'[p] = file_arr_size[p] - Cardinality(hit)
      BY <1>1, <2>1, <2>2 DEF TypeOK
    <3> QED
      BY <2>2, <3>1, <3>2, <1>5, <1>6 DEF STDI_O
  <2>3. CASE p # Displayed
    <3>1. Open(p)' = Open(p) /\ file_arr_size'[p] = file_arr_size[p]
      BY <1>1, <2>1, <2>3 DEF Open, TypeOK
    <3> QED
      BY <2>1, <3>1 DEF SizeCountsOpen
  <2> QED
    BY <2>2, <2>3
<1> QED
  BY <1>7, <1>8

\* A shell that starts again has nothing open.
LEMMA HaltShellStep ==
  ASSUME Counted, HaltShell
  PROVE  Counted'
<1> USE DEF Counted
<1>1. /\ file_array' = [file_array EXCEPT ![Caller] = FreshTable]
      /\ file_arr_size' = [file_arr_size EXCEPT ![Caller] = STDI_O]
      /\ dir_index' \in {0, dir_index}
      /\ UNCHANGED <<curr_terminal, curr_scheduled, depth>>
  BY DEF HaltShell, schedVars
<1>2. TypeOK'
  <2>1. file_arr_size' \in [Processes -> STDI_O .. MAX_OPEN_FILES]
    <3>1. STDI_O \in STDI_O .. MAX_OPEN_FILES
      BY SizesAssumption DEF STDI_O
    <3> QED
      BY <1>1, <3>1 DEF TypeOK
  <2>2. DOMAIN file_array' = Processes /\ \A p \in Processes : DOMAIN file_array'[p] = Fds
    BY <1>1, FreshTables DEF TypeOK
  <2>3. \A p \in Processes, d \in Fds :
          /\ DOMAIN file_array'[p][d] = {"kind", "inode", "f_pos", "got"}
          /\ file_array'[p][d].kind \in Kinds
          /\ file_array'[p][d].kind = "file" => file_array'[p][d].inode \in Inodes
          /\ file_array'[p][d].f_pos \in Nat
    BY <1>1, Lookups, FreshTables DEF TypeOK, Kinds
  <2>4. dir_index' \in 0 .. NumEntries
    BY <1>1, ImageAssumption DEF TypeOK
  <2> QED
    BY <1>1, <2>1, <2>2, <2>3, <2>4 DEF TypeOK
<1>3. SizeCountsOpen'
  <2> SUFFICES ASSUME NEW p \in Processes, Live(p)'
               PROVE  file_arr_size'[p] = STDI_O + Cardinality(Open(p)')
    BY DEF SizeCountsOpen
  <2>1. Live(p)
    BY <1>1 DEF Live
  <2>2. CASE p = Caller
    <3>1. Open(p)' = {} /\ file_arr_size'[p] = STDI_O
      BY <1>1, <2>2, FreshTables DEF Open, TypeOK
    <3> QED
      BY <3>1, FS_EmptySet DEF STDI_O
  <2>3. CASE p # Caller
    <3>1. Open(p)' = Open(p) /\ file_arr_size'[p] = file_arr_size[p]
      BY <1>1, <2>3 DEF Open, TypeOK
    <3> QED
      BY <2>1, <3>1 DEF SizeCountsOpen
  <2> QED
    BY <2>2, <2>3
<1> QED
  BY <1>2, <1>3

\* Steps keep types and counts, whatever the number of bytes that are read.
LEMMA CountedStep ==
  ASSUME Counted,
         [WholeCall]_vars \/ \E fd \in Fds, n \in Nat : FileRead(fd, n)
  PROVE  Counted'
<1>2. ASSUME NEW k \in 1 .. NumEntries, OpenFile(k) PROVE Counted'
  BY <1>2, OpenFileCounts
<1>3. ASSUME NEW fd \in Fds, Close(fd) PROVE Counted'
  BY <1>3, CloseCounts
<1>4. ASSUME NEW fd \in Fds, NEW n \in Nat, FileRead(fd, n) PROVE Counted'
  BY <1>4, FileReadStep
<1>5. ASSUME NEW fd \in Fds, DirRead(fd) PROVE Counted'
  BY <1>5, DirReadStep
<1>6. CASE Execute
  BY <1>6, ExecuteStep
<1>7. CASE HaltChild
  BY <1>7, HaltStep
<1>8. CASE HaltShell
  BY <1>8, HaltShellStep
<1>9. ASSUME UNCHANGED vars PROVE Counted'
  BY <1>9 DEF vars, Counted, TypeOK, SizeCountsOpen, Open, Live
<1>10. ASSUME NEW fd \in Fds, DirReadEnd(fd) PROVE Counted'
  BY <1>9, <1>10 DEF DirReadEnd
<1> QED
  BY <1>2, <1>3, <1>4, <1>5, <1>6, <1>7, <1>8, <1>9, <1>10, SizesAssumption DEF WholeCall

-----------------------------------------------------------------------------
(* What reads deliver *)

\* Every nonempty set of numbers has a least one.
LEMMA LeastNumber ==
  ASSUME NEW T, T \subseteq Nat, T # {}
  PROVE  \E n \in T : \A m \in T : n <= m
<1>1. \A x, y \in Nat : <<x, y>> \in OpToRel(<, Nat) <=> x < y
  BY DEF OpToRel
<1>2. PICK n \in T : \A m \in T : ~(<<m, n>> \in OpToRel(<, Nat))
  BY NatLessThanWellFounded, WFMin
<1>3. \A m \in T : ~(m < n)
  BY <1>1, <1>2, Zenon
<1> HIDE <1>1, <1>2
<1> QED
  BY <1>3, SMT

\* The place after the one of byte number n is the one of byte number n + 1.
LEMMA NextCellIsNext ==
  ASSUME NEW n \in Nat
  PROVE  NextCell(FirstCell(n)) = FirstCell(n + 1)
<1> DEFINE q == n \div BlockSize
           r == n % BlockSize
<1>1. BlockSize \in Nat /\ BlockSize > 0
  BY SizesAssumption
<1>2. /\ q \in Nat /\ r \in 0 .. BlockSize - 1
      /\ n = BlockSize * q + r
  BY <1>1
<1>3. CASE r + 1 = BlockSize
  <2>1. n + 1 = BlockSize * (q + 1)
    BY <1>1, <1>2, <1>3
  <2>2. (n + 1) \div BlockSize = q + 1 /\ (n + 1) % BlockSize = 0
    BY <1>1, <1>2, <2>1
  <2> QED
    BY <1>3, <2>2 DEF NextCell, FirstCell
<1>4. CASE r + 1 # BlockSize
  <2>1. n + 1 = BlockSize * q + (r + 1) /\ r + 1 \in 0 .. BlockSize - 1
    BY <1>1, <1>2, <1>4
  <2>2. (n + 1) \div BlockSize = q /\ (n + 1) % BlockSize = r + 1
    BY <1>1, <1>2, <2>1
  <2> QED
    BY <1>4, <2>2 DEF NextCell, FirstCell
<1> QED
  BY <1>3, <1>4

\* read_data walks from place to place; the closed form of its walk.
LEMMA WalkIsClosed ==
  ASSUME NEW offset \in Nat, NEW m \in Nat
  PROVE  LET cell[k \in 1 .. m] == IF k = 1 THEN FirstCell(offset) ELSE NextCell(cell[k-1])
         IN  \A k \in 1 .. m : cell[k] = FirstCell(offset + k - 1)
<1> DEFINE Walk(f) == f = [k \in 1 .. m |-> IF k = 1 THEN FirstCell(offset) ELSE NextCell(f[k-1])]
           closed == [k \in 1 .. m |-> FirstCell(offset + k - 1)]
<1>1. Walk(closed)
  <2>1. ASSUME NEW k \in 1 .. m
        PROVE  FirstCell(offset + k - 1) = IF k = 1 THEN FirstCell(offset) ELSE NextCell(closed[k-1])
    <3>1. CASE k = 1
      <4>1. offset + k - 1 = offset
        BY <3>1
      <4> QED
        BY <3>1, <4>1
    <3>2. CASE k # 1
      <4>1. k - 1 \in 1 .. m /\ offset + (k - 1) - 1 \in Nat /\ offset + (k - 1) - 1 + 1 = offset + k - 1
        BY <3>2
      <4>2. closed[k-1] = FirstCell(offset + (k - 1) - 1)
        BY <4>1
      <4>3. NextCell(FirstCell(offset + (k - 1) - 1)) = FirstCell(offset + (k - 1) - 1 + 1)
        BY <4>1, NextCellIsNext
      <4> QED
        BY <3>2, <4>1, <4>2, <4>3
    <3> QED
      BY <3>1, <3>2
  <2> QED
    BY <2>1
<1>2. ASSUME NEW f, Walk(f)
      PROVE  \A k \in 1 .. m : f[k] = FirstCell(offset + k - 1)
  <2> DEFINE wrong == {k \in 1 .. m : f[k] # FirstCell(offset + k - 1)}
  <2>1. SUFFICES ASSUME wrong # {} PROVE FALSE
    OBVIOUS
  <2>a. wrong \subseteq Nat
    OBVIOUS
  <2>2. PICK n \in wrong : \A k \in wrong : n <= k
    <3> HIDE DEF wrong
    <3> QED
      BY <2>1, <2>a, LeastNumber
  <2>3. CASE n = 1
    BY <1>2, <2>2, <2>3
  <2>4. CASE n # 1
    <3>1. n - 1 \in 1 .. m /\ n - 1 \notin wrong
      BY <2>2, <2>4
    <3>2. f[n - 1] = FirstCell(offset + (n - 1) - 1)
      BY <3>1
    <3>3. f[n] = NextCell(f[n - 1])
      BY <1>2, <2>2, <2>4
    <3>4. offset + (n - 1) - 1 \in Nat /\ offset + (n - 1) - 1 + 1 = offset + n - 1
      BY <2>2, <2>4
    <3>5. f[n] = FirstCell(offset + n - 1)
      BY <3>2, <3>3, <3>4, NextCellIsNext
    <3> QED
      BY <2>2, <3>5
  <2> QED
    BY <2>3, <2>4
<1> DEFINE cell[k \in 1 .. m] == IF k = 1 THEN FirstCell(offset) ELSE NextCell(cell[k-1])
<1>3. cell = CHOOSE f : Walk(f)
  BY Zenon DEF cell
<1> HIDE DEF Walk
<1>4. Walk(cell)
  BY <1>1, <1>3, Zenon
<1> HIDE DEF cell
<1>5. \A k \in 1 .. m : cell[k] = FirstCell(offset + k - 1)
  BY <1>2, <1>4
<1> QED
  BY <1>5, Zenon DEF cell

\* The bytes of a file up to a position.
BytesTo(i, n) == [k \in 1 .. n |-> ByteOf(i, k - 1)]

\* read_data returns the bytes from its offset on, at most as many as the file
\* has, or nothing.
LEMMA ReadDataReturns ==
  ASSUME NEW i \in Inodes, NEW offset \in Nat, NEW n \in Nat
  PROVE  LET m == IF offset > FileLength[i] THEN 0
                  ELSE IF n < FileLength[i] THEN n ELSE FileLength[i]
         IN  m \in Nat /\ ReadData(i, offset, n) = [k \in 1 .. m |-> ByteOf(i, offset + k - 1)]
<1> DEFINE m == IF n < FileLength[i] THEN n ELSE FileLength[i]
           cell[k \in 1 .. m] == IF k = 1 THEN FirstCell(offset) ELSE NextCell(cell[k-1])
<1>1. m \in Nat
  BY SizesAssumption, ImageAssumption
<1>2. ReadData(i, offset, n) =
        IF offset > FileLength[i] THEN <<>>
        ELSE [k \in 1 .. m |-> <<DataBlocks[i][cell[k][1]], cell[k][2]>>]
  BY Zenon DEF ReadData
<1> HIDE DEF m
<1>3. \A k \in 1 .. m : cell[k] = FirstCell(offset + k - 1)
  BY <1>1, WalkIsClosed
<1> HIDE DEF cell
<1>4. \A k \in 1 .. m :
        <<DataBlocks[i][cell[k][1]], cell[k][2]>> = ByteOf(i, offset + k - 1)
  BY <1>3 DEF FirstCell, ByteOf
<1>5. CASE offset > FileLength[i]
  <2>1. ReadData(i, offset, n) = [k \in 1 .. 0 |-> ByteOf(i, offset + k - 1)]
    BY <1>2, <1>5
  <2> QED
    BY <1>5, <2>1
<1>6. CASE ~(offset > FileLength[i])
  <2>1. ReadData(i, offset, n) = [k \in 1 .. m |-> ByteOf(i, offset + k - 1)]
    BY <1>1, <1>2, <1>4, <1>6
  <2> QED
    BY <1>1, <1>6, <2>1 DEF m
<1> QED
  BY <1>5, <1>6

\* Bytes that follow on bytes.
LEMMA BytesFollow ==
  ASSUME NEW i, NEW n \in Nat, NEW m \in Nat
  PROVE  /\ Len([k \in 1 .. m |-> ByteOf(i, n + k - 1)]) = m
         /\ BytesTo(i, n) \o [k \in 1 .. m |-> ByteOf(i, n + k - 1)] = BytesTo(i, n + m)
<1> DEFINE S == {ByteOf(i, k) : k \in Nat}
           a == BytesTo(i, n)
           b == [k \in 1 .. m |-> ByteOf(i, n + k - 1)]
           c == BytesTo(i, n + m)
<1>1. a \in Seq(S) /\ Len(a) = n /\ \A k \in 1 .. n : a[k] = ByteOf(i, k - 1)
  BY DEF BytesTo
<1>2. b \in Seq(S) /\ Len(b) = m /\ \A k \in 1 .. m : b[k] = ByteOf(i, n + k - 1)
  <2>1. \A k \in 1 .. m : n + k - 1 \in Nat
    OBVIOUS
  <2> QED
    BY <2>1
<1>3. /\ c \in Seq(S) /\ Len(c) = n + m
      /\ \A k \in 1 .. n + m : c[k] = ByteOf(i, k - 1)
  BY DEF BytesTo
<1> HIDE DEF S, a, b, c
<1>4. /\ a \o b \in Seq(S) /\ Len(a \o b) = n + m
      /\ \A k \in 1 .. n + m : (a \o b)[k] = IF k <= n THEN a[k] ELSE b[k - n]
  BY <1>1, <1>2, ConcatProperties
<1>5. ASSUME NEW k \in 1 .. n + m
      PROVE  (a \o b)[k] = c[k]
  <2>1. CASE k <= n
    BY <1>1, <1>3, <1>4, <2>1
  <2>2. CASE ~(k <= n)
    <3>1. k - n \in 1 .. m /\ n + (k - n) - 1 = k - 1
      BY <2>2
    <3>2. b[k - n] = ByteOf(i, k - 1)
      BY <1>2, <3>1
    <3> QED
      BY <1>3, <1>4, <2>2, <3>2
  <2> QED
    BY <2>1, <2>2
<1>6. a \o b = c
  BY <1>3, <1>4, <1>5, SeqEqual
<1> QED
  BY <1>2, <1>6 DEF a, b, c

-----------------------------------------------------------------------------
(* open, close and read step by step: what a step may change *)

EntryOK(e) == /\ DOMAIN e = {"kind", "inode", "f_pos", "got"}
              /\ e.kind \in Kinds \cup {"half"}
              /\ e.kind = "file" => e.inode \in Inodes
              /\ e.f_pos \in Int

CallOK(c) == /\ c \in Call
             /\ c.at \in OpenPoints => c.arg \in 1 .. NumEntries
             /\ c.at \in ClosePoints \cup ReadPoints => c.fd \in Fds
             /\ c.at \in ReadPoints => c.arg \in Nat

\* The processes found by a lookup are running ones, and what a call holds.
LEMMA TypedLookups ==
  ASSUME CallsTypeOK
  PROVE  /\ Displayed \in Processes /\ Live(Displayed)
         /\ Caller \in Processes /\ Live(Caller)
         /\ CallOK(Mine)
         /\ \A p \in Processes, fd \in Fds : EntryOK(file_array[p][fd])
<1>1. Displayed \in Processes /\ Live(Displayed) /\ Caller \in Processes /\ Live(Caller)
  BY DEF CallsTypeOK, Displayed, Caller, Processes, Live
<1>2. CallOK(Mine)
  BY DEF CallsTypeOK, CallOK, Mine
<1>3. \A p \in Processes, fd \in Fds : EntryOK(file_array[p][fd])
  BY DEF CallsTypeOK, EntryOK
<1> QED
  BY <1>1, <1>2, <1>3

\* A step of the caller's call touches no other call.
LEMMA Continued ==
  ASSUME CallsTypeOK, NEW c, Continue(c)
  PROVE  /\ DOMAIN call' = Terminals /\ curr_scheduled \in Terminals
         /\ call'[curr_scheduled] = c
         /\ \A u \in Terminals \ {curr_scheduled} : call'[u] = call[u]
BY DEF CallsTypeOK, Continue

\* An entry is changed and no other.
LEMMA PutDone ==
  ASSUME CallsTypeOK, NEW e, Put(e), Mine.fd \in Fds
  PROVE  /\ DOMAIN file_array' = Processes
         /\ \A p \in Processes : DOMAIN file_array'[p] = Fds
         /\ \A p \in Processes : p # Mine.p => file_array'[p] = file_array[p]
         /\ \A p \in Processes, fd \in Fds :
              file_array'[p][fd] = IF p = Mine.p /\ fd = Mine.fd THEN e
                                                                 ELSE file_array[p][fd]
<1>1. Mine.p \in Processes
  BY TypedLookups DEF CallOK, Call
<1>2. file_array' = [file_array EXCEPT ![Mine.p][Mine.fd] = e]
  BY DEF Put
<1> QED
  BY <1>1, <1>2 DEF CallsTypeOK

\* The fields of a call that goes to a point.
LEMMA CallMoved ==
  ASSUME CallsTypeOK, NEW x \in Points
  PROVE  /\ MineAt(x) = [at |-> x, p |-> Mine.p, fd |-> Mine.fd, arg |-> Mine.arg,
                         eax |-> Mine.eax]
         /\ \A v : [MineAt(x) EXCEPT !.eax = v] =
                      [at |-> x, p |-> Mine.p, fd |-> Mine.fd, arg |-> Mine.arg, eax |-> v]
         /\ \A fd : [MineAt(x) EXCEPT !.fd = fd] =
                      [at |-> x, p |-> Mine.p, fd |-> fd, arg |-> Mine.arg,
                       eax |-> Mine.eax]
         /\ \A p : [MineAt(x) EXCEPT !.p = p] =
                      [at |-> x, p |-> p, fd |-> Mine.fd, arg |-> Mine.arg,
                       eax |-> Mine.eax]
<1> DEFINE m == Mine
<1>1. m \in Call
  BY TypedLookups DEF CallOK
<1>2. MineAt(x) = [m EXCEPT !.at = x]
  BY DEF MineAt
<1> HIDE DEF m
<1>3. MineAt(x) = [at |-> x, p |-> m.p, fd |-> m.fd, arg |-> m.arg, eax |-> m.eax]
  BY <1>1, <1>2 DEF Call
<1> QED
  BY <1>3 DEF m

-----------------------------------------------------------------------------
(* Types *)

\* What a step has to keep, part by part.
LEMMA TypesFrom ==
  ASSUME CallsTypeOK, NEW c, Continue(c), CallOK(c),
         UNCHANGED <<curr_terminal, curr_scheduled>>,
         depth' \in [Terminals -> 1 .. MaxDepth],
         file_arr_size' \in [Processes -> Int], dir_index' \in Int,
         DOMAIN file_array' = Processes,
         \A p \in Processes : DOMAIN file_array'[p] = Fds,
         \A p \in Processes, fd \in Fds : EntryOK(file_array'[p][fd])
  PROVE  CallsTypeOK'
<1>1. \A t \in Terminals : CallOK(call'[t])
  BY Continued DEF CallsTypeOK, CallOK
<1>2. call' \in [Terminals -> Call]
  BY <1>1, Continued DEF Continue, CallsTypeOK, CallOK
<1> QED
  BY <1>1, <1>2 DEF CallsTypeOK, EntryOK, CallOK

\* A step that only goes on.
LEMMA TypesOfCall ==
  ASSUME CallsTypeOK, NEW c, Continue(c), CallOK(c), UNCHANGED vars
  PROVE  CallsTypeOK'
<1>1. \A p \in Processes, fd \in Fds : EntryOK(file_array'[p][fd])
  BY TypedLookups DEF vars
<1> QED
  BY <1>1, TypesFrom DEF vars, CallsTypeOK

\* A step that goes on and changes the entry in hand.
LEMMA TypesOfPut ==
  ASSUME CallsTypeOK, NEW c, Continue(c), CallOK(c), NEW e, Put(e), EntryOK(e),
         UNCHANGED <<curr_terminal, curr_scheduled, depth>>,
         file_arr_size' \in [Processes -> Int], dir_index' \in Int
  PROVE  CallsTypeOK'
<1>1. CASE Mine.fd \in Fds
  BY <1>1, PutDone, TypedLookups, TypesFrom DEF CallsTypeOK
<1>2. CASE Mine.fd \notin Fds
  <2>1. file_array' = file_array
    BY <1>2 DEF Put
  <2> QED
    BY <2>1, TypedLookups, TypesFrom DEF CallsTypeOK
<1> QED
  BY <1>1, <1>2

\* Points and limits are what they are.
LEMMA CallsOK ==
  /\ CallOK(Idle)
  /\ STDI_O \in Int /\ STDI_O \in Nat
  /\ Fds \subseteq 0 .. MAX_OPEN_FILES /\ MAX_OPEN_FILES \in 0 .. MAX_OPEN_FILES
  /\ EntryOK(Absent) /\ EntryOK(Fd("half", 0))
  /\ \A k \in 1 .. NumEntries : EntryOK(KindOf(Entries[k])) /\ k \in Int
<1>1. <<1, 1>> \in Processes
  BY SizesAssumption DEF Processes, Terminals
<1>2. /\ STDI_O \in Int /\ STDI_O \in Nat
      /\ Fds \subseteq 0 .. MAX_OPEN_FILES /\ MAX_OPEN_FILES \in 0 .. MAX_OPEN_FILES
      /\ 0 \in 0 .. MAX_OPEN_FILES
  BY SizesAssumption DEF STDI_O, Fds
<1>3. CallOK(Idle)
  BY <1>1, <1>2 DEF CallOK, Call, Idle, Points, OpenPoints, ClosePoints, ReadPoints
<1>4. EntryOK(Absent) /\ EntryOK(Fd("half", 0))
  BY DEF EntryOK, Absent, Fd, Kinds
<1>5. \A k \in 1 .. NumEntries : EntryOK(KindOf(Entries[k])) /\ k \in Int
  BY KindOfEntry DEF EntryOK
<1> QED
  BY <1>2, <1>3, <1>4, <1>5

\* A call that goes on among the points of its kind.
LEMMA GoesOn ==
  ASSUME CallsTypeOK,
         NEW x \in Points,
         x \in OpenPoints => Mine.at \in OpenPoints,
         x \in ClosePoints \cup ReadPoints => Mine.at \in ClosePoints \cup ReadPoints,
         x \in ReadPoints => Mine.at \in ReadPoints
  PROVE  /\ CallOK(MineAt(x))
         /\ \A v \in Int : CallOK([MineAt(x) EXCEPT !.eax = v])
         /\ \A p \in Processes : CallOK([MineAt(x) EXCEPT !.p = p])
         /\ x \notin ClosePoints \cup ReadPoints =>
              \A fd \in 0 .. MAX_OPEN_FILES : CallOK([MineAt(x) EXCEPT !.fd = fd])
<1> DEFINE m == Mine
<1>1. CallOK(m)
  BY TypedLookups
<1>2. /\ x \in OpenPoints => m.at \in OpenPoints
      /\ x \in ClosePoints \cup ReadPoints => m.at \in ClosePoints \cup ReadPoints
      /\ x \in ReadPoints => m.at \in ReadPoints
  OBVIOUS
<1>3. /\ MineAt(x) = [at |-> x, p |-> m.p, fd |-> m.fd, arg |-> m.arg, eax |-> m.eax]
      /\ \A v : [MineAt(x) EXCEPT !.eax = v] =
                   [at |-> x, p |-> m.p, fd |-> m.fd, arg |-> m.arg, eax |-> v]
      /\ \A fd : [MineAt(x) EXCEPT !.fd = fd] =
                   [at |-> x, p |-> m.p, fd |-> fd, arg |-> m.arg, eax |-> m.eax]
      /\ \A p : [MineAt(x) EXCEPT !.p = p] =
                   [at |-> x, p |-> p, fd |-> m.fd, arg |-> m.arg, eax |-> m.eax]
  BY CallMoved
<1> HIDE DEF m
<1>4. CallOK(MineAt(x))
  BY <1>1, <1>2, <1>3 DEF CallOK, Call
<1>5. \A v \in Int : CallOK([MineAt(x) EXCEPT !.eax = v])
  BY <1>1, <1>2, <1>3 DEF CallOK, Call
<1>6. \A p \in Processes : CallOK([MineAt(x) EXCEPT !.p = p])
  BY <1>1, <1>2, <1>3 DEF CallOK, Call
<1>7. ASSUME x \notin ClosePoints \cup ReadPoints, NEW fd \in 0 .. MAX_OPEN_FILES
      PROVE  CallOK([MineAt(x) EXCEPT !.fd = fd])
  BY <1>1, <1>2, <1>3, <1>7 DEF CallOK, Call
<1> QED
  BY <1>4, <1>5, <1>6, <1>7

\* The kinds of points have no point in common.
LEMMA PointsApart ==
  /\ OpenPoints \cup ClosePoints \cup ReadPoints \cup Stopped \cup {"user", "x_table"} = Points
  /\ OpenPoints \cap ClosePoints = {} /\ OpenPoints \cap ReadPoints = {}
  /\ ClosePoints \cap ReadPoints = {}
  /\ Stopped \cap (OpenPoints \cup ClosePoints \cup ReadPoints) = {}
  /\ "user" \notin OpenPoints \cup ClosePoints \cup ReadPoints \cup Stopped
  /\ "x_table" \notin OpenPoints \cup ClosePoints \cup ReadPoints \cup Stopped
BY DEF Points, OpenPoints, ClosePoints, ReadPoints, Stopped

LEMMA OpenTypes ==
  ASSUME CallsTypeOK, OpenStep
  PROVE  CallsTypeOK'
<1>1. CASE OpenLimit
  <2>1. CallOK(MineAt("o_search"))
    BY <1>1, GoesOn DEF OpenLimit, Points, OpenPoints, ClosePoints, ReadPoints
  <2> QED
    BY <1>1, <2>1, CallsOK, TypesOfCall DEF OpenLimit, MoveTo, Leave
<1>2. CASE OpenSearch
  <2>1. PICK fd \in 0 .. MAX_OPEN_FILES : Continue([MineAt("o_mark") EXCEPT !.fd = fd])
    BY <1>2, CallsOK DEF OpenSearch
  <2>2. CallOK([MineAt("o_mark") EXCEPT !.fd = fd])
    BY <1>2, GoesOn DEF OpenSearch, Points, OpenPoints, ClosePoints, ReadPoints
  <2>3. UNCHANGED vars
    BY <1>2 DEF OpenSearch
  <2> QED
    BY <2>1, <2>2, <2>3, TypesOfCall
<1>3. CASE OpenMark
  <2>1. CallOK(MineAt("o_fill"))
    BY <1>3, GoesOn DEF OpenMark, Points, OpenPoints, ClosePoints, ReadPoints
  <2> QED
    BY <1>3, <2>1, CallsOK, TypesOfPut DEF OpenMark, MoveTo, schedVars, CallsTypeOK
<1>4. CASE OpenFill
  <2>1. CallOK(MineAt("o_load")) /\ CallOK(MineAt("astray"))
    BY <1>4, GoesOn DEF OpenFill, Points, OpenPoints, ClosePoints, ReadPoints, Stopped
  <2>2. CallOK(MineAt(IF Mine.fd \in Fds /\ Held.kind # "half" THEN "astray" ELSE "o_load"))
    BY <2>1
  <2>3. EntryOK(KindOf(Entries[Mine.arg]))
    BY <1>4, TypedLookups, CallsOK DEF CallOK, OpenFill, OpenPoints
  <2>4. file_arr_size' \in [Processes -> Int]
    <3>1. TableAddress \in Int
      BY DEF TableAddress
    <3> QED
      BY <1>4, <3>1 DEF OpenFill, CallsTypeOK
  <2> QED
    BY <1>4, <2>2, <2>3, <2>4, TypesOfPut DEF OpenFill, MoveTo, schedVars, CallsTypeOK
<1>5. CASE OpenLoad
  <2>1. file_arr_size[Mine.p] \in Int
    BY TypedLookups DEF CallOK, Call, CallsTypeOK
  <2>2. CallOK([MineAt("o_store") EXCEPT !.eax = file_arr_size[Mine.p]])
    BY <1>5, <2>1, GoesOn DEF OpenLoad, Points, OpenPoints, ClosePoints, ReadPoints
  <2> QED
    BY <1>5, <2>2, TypesOfCall DEF OpenLoad, Carry
<1>6. CASE OpenStore
  <2>1. CallOK(MineAt("o_init"))
    BY <1>6, GoesOn DEF OpenStore, Points, OpenPoints, ClosePoints, ReadPoints
  <2>2. file_arr_size' \in [Processes -> Int]
    BY <1>6, TypedLookups DEF OpenStore, CallsTypeOK, CallOK, Call
  <2> QED
    BY <1>6, <2>1, <2>2, TypedLookups, TypesFrom DEF OpenStore, MoveTo, schedVars, CallsTypeOK
<1>7. CASE OpenInit
  <2>1. CallOK(MineAt("fault"))
    BY <1>7, GoesOn DEF OpenInit, Points, OpenPoints, ClosePoints, ReadPoints, Stopped
  <2>2. dir_index' \in Int
    BY <1>7 DEF OpenInit, DirOpen, CallsTypeOK
  <2>3. CallOK(IF Mine.fd \in Fds THEN Idle ELSE MineAt("fault"))
    BY <2>1, CallsOK
  <2> QED
    BY <1>7, <2>2, <2>3, TypedLookups, TypesFrom DEF OpenInit, schedVars, CallsTypeOK
<1> QED
  BY <1>1, <1>2, <1>3, <1>4, <1>5, <1>6, <1>7 DEF OpenStep

LEMMA CloseTypes ==
  ASSUME CallsTypeOK, CloseStep
  PROVE  CallsTypeOK'
<1>1. CASE CloseCheck
  <2>1. CallOK(MineAt("c_load"))
    BY <1>1, GoesOn DEF CloseCheck, Points, OpenPoints, ClosePoints, ReadPoints
  <2> QED
    BY <1>1, <2>1, CallsOK, TypesOfCall DEF CloseCheck, MoveTo, Leave
<1>2. CASE CloseLoad
  <2>1. file_arr_size[Mine.p] \in Int
    BY TypedLookups DEF CallOK, Call, CallsTypeOK
  <2>2. CallOK([MineAt("c_store") EXCEPT !.eax = file_arr_size[Mine.p]])
    BY <1>2, <2>1, GoesOn DEF CloseLoad, Points, OpenPoints, ClosePoints, ReadPoints
  <2> QED
    BY <1>2, <2>2, TypesOfCall DEF CloseLoad, Carry
<1>3. CASE CloseStore
  <2>1. CallOK(MineAt("c_clear"))
    BY <1>3, GoesOn DEF CloseStore, Points, OpenPoints, ClosePoints, ReadPoints
  <2>2. file_arr_size' \in [Processes -> Int]
    BY <1>3, TypedLookups DEF CloseStore, CallsTypeOK, CallOK, Call
  <2> QED
    BY <1>3, <2>1, <2>2, TypedLookups, TypesFrom DEF CloseStore, MoveTo, schedVars, CallsTypeOK
<1>4. CASE CloseClear
  BY <1>4, CallsOK, TypesOfPut DEF CloseClear, Leave, schedVars, CallsTypeOK
<1> QED
  BY <1>1, <1>2, <1>3, <1>4 DEF CloseStep

LEMMA ReadTypes ==
  ASSUME CallsTypeOK, ReadStep
  PROVE  CallsTypeOK'
<1>0. Mine.at \in ReadPoints /\ Mine.fd \in Fds /\ Mine.arg \in Nat /\ Mine.p \in Processes
      /\ Mine.eax \in Int /\ EntryOK(Held)
  BY TypedLookups DEF ReadStep, ReadCheck, FileLook, FileCopy, FileLoad, FileStore, DirCheck,
               DirName, DirLoad, DirStore, ReadPoints, CallOK, Call, Held
<1>1. \A x \in ReadPoints \cup {"astray"} :
        /\ CallOK(MineAt(x))
        /\ \A v \in Int : CallOK([MineAt(x) EXCEPT !.eax = v])
        /\ \A p \in Processes : CallOK([MineAt(x) EXCEPT !.p = p])
  BY <1>0, GoesOn, PointsApart DEF Stopped
<1>2. CASE ReadCheck
  <2> DEFINE c == CASE Held.kind \in {"none", "rtc"} -> Idle
                    [] Held.kind = "half" -> MineAt("astray")
                    [] Held.kind = "dir"  -> MineAt("d_check")
                    [] Held.kind = "file" -> MineAt("f_look")
  <2>1. Held.kind \in {"none", "rtc", "half", "dir", "file"}
    BY <1>0 DEF EntryOK, Kinds
  <2>2. c \in {Idle, MineAt("astray"), MineAt("d_check"), MineAt("f_look")}
    BY <2>1
  <2>3. CallOK(c)
    <3> HIDE DEF c
    <3> QED
      BY <1>1, <2>2, CallsOK DEF ReadPoints
  <2>4. Continue(c) /\ UNCHANGED vars
    BY <1>2 DEF ReadCheck
  <2> HIDE DEF c
  <2> QED
    BY <2>3, <2>4, TypesOfCall
<1>3. CASE FileLook
  BY <1>1, <1>3, TypedLookups, TypesOfCall DEF FileLook, ReadPoints
<1>4. CASE FileCopy
  <2> DEFINE whole == Held.kind = "file"
             bytes == IF whole THEN ReadData(Held.inode, Held.f_pos, Mine.arg) ELSE <<>>
             e == [Held EXCEPT !.got = @ \o bytes]
             x == IF whole THEN "f_load" ELSE "astray"
  <2>1. Len(bytes) \in Int
    <3>1. CASE whole
      <4>1. Held.inode \in Inodes /\ Held.f_pos \in Int
        BY <1>0, <3>1 DEF EntryOK
      <4>2. Len(ReadData(Held.inode, Held.f_pos, Mine.arg)) \in Nat
        BY <1>0, <4>1, BytesRead
      <4> QED
        BY <3>1, <4>2
    <3> QED
      BY <3>1
  <2>2. EntryOK(e)
    <3> DEFINE h == Held
    <3> HIDE DEF bytes, h
    <3>1. EntryOK([h EXCEPT !.got = @ \o bytes])
      BY <1>0 DEF EntryOK, h
    <3> QED
      BY <3>1 DEF h
  <2>3. Put(e) /\ Continue([MineAt(x) EXCEPT !.eax = Len(bytes)])
    BY <1>4 DEF FileCopy, Carry
  <2>4. x \in ReadPoints \cup {"astray"}
    BY DEF ReadPoints
  <2> HIDE DEF bytes, e, x
  <2>5. CallOK([MineAt(x) EXCEPT !.eax = Len(bytes)])
    BY <1>1, <2>1, <2>4
  <2> QED
    BY <1>4, <2>2, <2>3, <2>5, TypesOfPut DEF FileCopy, schedVars, CallsTypeOK
<1>5. CASE FileLoad
  <2>1. Held.f_pos + Mine.eax \in Int
    BY <1>0 DEF EntryOK
  <2> QED
    BY <1>1, <1>5, <2>1, TypesOfCall DEF FileLoad, Carry, ReadPoints
<1>6. CASE FileStore
  <2> DEFINE e == [Held EXCEPT !.f_pos = Mine.eax]
  <2>1. EntryOK(e)
    <3> DEFINE h == Held
               v == Mine.eax
    <3> HIDE DEF h, v
    <3>1. EntryOK([h EXCEPT !.f_pos = v])
      BY <1>0 DEF EntryOK, h, v
    <3> QED
      BY <3>1 DEF h, v
  <2> HIDE DEF e
  <2>2. Put(e) /\ Continue(Idle)
    BY <1>6 DEF FileStore, Leave, e
  <2> QED
    BY <1>6, <2>1, <2>2, CallsOK, TypesOfPut DEF FileStore, schedVars, CallsTypeOK
<1>7. CASE DirCheck
  BY <1>1, <1>7, CallsOK, TypesOfCall DEF DirCheck, MoveTo, Leave, ReadPoints
<1>8. CASE DirName
  <2> DEFINE e == IF Held.kind = "dir" /\ dir_index <= NumEntries
                  THEN [Held EXCEPT !.got = Append(@, dir_index)] ELSE Held
             c == IF dir_index > NumEntries THEN Idle ELSE MineAt("d_load")
  <2>1. EntryOK(e)
    <3> DEFINE h == Held
    <3> HIDE DEF h
    <3>1. EntryOK([h EXCEPT !.got = Append(@, dir_index)])
      BY <1>0 DEF EntryOK, h
    <3> QED
      BY <1>0, <3>1 DEF h
  <2>2. CallOK(c)
    BY <1>1, CallsOK DEF ReadPoints
  <2> HIDE DEF c, e
  <2>3. Put(e) /\ Continue(c)
    BY <1>8 DEF DirName, c, e
  <2> QED
    BY <1>8, <2>1, <2>2, <2>3, TypesOfPut DEF DirName, schedVars, CallsTypeOK
<1>9. CASE DirLoad
  <2>1. dir_index \in Int
    BY DEF CallsTypeOK
  <2> QED
    BY <1>1, <1>9, <2>1, TypesOfCall DEF DirLoad, Carry, ReadPoints
<1>10. CASE DirStore
  BY <1>0, <1>10, TypedLookups, CallsOK, TypesFrom DEF DirStore, Leave, schedVars, CallsTypeOK
<1> QED
  BY <1>2, <1>3, <1>4, <1>5, <1>6, <1>7, <1>8, <1>9, <1>10 DEF ReadStep

\* halt empties the caller's table and closes entries of the displayed process.
LEMMA HaltChanges ==
  ASSUME CallsTypeOK, NEW d \in 1 .. MaxDepth, HaltAt(d)
  PROVE  LET hit == FilesOf(Caller) \cap Open(Displayed) IN
         /\ DOMAIN file_array' = Processes
         /\ \A p \in Processes : DOMAIN file_array'[p] = Fds
         /\ \A p \in Processes, fd \in Fds :
              file_array'[p][fd] = IF p = Caller \/ (p = Displayed /\ fd \in hit) THEN Absent
                                                                          ELSE file_array[p][fd]
         /\ \A p \in Processes : p \notin {Caller, Displayed} => file_array'[p] = file_array[p]
         /\ Cardinality(hit) \in Nat
         /\ file_arr_size' \in [Processes -> Int]
         /\ \A p \in Processes :
              file_arr_size'[p] = IF p = Caller THEN STDI_O
                                  ELSE IF p = Displayed THEN file_arr_size[p] - Cardinality(hit)
                                  ELSE file_arr_size[p]
         /\ depth' = [depth EXCEPT ![curr_scheduled] = d]
         /\ depth' \in [Terminals -> 1 .. MaxDepth]
         /\ UNCHANGED <<curr_terminal, curr_scheduled>>
<1> DEFINE hit    == FilesOf(Caller) \cap Open(Displayed)
           closed == [fd \in Fds |-> IF fd \in hit THEN Absent ELSE file_array[Displayed][fd]]
<1>1. Displayed \in Processes /\ Caller \in Processes
  BY TypedLookups
<1>2. /\ file_array' = [file_array EXCEPT ![Displayed] = closed, ![Caller] = FreshTable]
      /\ file_arr_size' = [file_arr_size EXCEPT ![Displayed] = @ - Cardinality(hit),
                                                 ![Caller] = STDI_O]
      /\ depth' = [depth EXCEPT ![curr_scheduled] = d]
      /\ UNCHANGED <<curr_terminal, curr_scheduled>>
  <2>1. file_array' = [file_array EXCEPT ![Displayed] = closed, ![Caller] = FreshTable]
    <3> DEFINE F(f) == [fd \in Fds |-> IF fd \in hit THEN Absent ELSE f[fd]]
    <3>1. file_array' = [file_array EXCEPT ![Displayed] = F(@), ![Caller] = FreshTable]
      BY DEF HaltAt
    <3>2. closed = F(file_array[Displayed])
      OBVIOUS
    <3> HIDE DEF F, closed, hit
    <3> QED
      BY <1>1, <3>1, <3>2 DEF CallsTypeOK
  <2> QED
    BY <2>1 DEF HaltAt, schedVars
<1>3. /\ DOMAIN closed = Fds
      /\ \A fd \in Fds : closed[fd] = IF fd \in hit THEN Absent ELSE file_array[Displayed][fd]
      /\ DOMAIN FreshTable = Fds /\ \A fd \in Fds : FreshTable[fd] = Absent
  BY DEF FreshTable
<1>4. Cardinality(hit) \in Nat /\ STDI_O \in Int
  BY FdSets, CallsOK DEF Open
<1> HIDE DEF hit, closed
<1>5. /\ DOMAIN file_array' = Processes
      /\ \A p \in Processes :
           file_array'[p] = IF p = Caller THEN FreshTable
                            ELSE IF p = Displayed THEN closed ELSE file_array[p]
  BY <1>1, <1>2 DEF CallsTypeOK
<1>6. /\ \A p \in Processes : DOMAIN file_array'[p] = Fds
      /\ \A p \in Processes : p \notin {Caller, Displayed} => file_array'[p] = file_array[p]
  BY <1>3, <1>5 DEF CallsTypeOK
<1>7. \A p \in Processes, fd \in Fds :
        file_array'[p][fd] = IF p = Caller \/ (p = Displayed /\ fd \in hit) THEN Absent
                                                                    ELSE file_array[p][fd]
  <2> TAKE p \in Processes, fd \in Fds
  <2>1. CASE p = Caller
    BY <1>3, <1>5, <2>1
  <2>2. CASE p # Caller /\ p = Displayed
    BY <1>3, <1>5, <2>2
  <2>3. CASE p # Caller /\ p # Displayed
    BY <1>5, <2>3
  <2> QED
    BY <2>1, <2>2, <2>3
<1>8. /\ file_arr_size' \in [Processes -> Int]
      /\ \A p \in Processes :
           file_arr_size'[p] = IF p = Caller THEN STDI_O
                               ELSE IF p = Displayed THEN file_arr_size[p] - Cardinality(hit)
                               ELSE file_arr_size[p]
  BY <1>1, <1>2, <1>4 DEF CallsTypeOK
<1>9. depth' \in [Terminals -> 1 .. MaxDepth]
  BY <1>2 DEF CallsTypeOK
<1> QED
  BY <1>2, <1>4, <1>5, <1>6, <1>7, <1>8, <1>9 DEF hit

\* The table of a new program.
LEMMA TableMade ==
  ASSUME CallsTypeOK, InitTable
  PROVE  /\ DOMAIN file_array' = Processes
         /\ \A p \in Processes : DOMAIN file_array'[p] = Fds
         /\ \A p \in Processes : p # Mine.p => /\ file_array'[p] = file_array[p]
                                               /\ file_arr_size'[p] = file_arr_size[p]
         /\ \A fd \in Fds : file_array'[Mine.p][fd] = Absent
         /\ file_arr_size'[Mine.p] = STDI_O
         /\ file_arr_size' \in [Processes -> Int]
         /\ UNCHANGED <<curr_terminal, curr_scheduled, depth, dir_index>>
<1>1. Mine.p \in Processes
  BY TypedLookups DEF CallOK, Call
<1>2. DOMAIN FreshTable = Fds /\ \A fd \in Fds : FreshTable[fd] = Absent
  BY DEF FreshTable
<1>3. STDI_O \in Int
  BY CallsOK
<1> QED
  BY <1>1, <1>2, <1>3 DEF InitTable, CallsTypeOK, schedVars

\* Every step keeps the types, wherever calls overlap.
LEMMA TypesStep ==
  ASSUME CallsTypeOK, [CallsNext]_callVars
  PROVE  CallsTypeOK'
<1>1. ASSUME NEW t \in Terminals, Tick(t) PROVE CallsTypeOK'
  <2>1. (curr_scheduled % NT) + 1 \in Terminals
    BY SizesAssumption DEF CallsTypeOK, Terminals
  <2> QED
    BY <1>1, <2>1 DEF CallsTypeOK, Tick
<1>2. ASSUME NEW k \in 1 .. NumEntries, OpenBegins(k) PROVE CallsTypeOK'
  <2>1. CallOK([at |-> "o_limit", p |-> Displayed, fd |-> 0, arg |-> k, eax |-> 0])
    <3>1. 0 \in 0 .. MAX_OPEN_FILES
      BY SizesAssumption
    <3> QED
      BY <3>1, TypedLookups DEF CallOK, Call, Points, OpenPoints, ClosePoints, ReadPoints
  <2> QED
    BY <1>2, <2>1, TypesOfCall DEF OpenBegins, Begin
<1>3. ASSUME NEW fd \in Fds, CloseBegins(fd) PROVE CallsTypeOK'
  <2>1. CallOK([at |-> "c_check", p |-> Displayed, fd |-> fd, arg |-> 0, eax |-> 0])
    BY CallsOK, TypedLookups DEF CallOK, Call, Points, OpenPoints, ClosePoints, ReadPoints
  <2> QED
    BY <1>3, <2>1, TypesOfCall DEF CloseBegins, Begin
<1>4. ASSUME NEW fd \in Fds, NEW n \in ReadSizes, ReadBegins(fd, n) PROVE CallsTypeOK'
  <2>1. n \in Nat /\ n \in Int
    BY SizesAssumption
  <2>2. CallOK([at |-> "r_check", p |-> Displayed, fd |-> fd, arg |-> n, eax |-> 0])
    BY <2>1, CallsOK, TypedLookups DEF CallOK, Call, Points, OpenPoints, ClosePoints, ReadPoints
  <2> QED
    BY <1>4, <2>2, TypesOfCall DEF ReadBegins, Begin
<1>5. CASE OpenStep \/ CloseStep \/ ReadStep
  BY <1>5, OpenTypes, CloseTypes, ReadTypes
<1>6. CASE Launch
  <2> DEFINE P == <<curr_terminal, depth[curr_terminal] + 1>>
             c == [at |-> "x_table", p |-> P, fd |-> 0, arg |-> 0, eax |-> 0]
  <2>1. P \in Processes /\ depth' \in [Terminals -> 1 .. MaxDepth]
    BY <1>6, SizesAssumption DEF Launch, CallsTypeOK, Processes
  <2>2. CallOK(c)
    <3>1. 0 \in 0 .. MAX_OPEN_FILES
      BY SizesAssumption
    <3> QED
      BY <2>1, <3>1 DEF CallOK, Call, Points, OpenPoints, ClosePoints, ReadPoints
  <2>3. Continue(c)
    BY <1>6 DEF Launch, Begin
  <2> HIDE DEF c, P
  <2> QED
    BY <1>6, <2>1, <2>2, <2>3, TypedLookups, TypesFrom DEF Launch, schedVars, CallsTypeOK
<1>7. CASE InitTable
  <2>1. \A p \in Processes, fd \in Fds : EntryOK(file_array'[p][fd])
    BY <1>7, TableMade, TypedLookups, CallsOK
  <2>2. Continue(Idle) /\ dir_index' \in Int
    BY <1>7 DEF InitTable, Leave, CallsTypeOK
  <2> QED
    BY <1>7, <2>1, <2>2, TableMade, CallsOK, TypesFrom DEF CallsTypeOK
<1>8. ASSUME NEW d \in 1 .. MaxDepth, HaltAt(d),
             call' = call \/ \E c : Continue(c) /\ CallOK(c)
      PROVE  CallsTypeOK'
  <2>1. \A p \in Processes, fd \in Fds : EntryOK(file_array'[p][fd])
    BY <1>8, HaltChanges, TypedLookups, CallsOK
  <2>2. dir_index' \in Int
    BY <1>8 DEF HaltAt, CallsTypeOK
  <2>3. CASE \E c : Continue(c) /\ CallOK(c)
    BY <1>8, <2>1, <2>2, <2>3, HaltChanges, TypesFrom
  <2>4. CASE call' = call
    <3>1. Continue(Mine)
      BY <2>4 DEF Continue, Mine, CallsTypeOK
    <3> QED
      BY <1>8, <2>1, <2>2, <3>1, HaltChanges, TypedLookups, TypesFrom
  <2> QED
    BY <1>8, <2>3, <2>4
<1>9. CASE EndProgram
  <2>1. /\ depth[curr_scheduled] - 1 \in 1 .. MaxDepth
        /\ HaltAt(depth[curr_scheduled] - 1) /\ call' = call
    BY <1>9, SizesAssumption DEF EndProgram, HaltChild, CallsTypeOK
  <2> QED
    BY <1>8, <2>1
<1>10. CASE EndShell
  <2>1. 1 \in 1 .. MaxDepth /\ 0 \in 0 .. MAX_OPEN_FILES
    BY SizesAssumption
  <2>2. CallOK([at |-> "x_table", p |-> Caller, fd |-> 0, arg |-> 0, eax |-> 0])
    BY <2>1, TypedLookups DEF CallOK, Call, Points, OpenPoints, ClosePoints, ReadPoints
  <2> QED
    BY <1>8, <1>10, <2>1, <2>2 DEF EndShell, Begin
<1>11. CASE UNCHANGED callVars
  BY <1>11 DEF callVars, vars, CallsTypeOK
<1> QED
  BY <1>1, <1>2, <1>3, <1>4, <1>5, <1>6, <1>7, <1>9, <1>10, <1>11 DEF CallsNext

\* Initially nobody is in a call and only stdin and stdout are there.
LEMMA InitTypes == CallsInit => CallsTypeOK
<1> SUFFICES ASSUME CallsInit PROVE CallsTypeOK
  OBVIOUS
<1>1. TypeOK
  BY InitCounted DEF CallsInit, Counted
<1>2. call = [t \in Terminals |-> Idle] /\ dir_index = 0
      /\ file_arr_size = [p \in Processes |-> STDI_O]
  BY DEF CallsInit, Init
<1>3. \A t \in Terminals : CallOK(call[t])
  BY <1>2, CallsOK
<1>4. call \in [Terminals -> Call] /\ file_arr_size \in [Processes -> Int]
  BY <1>2, CallsOK DEF CallOK
<1> QED
  BY <1>1, <1>2, <1>3, <1>4 DEF TypeOK, CallsTypeOK, CallOK

\* No lookup, entry or loaded value leaves its range, however calls overlap on a
\* table and whatever they do to each other: in particular reads only use
\* entries of file_array and lengths and blocks of files there are.
THEOREM TypesKept == CallsSpec => []CallsTypeOK
BY InitTypes, TypesStep, PTL DEF CallsSpec

-----------------------------------------------------------------------------
(* Counts, when calls take turns on a table *)

\* A step of one terminal on the table P, with nobody else on it, keeps the
\* invariant if it keeps what concerns P and its own call.
LEMMA OneTable ==
  ASSUME CallsIInv, CallsTypeOK', NEW s \in Terminals, s = curr_scheduled,
         NEW P \in Processes, Live(P),
         UNCHANGED <<curr_terminal, curr_scheduled, depth>>,
         \A u \in Terminals \ {s} : call'[u] = call[u],
         call[s].at # "user" => call[s].p = P,
         call[s].at = "user" => ~Busy(P),
         call'[s].at # "user" => call'[s].p = P,
         call'[s].at \notin Stopped,
         call'[s].at \in {"r_check", "f_look"} => P = Displayed,
         \A q \in Processes : q # P => /\ file_array'[q] = file_array[q]
                                       /\ file_arr_size'[q] = file_arr_size[q],
         \A fd \in Fds :
           file_array'[P][fd].kind = "half" => call'[s].at = "o_fill" /\ call'[s].fd = fd,
         call'[s].at = "user" => file_arr_size'[P] = STDI_O + Cardinality(Open(P)'),
         CallInStep(call[s])'
  PROVE  CallsIInv'
<1>0. /\ Displayed' = Displayed
      /\ \A p \in Processes : Live(p)' <=> Live(p)
      /\ \A p \in Processes : p # P => Open(p)' = Open(p)
      /\ \A t \in Terminals : call[t].p \in Processes
  BY DEF Displayed, Live, Open, CallsIInv, CallsTypeOK, Call
<1>1. \A u \in Terminals : u # s /\ call[u].at # "user" => call[u].p # P
  BY DEF CallsIInv, Turns, Busy
<1>2. Turns'
  <2>1. ASSUME NEW t \in Terminals, NEW u \in Terminals, call'[t].at # "user",
               call'[u].at # "user", call'[t].p = call'[u].p
        PROVE  t = u
    <3>1. \A v \in Terminals : v # s => call'[v] = call[v]
      OBVIOUS
    <3>2. CASE t # s /\ u # s
      BY <2>1, <3>1, <3>2 DEF CallsIInv, Turns
    <3>3. CASE t # s /\ u = s
      BY <1>1, <2>1, <3>1, <3>3
    <3>4. CASE t = s /\ u # s
      BY <1>1, <2>1, <3>1, <3>4
    <3> QED
      BY <3>2, <3>3, <3>4
  <2>2. ASSUME NEW t \in Terminals
        PROVE  (/\ call[t].at \notin Stopped
                /\ call[t].at # "user" => Live(call[t].p)
                /\ call[t].at \in {"r_check", "f_look"} => call[t].p = Displayed)'
    <3>1. CASE t = s
      <4>1. Live(P)'
        BY <1>0
      <4> QED
        BY <1>0, <3>1, <4>1 DEF Live
    <3>2. CASE t # s
      <4>1. call'[t] = call[t] /\ call[t].p \in Processes
        BY <1>0, <3>2
      <4>2. /\ call[t].at \notin Stopped
            /\ call[t].at # "user" => Live(call[t].p)
            /\ call[t].at \in {"r_check", "f_look"} => call[t].p = Displayed
        BY DEF CallsIInv, Turns
      <4> QED
        BY <1>0, <4>1, <4>2 DEF Live
    <3> QED
      BY <3>1, <3>2
  <2> QED
    BY <2>1, <2>2 DEF Turns
<1>3. HalfOpen'
  <2> SUFFICES ASSUME NEW p \in Processes, NEW fd \in Fds, file_array'[p][fd].kind = "half"
               PROVE  \E t \in Terminals :
                        call'[t].at = "o_fill" /\ call'[t].p = p /\ call'[t].fd = fd
    BY DEF HalfOpen
  <2>1. CASE p = P
    BY <2>1
  <2>2. CASE p # P
    <3>1. PICK t \in Terminals : call[t].at = "o_fill" /\ call[t].p = p /\ call[t].fd = fd
      BY <2>2 DEF CallsIInv, HalfOpen
    <3>2. t # s
      BY <2>2, <3>1
    <3> QED
      BY <3>1, <3>2
  <2> QED
    BY <2>1, <2>2
<1>4. \A t \in Terminals : CallInStep(call[t])'
  <2> SUFFICES ASSUME NEW t \in Terminals, t # s PROVE CallInStep(call[t])'
    OBVIOUS
  <2>1. CASE call[t].at \in {"user", "x_table"} \cup Stopped
    BY <2>1 DEF CallInStep, OpenPoints, ClosePoints, ReadPoints, Stopped
  <2>2. CASE call[t].at \notin {"user", "x_table"} \cup Stopped
    <3>1. PICK c : c = call[t]
      OBVIOUS
    <3>2. /\ c.p \in Processes /\ c.p # P /\ call'[t] = c
          /\ file_array'[c.p] = file_array[c.p] /\ file_arr_size'[c.p] = file_arr_size[c.p]
          /\ Open(c.p)' = Open(c.p)
      BY <1>0, <1>1, <2>2, <3>1
    <3>3. CallInStep(c)
      BY <3>1 DEF CallsIInv
    <3> QED
      BY <3>2, <3>3 DEF CallInStep, Ahead
  <2> QED
    BY <2>1, <2>2
<1>5. CountsAtRest'
  <2> SUFFICES ASSUME NEW p \in Processes, Live(p)', ~Busy(p)'
               PROVE  file_arr_size'[p] = STDI_O + Cardinality(Open(p)')
    BY DEF CountsAtRest
  <2>1. CASE p = P
    BY <2>1 DEF Busy
  <2>2. CASE p # P
    <3>1. ~Busy(p)
      BY <2>2 DEF Busy
    <3> QED
      BY <1>0, <2>2, <3>1 DEF CallsIInv, CountsAtRest
  <2> QED
    BY <2>1, <2>2
<1> QED
  BY <1>2, <1>3, <1>4, <1>5 DEF CallsIInv

\* What a program in the middle of a call can count on.
LEMMA InCall ==
  ASSUME CallsIInv, Mine.at # "user"
  PROVE  /\ curr_scheduled \in Terminals /\ Mine = call[curr_scheduled]
         /\ Mine.p \in Processes /\ Live(Mine.p) /\ CallOK(Mine) /\ CallInStep(Mine)
         /\ Mine.at \in {"r_check", "f_look"} => Mine.p = Displayed
         /\ Mine.at \in OpenPoints \cup ClosePoints \cup ReadPoints =>
              file_arr_size[Mine.p] + Ahead(Mine) = STDI_O + Cardinality(Open(Mine.p))
         /\ Cardinality(Open(Mine.p)) \in Nat /\ file_arr_size[Mine.p] \in Int
         /\ \A fd \in Fds :
              file_array[Mine.p][fd].kind = "half" => Mine.at = "o_fill" /\ Mine.fd = fd
<1>1. curr_scheduled \in Terminals /\ Mine = call[curr_scheduled]
  BY DEF CallsIInv, CallsTypeOK, Mine
<1>2. CallOK(Mine) /\ Mine.p \in Processes /\ file_arr_size[Mine.p] \in Int
  BY TypedLookups DEF CallsIInv, CallOK, Call, CallsTypeOK
<1>3. /\ Live(Mine.p) /\ CallInStep(Mine)
      /\ Mine.at \in {"r_check", "f_look"} => Mine.p = Displayed
  BY <1>1 DEF CallsIInv, Turns
<1>4. Mine.at \in OpenPoints \cup ClosePoints \cup ReadPoints =>
        file_arr_size[Mine.p] + Ahead(Mine) = STDI_O + Cardinality(Open(Mine.p))
  BY <1>3 DEF CallInStep
<1>5. Cardinality(Open(Mine.p)) \in Nat
  BY FdSets DEF Open
<1>6. \A fd \in Fds :
        file_array[Mine.p][fd].kind = "half" => Mine.at = "o_fill" /\ Mine.fd = fd
  <2> SUFFICES ASSUME NEW fd \in Fds, file_array[Mine.p][fd].kind = "half"
               PROVE  Mine.at = "o_fill" /\ Mine.fd = fd
    OBVIOUS
  <2>1. PICK t \in Terminals : call[t].at = "o_fill" /\ call[t].p = Mine.p /\ call[t].fd = fd
    BY <1>2 DEF CallsIInv, HalfOpen
  <2>2. t = curr_scheduled
    BY <1>1, <2>1 DEF CallsIInv, Turns
  <2> QED
    BY <1>1, <2>1, <2>2
<1> QED
  BY <1>1, <1>2, <1>3, <1>4, <1>5, <1>6

\* A call goes on, with its table or an entry of it changed.
LEMMA OnItsTable ==
  ASSUME CallsIInv, CallsTypeOK', Mine.at # "user", NEW c, Continue(c),
         UNCHANGED <<curr_terminal, curr_scheduled, depth>>,
         c.at # "user" => c.p = Mine.p,
         c.at \notin Stopped,
         c.at \in {"r_check", "f_look"} => Mine.at \in {"r_check", "f_look"},
         \A q \in Processes : q # Mine.p => /\ file_array'[q] = file_array[q]
                                            /\ file_arr_size'[q] = file_arr_size[q],
         \A fd \in Fds :
           file_array'[Mine.p][fd].kind = "half" => c.at = "o_fill" /\ c.fd = fd,
         NEW P, P = Mine.p,
         c.at = "user" => file_arr_size'[P] = STDI_O + Cardinality(Open(P)'),
         CallInStep(c)'
  PROVE  CallsIInv'
<1>1. PICK s \in Terminals : s = curr_scheduled
  BY InCall
<1>2. call'[s] = c /\ \A u \in Terminals \ {s} : call'[u] = call[u]
  BY <1>1, Continued DEF CallsIInv
<1>3. call[s] = Mine /\ P \in Processes /\ Live(P)
  BY <1>1, InCall
<1>4. CallInStep(call[s])'
  BY <1>2 DEF CallInStep, Ahead
<1>5. Mine.at \in {"r_check", "f_look"} => P = Displayed
  BY InCall
<1> QED
  BY <1>1, <1>2, <1>3, <1>4, <1>5, OneTable

\* A call goes on and changes nothing yet.
LEMMA JustGoesOn ==
  ASSUME CallsIInv, CallsTypeOK', Mine.at \notin {"user", "o_fill"}, NEW c, Continue(c),
         UNCHANGED vars,
         c.at # "user" => c.p = Mine.p,
         c.at \notin Stopped,
         c.at \in {"r_check", "f_look"} => Mine.at \in {"r_check", "f_look"},
         c.at = "user" =>
           file_arr_size[Mine.p] = STDI_O + Cardinality(Open(Mine.p)),
         CallInStep(c)
  PROVE  CallsIInv'
<1>1. PICK P \in Processes : P = Mine.p
  BY InCall
<1>2. UNCHANGED <<curr_terminal, curr_scheduled, depth, file_array, file_arr_size>>
  BY DEF vars
<1>3. CallInStep(c)'
  BY <1>2 DEF CallInStep, Ahead, Open
<1>4. Open(P)' = Open(P)
  BY <1>2 DEF Open
<1>5. \A fd \in Fds : file_array'[Mine.p][fd].kind # "half"
  BY <1>2, InCall
<1>6. c.at = "user" => file_arr_size'[P] = STDI_O + Cardinality(Open(P)')
  BY <1>1, <1>2, <1>4
<1> QED
  BY <1>1, <1>2, <1>3, <1>5, <1>6, OnItsTable

\* A call begins on a table that nobody is on.
LEMMA CallBegins ==
  ASSUME CallsIInv, CallsTypeOK', TakeTurns, MayBegin, NEW c, Continue(c), UNCHANGED vars,
         c.p = Displayed, c.at \in {"o_limit", "c_check", "r_check"}
  PROVE  CallsIInv'
<1>1. PICK s \in Terminals : s = curr_scheduled
  BY DEF CallsIInv, CallsTypeOK
<1>2. PICK P \in Processes : P = Displayed /\ Live(P)
  BY TypedLookups DEF CallsIInv
<1>3. call[s].at = "user" /\ ~Busy(P)
  BY <1>1, <1>2 DEF MayBegin, Mine
<1>4. UNCHANGED <<curr_terminal, curr_scheduled, depth, file_array, file_arr_size>>
  BY DEF vars
<1>5. call'[s] = c /\ \A u \in Terminals \ {s} : call'[u] = call[u]
  BY <1>1, Continued DEF CallsIInv
<1>6. \A fd \in Fds : file_array'[P][fd].kind # "half"
  BY <1>3, <1>4 DEF CallsIInv, HalfOpen, Busy
<1>7. file_arr_size[P] = STDI_O + Cardinality(Open(P)) /\ Cardinality(Open(P)) \in Nat
  <2>1. Cardinality(Open(P)) \in Nat
    BY FdSets DEF Open
  <2> QED
    BY <1>2, <1>3, <2>1 DEF CallsIInv, CountsAtRest
<1>8. CallInStep(call[s])'
  <2>1. Ahead(c) = 0 /\ file_arr_size[P] + 0 = file_arr_size[P]
    BY <1>7 DEF Ahead, STDI_O
  <2>2. Open(P)' = Open(P)
    BY <1>4 DEF Open
  <2>3. file_arr_size'[P] + Ahead(c) = STDI_O + Cardinality(Open(P)')
    BY <1>4, <1>7, <2>1, <2>2
  <2> QED
    BY <1>2, <1>5, <2>3 DEF CallInStep, Ahead, OpenPoints, ClosePoints, ReadPoints
<1>9. c.at \notin Stopped /\ c.at # "user"
  BY DEF Stopped
<1> QED
  BY <1>1, <1>2, <1>3, <1>4, <1>5, <1>6, <1>8, <1>9, OneTable

\* A program that is in no call counts on nothing.
LEMMA IdleInStep == CallInStep(Idle) /\ Idle.at = "user"
BY DEF CallInStep, Idle, OpenPoints, ClosePoints, ReadPoints

\* One descriptor more, or one less, on a table.
LEMMA OpenChanges ==
  ASSUME NEW p \in Processes, NEW fd \in Fds
  PROVE  /\ Cardinality(Open(p)) \in Nat
         /\ fd \notin Open(p) /\ Open(p)' = Open(p) \cup {fd}
              => Cardinality(Open(p)') = Cardinality(Open(p)) + 1
         /\ fd \in Open(p) /\ Open(p)' = Open(p) \ {fd}
              => Cardinality(Open(p)') = Cardinality(Open(p)) - 1
<1>1. Open(p) \subseteq Fds
  BY DEF Open
<1>2. IsFiniteSet(Open(p)) /\ Cardinality(Open(p)) \in Nat
  BY <1>1, FdSets
<1>3. ASSUME fd \notin Open(p)
      PROVE  Cardinality(Open(p) \cup {fd}) = Cardinality(Open(p)) + 1
  BY <1>2, <1>3, FS_AddElement
<1>4. ASSUME fd \in Open(p)
      PROVE  Cardinality(Open(p) \ {fd}) = Cardinality(Open(p)) - 1
  BY <1>2, <1>4, FS_RemoveElement
<1> QED
  BY <1>2, <1>3, <1>4

LEMMA OpenKeeps ==
  ASSUME CallsIInv, CallsTypeOK', OpenStep
  PROVE  CallsIInv'
<1>0. CallsTypeOK /\ STDI_O = 2 /\ MAX_OPEN_FILES \in Nat
  BY SizesAssumption DEF CallsIInv, STDI_O
<1>1. CASE OpenLimit
  <2>0. Mine.at = "o_limit" /\ UNCHANGED vars
    BY <1>1 DEF OpenLimit
  <2>1. file_arr_size[Mine.p] = STDI_O + Cardinality(Open(Mine.p))
        /\ file_arr_size[Mine.p] \in Int
    BY <1>0, <2>0, InCall DEF OpenPoints, Ahead
  <2>2. CASE file_arr_size[Mine.p] >= MAX_OPEN_FILES
    BY <1>1, <2>0, <2>1, <2>2, IdleInStep, JustGoesOn DEF OpenLimit, Leave, Stopped
  <2>3. CASE ~(file_arr_size[Mine.p] >= MAX_OPEN_FILES)
    <3>1. PICK c : c = MineAt("o_search")
      OBVIOUS
    <3>2. c.at = "o_search" /\ c.p = Mine.p
      BY <1>0, <3>1, CallMoved DEF Points, OpenPoints
    <3>3. CallInStep(c)
      BY <1>0, <2>1, <2>3, <3>2 DEF CallInStep, Ahead, ClosePoints, ReadPoints
    <3>4. Continue(c)
      BY <1>1, <2>3, <3>1 DEF OpenLimit, MoveTo
    <3> QED
      BY <2>0, <3>2, <3>3, <3>4, JustGoesOn DEF Stopped
  <2> QED
    BY <2>2, <2>3
<1>2. CASE OpenSearch
  <2>0. Mine.at = "o_search" /\ UNCHANGED vars
    BY <1>2 DEF OpenSearch
  <2>1. /\ file_arr_size[Mine.p] = STDI_O + Cardinality(Open(Mine.p))
        /\ file_arr_size[Mine.p] < MAX_OPEN_FILES
    <3>1. CallInStep(Mine)
      BY <2>0, InCall
    <3> QED
      BY <1>0, <2>0, <3>1, InCall DEF CallInStep, OpenPoints, Ahead
  <2>2. Fds \ Open(Mine.p) # {}
    <3>1. SUFFICES ASSUME Open(Mine.p) = Fds PROVE FALSE
      BY DEF Open
    <3>2. Cardinality(Fds) = MAX_OPEN_FILES - STDI_O
      BY SizesAssumption, FS_Interval DEF Fds, STDI_O
    <3> QED
      BY <1>0, <2>1, <3>1, <3>2
  <2>3. PICK fd \in (Fds \cup {MAX_OPEN_FILES}) \ Open(Mine.p) :
          /\ \A free \in Fds \ Open(Mine.p) : fd <= free
          /\ Continue([MineAt("o_mark") EXCEPT !.fd = fd])
    BY <1>2 DEF OpenSearch
  <2>4. fd \in Fds \ Open(Mine.p)
    <3>1. PICK free \in Fds \ Open(Mine.p) : fd <= free
      BY <2>2, <2>3
    <3> QED
      BY <1>0, <2>3, <3>1 DEF Fds
  <2>5. PICK c : c = [MineAt("o_mark") EXCEPT !.fd = fd]
    OBVIOUS
  <2>6. c.at = "o_mark" /\ c.p = Mine.p /\ c.fd = fd
    BY <1>0, <2>5, CallMoved DEF Points, OpenPoints
  <2>7. CallInStep(c)
    <3>1. file_arr_size[Mine.p] + 0 = file_arr_size[Mine.p]
      BY <2>0, InCall
    <3>2. file_arr_size[c.p] + Ahead(c) = STDI_O + Cardinality(Open(c.p))
      BY <2>1, <2>6, <3>1 DEF Ahead
    <3> QED
      BY <2>4, <2>6, <3>2 DEF CallInStep, ClosePoints, ReadPoints
  <2> QED
    BY <2>0, <2>3, <2>5, <2>6, <2>7, JustGoesOn DEF Stopped
<1>3. CASE OpenMark
  <2>0. Mine.at = "o_mark" /\ Put(Fd("half", 0)) /\ Continue(MineAt("o_fill"))
        /\ UNCHANGED <<curr_terminal, curr_scheduled, depth, file_arr_size>>
    BY <1>3 DEF OpenMark, MoveTo, schedVars
  <2>1. PICK P \in Processes : P = Mine.p
    BY <2>0, InCall
  <2>2. PICK fd \in Fds : fd = Mine.fd /\ fd \notin Open(P)
    BY <2>0, <2>1, InCall DEF CallInStep
  <2>3. file_arr_size[P] = STDI_O + Cardinality(Open(P)) /\ file_arr_size[P] \in Int
    BY <1>0, <2>0, <2>1, InCall DEF OpenPoints, Ahead
  <2>4. /\ \A q \in Processes : q # P => file_array'[q] = file_array[q]
        /\ \A d \in Fds : file_array'[P][d] = IF d = fd THEN Fd("half", 0) ELSE file_array[P][d]
    BY <1>0, <2>0, <2>1, <2>2, PutDone
  <2>5. Fd("half", 0).kind = "half"
    BY DEF Fd
  <2>6. Open(P)' = Open(P) \cup {fd}
    BY <2>4, <2>5 DEF Open
  <2>7. PICK c : c = MineAt("o_fill")
    OBVIOUS
  <2>8. c.at = "o_fill" /\ c.p = P /\ c.fd = fd
    BY <1>0, <2>1, <2>2, <2>7, CallMoved DEF Points, OpenPoints
  <2>9. CallInStep(c)'
    <3>1. file_arr_size'[P] + 1 = STDI_O + Cardinality(Open(P)')
      <4>1. /\ Cardinality(Open(P)) \in Nat
            /\ Cardinality(Open(P)') = Cardinality(Open(P)) + 1
        BY <2>2, <2>6, OpenChanges
      <4> QED
        BY <1>0, <2>0, <2>3, <4>1
    <3>2. Ahead(c) = 1
      BY <2>8 DEF Ahead
    <3> QED
      BY <2>2, <2>4, <2>5, <2>8, <3>1, <3>2 DEF CallInStep, Ahead, ClosePoints, ReadPoints
  <2>10. \A d \in Fds : file_array'[P][d].kind = "half" => d = fd
    BY <2>0, <2>1, <2>4, InCall
  <2> QED
    BY <2>0, <2>1, <2>4, <2>7, <2>8, <2>9, <2>10, OnItsTable DEF Stopped
<1>4. CASE OpenFill
  <2>0. Mine.at = "o_fill" /\ Put(KindOf(Entries[Mine.arg]))
        /\ UNCHANGED <<curr_terminal, curr_scheduled, depth>>
    BY <1>4 DEF OpenFill, schedVars
  <2>1. PICK P \in Processes : P = Mine.p
    BY <2>0, InCall
  <2>2. PICK fd \in Fds : fd = Mine.fd /\ file_array[P][fd].kind = "half"
    BY <2>0, <2>1, InCall DEF CallInStep
  <2>3. file_arr_size[P] + 1 = STDI_O + Cardinality(Open(P))
    BY <2>0, <2>1, InCall DEF OpenPoints, Ahead
  <2>4. /\ \A q \in Processes : q # P => file_array'[q] = file_array[q]
        /\ \A d \in Fds : file_array'[P][d] = IF d = fd THEN KindOf(Entries[Mine.arg])
                                                       ELSE file_array[P][d]
    BY <1>0, <2>0, <2>1, <2>2, PutDone
  <2>5. KindOf(Entries[Mine.arg]).kind \in Kinds \ {"none"}
    BY <2>0, InCall, KindOfEntry DEF CallOK, OpenPoints
  <2>6. file_arr_size' = file_arr_size /\ Continue(MineAt("o_load"))
    BY <1>4, <2>1, <2>2 DEF OpenFill, MoveTo, Held
  <2>7. PICK c : c = MineAt("o_load")
    OBVIOUS
  <2>8. c.at = "o_load" /\ c.p = P /\ c.fd = fd /\ c.arg = Mine.arg
    BY <1>0, <2>1, <2>2, <2>7, CallMoved DEF Points, OpenPoints
  <2>9. Open(P)' = Open(P)
    BY <2>2, <2>4, <2>5 DEF Open
  <2>10. CallInStep(c)'
    <3>1. file_arr_size'[P] + Ahead(c) = STDI_O + Cardinality(Open(P)')
      BY <2>3, <2>6, <2>8, <2>9 DEF Ahead
    <3> QED
      BY <2>2, <2>4, <2>8, <3>1 DEF CallInStep, Ahead, ClosePoints, ReadPoints
  <2>11. \A d \in Fds : file_array'[P][d].kind # "half"
    BY <2>0, <2>1, <2>2, <2>4, <2>5, InCall DEF Kinds
  <2> QED
    BY <2>0, <2>1, <2>4, <2>6, <2>7, <2>8, <2>10, <2>11, OnItsTable DEF Stopped
<1>5. CASE OpenLoad
  <2>0. Mine.at = "o_load" /\ UNCHANGED vars
        /\ Continue([MineAt("o_store") EXCEPT !.eax = file_arr_size[Mine.p]])
    BY <1>5 DEF OpenLoad, Carry
  <2>1. PICK c : c = [MineAt("o_store") EXCEPT !.eax = file_arr_size[Mine.p]]
    OBVIOUS
  <2>2. /\ c.at = "o_store" /\ c.p = Mine.p /\ c.fd = Mine.fd /\ c.arg = Mine.arg
        /\ c.eax = file_arr_size[Mine.p]
    BY <1>0, <2>1, CallMoved DEF Points, OpenPoints
  <2>3. CallInStep(c)
    <3>1. CallInStep(Mine) /\ Ahead(c) = Ahead(Mine)
      BY <2>0, <2>2, InCall DEF Ahead
    <3> QED
      BY <2>0, <2>2, <3>1, InCall DEF CallInStep, OpenPoints, ClosePoints, ReadPoints
  <2> QED
    BY <2>0, <2>1, <2>2, <2>3, JustGoesOn DEF Stopped
<1>6. CASE OpenStore
  <2>0. /\ Mine.at = "o_store" /\ Continue(MineAt("o_init"))
        /\ file_arr_size' = [file_arr_size EXCEPT ![Mine.p] = Mine.eax + 1]
        /\ UNCHANGED <<curr_terminal, curr_scheduled, depth, file_array>>
    BY <1>6 DEF OpenStore, MoveTo, schedVars
  <2>1. PICK P \in Processes : P = Mine.p
    BY <2>0, InCall
  <2>2. /\ Mine.eax = file_arr_size[P] /\ Mine.fd \in Fds
        /\ file_array[P][Mine.fd] = KindOf(Entries[Mine.arg])
        /\ file_arr_size[P] + 1 = STDI_O + Cardinality(Open(P))
    BY <2>0, <2>1, InCall DEF CallInStep, OpenPoints, Ahead
  <2>3. /\ file_arr_size'[P] = STDI_O + Cardinality(Open(P))
        /\ \A q \in Processes : q # P => file_arr_size'[q] = file_arr_size[q]
    BY <1>0, <2>0, <2>1, <2>2 DEF CallsTypeOK
  <2>4. PICK c : c = MineAt("o_init")
    OBVIOUS
  <2>5. c.at = "o_init" /\ c.p = P /\ c.fd = Mine.fd /\ c.arg = Mine.arg
    BY <1>0, <2>1, <2>4, CallMoved DEF Points, OpenPoints
  <2>6. Open(P)' = Open(P)
    BY <2>0 DEF Open
  <2>7. CallInStep(c)'
    <3>1. file_arr_size'[P] + Ahead(c) = STDI_O + Cardinality(Open(P)')
      BY <1>0, <2>1, <2>3, <2>5, <2>6, OpenChanges, InCall, <2>0 DEF Ahead
    <3> QED
      BY <2>0, <2>2, <2>5, <3>1 DEF CallInStep, Ahead, ClosePoints, ReadPoints
  <2>8. \A d \in Fds : file_array'[P][d].kind # "half"
    BY <2>0, <2>1, InCall
  <2> QED
    BY <2>0, <2>1, <2>3, <2>4, <2>5, <2>7, <2>8, OnItsTable DEF Stopped
<1>7. CASE OpenInit
  <2>0. /\ Mine.at = "o_init" /\ Continue(IF Mine.fd \in Fds THEN Idle ELSE MineAt("fault"))
        /\ UNCHANGED <<curr_terminal, curr_scheduled, depth, file_array, file_arr_size>>
    BY <1>7 DEF OpenInit, schedVars
  <2>1. PICK P \in Processes : P = Mine.p
    BY <2>0, InCall
  <2>2. Mine.fd \in Fds /\ file_arr_size[P] = STDI_O + Cardinality(Open(P))
    BY <1>0, <2>0, <2>1, InCall DEF CallInStep, OpenPoints, Ahead
  <2>3. Open(P)' = Open(P)
    BY <2>0 DEF Open
  <2>4. \A d \in Fds : file_array'[P][d].kind # "half"
    BY <2>0, <2>1, InCall
  <2>5. PICK c : c = Idle
    OBVIOUS
  <2>6. c.at = "user" /\ CallInStep(c)'
    BY <2>5, IdleInStep DEF CallInStep, OpenPoints, ClosePoints, ReadPoints
  <2>7. Continue(c)
    BY <2>0, <2>2, <2>5
  <2>8. file_arr_size'[P] = STDI_O + Cardinality(Open(P)')
    BY <2>0, <2>2, <2>3
  <2> QED
    BY <2>0, <2>1, <2>4, <2>6, <2>7, <2>8, OnItsTable DEF Stopped
<1> QED
  BY <1>1, <1>2, <1>3, <1>4, <1>5, <1>6, <1>7 DEF OpenStep

LEMMA CloseKeeps ==
  ASSUME CallsIInv, CallsTypeOK', CloseStep
  PROVE  CallsIInv'
<1>0. CallsTypeOK /\ STDI_O = 2
  BY DEF CallsIInv, STDI_O
<1>1. CASE CloseCheck
  <2>0. Mine.at = "c_check" /\ UNCHANGED vars
    BY <1>1 DEF CloseCheck
  <2>1. /\ file_arr_size[Mine.p] = STDI_O + Cardinality(Open(Mine.p))
        /\ file_arr_size[Mine.p] + 0 = file_arr_size[Mine.p]
    BY <1>0, <2>0, InCall DEF ClosePoints, Ahead
  <2>2. CASE Held.kind = "none"
    BY <1>1, <2>0, <2>1, <2>2, IdleInStep, JustGoesOn DEF CloseCheck, Leave, Stopped
  <2>3. CASE Held.kind # "none"
    <3>1. PICK c : c = MineAt("c_load")
      OBVIOUS
    <3>2. c.at = "c_load" /\ c.p = Mine.p /\ c.fd = Mine.fd
      BY <1>0, <3>1, CallMoved DEF Points, ClosePoints
    <3>3. CallInStep(c)
      <4>1. file_arr_size[c.p] + Ahead(c) = STDI_O + Cardinality(Open(c.p))
        BY <2>1, <3>2 DEF Ahead
      <4> QED
        BY <2>3, <3>2, <4>1 DEF CallInStep, OpenPoints, Held
    <3>4. Continue(c)
      BY <1>1, <2>3, <3>1 DEF CloseCheck, MoveTo
    <3> QED
      BY <2>0, <3>2, <3>3, <3>4, JustGoesOn DEF Stopped
  <2> QED
    BY <2>2, <2>3
<1>2. CASE CloseLoad
  <2>0. Mine.at = "c_load" /\ UNCHANGED vars
        /\ Continue([MineAt("c_store") EXCEPT !.eax = file_arr_size[Mine.p]])
    BY <1>2 DEF CloseLoad, Carry
  <2>1. PICK c : c = [MineAt("c_store") EXCEPT !.eax = file_arr_size[Mine.p]]
    OBVIOUS
  <2>2. c.at = "c_store" /\ c.p = Mine.p /\ c.fd = Mine.fd /\ c.eax = file_arr_size[Mine.p]
    BY <1>0, <2>1, CallMoved DEF Points, ClosePoints
  <2>3. CallInStep(c)
    <3>1. CallInStep(Mine) /\ Ahead(c) = Ahead(Mine)
      BY <2>0, <2>2, InCall DEF Ahead
    <3> QED
      BY <2>0, <2>2, <3>1 DEF CallInStep, OpenPoints, ClosePoints, ReadPoints
  <2> QED
    BY <2>0, <2>1, <2>2, <2>3, JustGoesOn DEF Stopped
<1>3. CASE CloseStore
  <2>0. /\ Mine.at = "c_store" /\ Continue(MineAt("c_clear"))
        /\ file_arr_size' = [file_arr_size EXCEPT ![Mine.p] = Mine.eax - 1]
        /\ UNCHANGED <<curr_terminal, curr_scheduled, depth, file_array>>
    BY <1>3 DEF CloseStore, MoveTo, schedVars
  <2>1. PICK P \in Processes : P = Mine.p
    BY <2>0, InCall
  <2>2. /\ Mine.eax = file_arr_size[P] /\ file_array[P][Mine.fd].kind # "none"
        /\ file_arr_size[P] + 0 = STDI_O + Cardinality(Open(P))
        /\ file_arr_size[P] \in Int
    BY <2>0, <2>1, InCall DEF CallInStep, ClosePoints, Ahead
  <2>3. /\ file_arr_size'[P] = file_arr_size[P] - 1
        /\ \A q \in Processes : q # P => file_arr_size'[q] = file_arr_size[q]
    BY <1>0, <2>0, <2>1, <2>2 DEF CallsTypeOK
  <2>4. PICK c : c = MineAt("c_clear")
    OBVIOUS
  <2>5. c.at = "c_clear" /\ c.p = P /\ c.fd = Mine.fd
    BY <1>0, <2>1, <2>4, CallMoved DEF Points, ClosePoints
  <2>6. Open(P)' = Open(P)
    BY <2>0 DEF Open
  <2>7. CallInStep(c)'
    <3>1. file_arr_size'[P] + 1 = STDI_O + Cardinality(Open(P)')
      BY <2>2, <2>3, <2>6
    <3> QED
      BY <2>0, <2>2, <2>5, <3>1 DEF CallInStep, Ahead, OpenPoints
  <2>8. \A d \in Fds : file_array'[P][d].kind # "half"
    BY <2>0, <2>1, InCall
  <2> QED
    BY <2>0, <2>1, <2>3, <2>4, <2>5, <2>7, <2>8, OnItsTable DEF Stopped
<1>4. CASE CloseClear
  <2>0. /\ Mine.at = "c_clear" /\ Continue(Idle) /\ Put(Absent)
        /\ UNCHANGED <<curr_terminal, curr_scheduled, depth, file_arr_size>>
    BY <1>4 DEF CloseClear, Leave, schedVars
  <2>1. PICK P \in Processes : P = Mine.p
    BY <2>0, InCall
  <2>2. PICK fd \in Fds : fd = Mine.fd
    BY <2>0, InCall DEF CallOK, ClosePoints
  <2>3. /\ fd \in Open(P) /\ file_arr_size[P] \in Int
        /\ file_arr_size[P] + 1 = STDI_O + Cardinality(Open(P))
    BY <2>0, <2>1, <2>2, InCall DEF CallInStep, ClosePoints, Ahead, Open
  <2>4. /\ \A q \in Processes : q # P => file_array'[q] = file_array[q]
        /\ \A d \in Fds : file_array'[P][d] = IF d = fd THEN Absent ELSE file_array[P][d]
    BY <1>0, <2>0, <2>1, <2>2, PutDone
  <2>5. Absent.kind = "none"
    BY DEF Absent, Fd
  <2>6. Open(P)' = Open(P) \ {fd}
    BY <2>4, <2>5 DEF Open
  <2>7. file_arr_size'[P] = STDI_O + Cardinality(Open(P)')
    <3>1. /\ Cardinality(Open(P)) \in Nat
          /\ Cardinality(Open(P)') = Cardinality(Open(P)) - 1
      BY <2>2, <2>3, <2>6, OpenChanges
    <3> QED
      BY <1>0, <2>0, <2>3, <3>1
  <2>8. PICK c : c = Idle
    OBVIOUS
  <2>9. c.at = "user" /\ CallInStep(c)'
    BY <2>8, IdleInStep DEF CallInStep, OpenPoints, ClosePoints, ReadPoints
  <2>10. \A d \in Fds : file_array'[P][d].kind # "half"
    BY <2>0, <2>1, <2>4, <2>5, InCall
  <2> QED
    BY <2>0, <2>1, <2>4, <2>7, <2>8, <2>9, <2>10, OnItsTable DEF Stopped
<1> QED
  BY <1>1, <1>2, <1>3, <1>4 DEF CloseStep

\* A read goes on and keeps what kind of entries there are.
LEMMA ReadGoesOn ==
  ASSUME CallsIInv, CallsTypeOK', Mine.at \in ReadPoints, NEW c, Continue(c),
         UNCHANGED <<curr_terminal, curr_scheduled, depth, file_arr_size>>,
         file_array' = file_array \/ \E e : Put(e) /\ e.kind = Held.kind,
         \/ c = Idle
         \/ /\ c.p = Mine.p /\ c.fd = Mine.fd
            /\ \/ c.at = "f_look" /\ Mine.at = "r_check" /\ Held.kind = "file"
               \/ c.at \in {"f_copy", "f_load", "f_store"} /\ Held.kind = "file"
               \/ c.at \in {"d_check", "d_name", "d_load", "d_store"} /\ Held.kind = "dir"
  PROVE  CallsIInv'
<1>0. CallsTypeOK /\ Mine.at # "user"
  BY DEF CallsIInv, ReadPoints
<1>1. PICK P \in Processes : P = Mine.p
  BY <1>0, InCall
<1>2. PICK fd \in Fds : fd = Mine.fd
  BY <1>0, InCall DEF CallOK
<1>3. /\ \A q \in Processes : q # P => file_array'[q] = file_array[q]
      /\ \A d \in Fds : file_array'[P][d].kind = file_array[P][d].kind
  <2>1. CASE file_array' = file_array
    BY <2>1
  <2>2. ASSUME NEW e, Put(e), e.kind = Held.kind
        PROVE  /\ \A q \in Processes : q # P => file_array'[q] = file_array[q]
               /\ \A d \in Fds : file_array'[P][d].kind = file_array[P][d].kind
    <3>1. /\ \A q \in Processes : q # P => file_array'[q] = file_array[q]
          /\ \A d \in Fds : file_array'[P][d] = IF d = fd THEN e ELSE file_array[P][d]
      BY <1>0, <1>1, <1>2, <2>2, PutDone
    <3> QED
      BY <1>1, <1>2, <2>2, <3>1 DEF Held
  <2> QED
    BY <2>1, <2>2
<1>4. Open(P)' = Open(P)
  BY <1>3 DEF Open
<1>5. /\ file_arr_size'[P] = STDI_O + Cardinality(Open(P)')
      /\ file_arr_size'[P] + 0 = file_arr_size'[P]
  BY <1>0, <1>1, <1>4, InCall DEF ReadPoints, Ahead
<1>6. \A d \in Fds : file_array'[P][d].kind # "half"
  BY <1>0, <1>1, <1>3, InCall DEF ReadPoints
<1>7. CASE c = Idle
  <2>1. c.at = "user" /\ CallInStep(c)'
    BY <1>7, IdleInStep DEF CallInStep, OpenPoints, ClosePoints, ReadPoints
  <2> QED
    BY <1>0, <1>1, <1>3, <1>5, <1>6, <2>1, OnItsTable DEF Stopped
<1>8. CASE c # Idle
  <2>1. /\ c.p = P /\ c.fd = fd /\ c.at \in ReadPoints \ {"r_check"}
        /\ c.at = "f_look" => Mine.at = "r_check"
        /\ c.at \in {"f_look", "f_copy", "f_load", "f_store"} =>
             file_array'[P][fd].kind = "file"
        /\ c.at \in {"d_check", "d_name", "d_load", "d_store"} =>
             file_array'[P][fd].kind = "dir"
    BY <1>1, <1>2, <1>3, <1>8 DEF ReadPoints, Held
  <2>2. CallInStep(c)'
    <3>1. Ahead(c) = 0
      BY <2>1 DEF Ahead, ReadPoints
    <3> QED
      BY <1>5, <2>1, <3>1 DEF CallInStep, Ahead, OpenPoints, ClosePoints, ReadPoints
  <2>3. c.at \notin Stopped /\ c.at # "user"
    BY <2>1 DEF Stopped, ReadPoints
  <2> QED
    BY <1>0, <1>1, <1>3, <1>6, <2>1, <2>2, <2>3, OnItsTable
<1> QED
  BY <1>7, <1>8

LEMMA ReadKeeps ==
  ASSUME CallsIInv, CallsTypeOK', ReadStep
  PROVE  CallsIInv'
<1>0. CallsTypeOK /\ Mine.at \in ReadPoints /\ Mine.at # "user"
  BY DEF CallsIInv, ReadStep, ReadCheck, FileLook, FileCopy, FileLoad, FileStore,
         DirCheck, DirName, DirLoad, DirStore, ReadPoints
<1>1. /\ EntryOK(Held) /\ Held.kind # "half"
      /\ Mine.at \in {"f_look", "f_copy", "f_load", "f_store"} => Held.kind = "file"
      /\ Mine.at \in {"d_check", "d_name", "d_load", "d_store"} => Held.kind = "dir"
  <2>1. Mine.p \in Processes /\ Mine.fd \in Fds
    BY <1>0, InCall DEF CallOK
  <2>2. EntryOK(Held)
    BY <1>0, <2>1, TypedLookups DEF Held
  <2>3. Held.kind # "half"
    BY <1>0, <2>1, InCall DEF Held, ReadPoints
  <2> QED
    BY <1>0, <2>2, <2>3, InCall DEF Held, CallInStep
<1>2. \A x \in ReadPoints :
        /\ MineAt(x).at = x /\ MineAt(x).p = Mine.p /\ MineAt(x).fd = Mine.fd
        /\ \A v : LET c == [MineAt(x) EXCEPT !.eax = v] IN
                    c.at = x /\ c.p = Mine.p /\ c.fd = Mine.fd
        /\ \A p : LET c == [MineAt(x) EXCEPT !.p = p] IN
                    c.at = x /\ c.p = p /\ c.fd = Mine.fd
  <2> TAKE x \in ReadPoints
  <2>1. x \in Points
    BY PointsApart
  <2> QED
    BY <1>0, <2>1, CallMoved
<1>3. CASE ReadCheck
  <2>1. PICK c : /\ Continue(c)
                 /\ c = CASE Held.kind \in {"none", "rtc"} -> Idle
                          [] Held.kind = "half" -> MineAt("astray")
                          [] Held.kind = "dir"  -> MineAt("d_check")
                          [] Held.kind = "file" -> MineAt("f_look")
    BY <1>3 DEF ReadCheck
  <2>2. Held.kind \in {"none", "rtc", "dir", "file"}
    BY <1>1 DEF EntryOK, Kinds
  <2>3. \/ c = Idle
        \/ c = MineAt("d_check") /\ Held.kind = "dir"
        \/ c = MineAt("f_look") /\ Held.kind = "file"
    BY <2>1, <2>2
  <2>4. Mine.at = "r_check" /\ UNCHANGED vars
    BY <1>3 DEF ReadCheck
  <2> QED
    BY <1>0, <1>2, <2>1, <2>3, <2>4, ReadGoesOn DEF ReadPoints, vars
<1>4. CASE FileLook
  <2>1. Mine.at = "f_look" /\ UNCHANGED vars
        /\ Continue([MineAt("f_copy") EXCEPT !.p = Displayed])
    BY <1>4 DEF FileLook
  <2>2. Displayed = Mine.p
    BY <1>0, <2>1, InCall
  <2> QED
    <3>1. PICK c : c = [MineAt("f_copy") EXCEPT !.p = Displayed]
      OBVIOUS
    <3>2. c.at = "f_copy" /\ c.p = Mine.p /\ c.fd = Mine.fd
      BY <1>2, <2>2, <3>1 DEF ReadPoints
    <3>3. UNCHANGED <<curr_terminal, curr_scheduled, depth, file_arr_size, file_array>>
      BY <2>1 DEF vars
    <3> QED
      BY <1>0, <1>1, <2>1, <3>1, <3>2, <3>3, ReadGoesOn
<1>5. CASE FileCopy
  <2> DEFINE bytes == ReadData(Held.inode, Held.f_pos, Mine.arg)
             e == [Held EXCEPT !.got = @ \o bytes]
  <2>1. Mine.at = "f_copy" /\ Held.kind = "file"
    BY <1>1, <1>5 DEF FileCopy
  <2>2. /\ Put(e) /\ Continue([MineAt("f_load") EXCEPT !.eax = Len(bytes)])
        /\ UNCHANGED <<curr_terminal, curr_scheduled, depth, file_arr_size>>
    BY <1>5, <2>1 DEF FileCopy, Carry, schedVars
  <2>3. e.kind = Held.kind
    <3> DEFINE h == Held
    <3> HIDE DEF bytes, h
    <3>1. [h EXCEPT !.got = @ \o bytes].kind = h.kind
      BY <1>1 DEF EntryOK, h
    <3> QED
      BY <3>1 DEF h
  <2> HIDE DEF e, bytes
  <2>4. PICK c : c = [MineAt("f_load") EXCEPT !.eax = Len(bytes)]
    OBVIOUS
  <2>5. c.at = "f_load" /\ c.p = Mine.p /\ c.fd = Mine.fd
    BY <1>2, <2>4 DEF ReadPoints
  <2> QED
    BY <1>0, <2>1, <2>2, <2>3, <2>4, <2>5, ReadGoesOn
<1>6. CASE FileLoad
  <2>1. PICK c : c = [MineAt("f_store") EXCEPT !.eax = Held.f_pos + Mine.eax]
    OBVIOUS
  <2>2. c.at = "f_store" /\ c.p = Mine.p /\ c.fd = Mine.fd
    BY <1>2, <2>1 DEF ReadPoints
  <2>3. Mine.at = "f_load" /\ Continue(c)
        /\ UNCHANGED <<curr_terminal, curr_scheduled, depth, file_arr_size, file_array>>
    BY <1>6, <2>1 DEF FileLoad, Carry, vars
  <2> QED
    BY <1>0, <1>1, <2>2, <2>3, ReadGoesOn
<1>7. CASE FileStore
  <2> DEFINE e == [Held EXCEPT !.f_pos = Mine.eax]
  <2>1. e.kind = Held.kind
    <3> DEFINE h == Held
    <3> HIDE DEF h
    <3>1. [h EXCEPT !.f_pos = Mine.eax].kind = h.kind
      BY <1>1 DEF EntryOK, h
    <3> QED
      BY <3>1 DEF h
  <2>2. Put(e) /\ Continue(Idle)
        /\ UNCHANGED <<curr_terminal, curr_scheduled, depth, file_arr_size>>
    BY <1>7 DEF FileStore, Leave, schedVars
  <2> HIDE DEF e
  <2> QED
    BY <1>0, <2>1, <2>2, ReadGoesOn
<1>8. CASE DirCheck
  BY <1>0, <1>1, <1>2, <1>8, ReadGoesOn DEF DirCheck, MoveTo, Leave, ReadPoints, vars
<1>9. CASE DirName
  <2>1. PICK e : /\ Put(e)
                 /\ e = IF Held.kind = "dir" /\ dir_index <= NumEntries
                        THEN [Held EXCEPT !.got = Append(@, dir_index)] ELSE Held
    BY <1>9 DEF DirName
  <2>2. e.kind = Held.kind
    <3> DEFINE h == Held
    <3> HIDE DEF h
    <3>1. [h EXCEPT !.got = Append(@, dir_index)].kind = h.kind
      BY <1>1 DEF EntryOK, h
    <3> QED
      BY <2>1, <3>1 DEF h
  <2>3. PICK c : Continue(c) /\ c = IF dir_index > NumEntries THEN Idle ELSE MineAt("d_load")
    BY <1>9 DEF DirName
  <2>4. Held.kind = "dir" /\ UNCHANGED <<curr_terminal, curr_scheduled, depth, file_arr_size>>
    BY <1>1, <1>9 DEF DirName, schedVars
  <2>5. c = Idle \/ c = MineAt("d_load")
    BY <2>3
  <2> QED
    <3>1. c = Idle \/ (c.at = "d_load" /\ c.p = Mine.p /\ c.fd = Mine.fd)
      BY <1>2, <2>5 DEF ReadPoints
    <3> QED
      BY <1>0, <2>1, <2>2, <2>3, <2>4, <3>1, ReadGoesOn
<1>10. CASE DirLoad
  <2>1. PICK c : c = [MineAt("d_store") EXCEPT !.eax = dir_index]
    OBVIOUS
  <2>2. c.at = "d_store" /\ c.p = Mine.p /\ c.fd = Mine.fd
    BY <1>2, <2>1 DEF ReadPoints
  <2>3. Mine.at = "d_load" /\ Continue(c)
        /\ UNCHANGED <<curr_terminal, curr_scheduled, depth, file_arr_size, file_array>>
    BY <1>10, <2>1 DEF DirLoad, Carry, vars
  <2> QED
    BY <1>0, <1>1, <2>2, <2>3, ReadGoesOn
<1>11. CASE DirStore
  BY <1>0, <1>11, ReadGoesOn DEF DirStore, Leave, schedVars
<1> QED
  BY <1>3, <1>4, <1>5, <1>6, <1>7, <1>8, <1>9, <1>10, <1>11 DEF ReadStep

\* A tick moves the slice, and the display only while no read is between its
\* two lookups.
LEMMA TickKeeps ==
  ASSUME CallsIInv, CallsTypeOK', SteadyDisplay, NEW t \in Terminals, Tick(t)
  PROVE  CallsIInv'
<1>1. UNCHANGED <<depth, file_array, file_arr_size, dir_index, call>> /\ curr_terminal' = t
  BY DEF Tick
<1>2. /\ \A p \in Processes : /\ Live(p)' <=> Live(p)
                              /\ Open(p)' = Open(p)
                              /\ Busy(p)' <=> Busy(p)
      /\ \A u \in Terminals : call[u].p \in Processes
  BY <1>1 DEF Live, Open, Busy, CallsIInv, CallsTypeOK, Call
<1>3. Turns'
  <2>1. \A u, v \in Terminals :
          call'[u].at # "user" /\ call'[v].at # "user" /\ call'[u].p = call'[v].p => u = v
    BY <1>1 DEF CallsIInv, Turns
  <2>2. ASSUME NEW u \in Terminals
        PROVE  (/\ call[u].at \notin Stopped
                /\ call[u].at # "user" => Live(call[u].p)
                /\ call[u].at \in {"r_check", "f_look"} => call[u].p = Displayed)'
    <3>1. /\ call[u].at \notin Stopped
          /\ call[u].at # "user" => Live(call[u].p)
          /\ call[u].at \in {"r_check", "f_look"} => call[u].p = Displayed
      BY DEF CallsIInv, Turns
    <3>2. CASE t = curr_terminal
      BY <1>1, <3>1, <3>2 DEF Displayed, Live
    <3>3. CASE t # curr_terminal
      BY <1>1, <3>1, <3>3 DEF Tick, Live
    <3> QED
      BY <3>2, <3>3
  <2> QED
    BY <2>1, <2>2 DEF Turns
<1>4. HalfOpen'
  BY <1>1 DEF CallsIInv, HalfOpen
<1>5. \A u \in Terminals : CallInStep(call[u])'
  <2> TAKE u \in Terminals
  <2>1. CallInStep(call[u])
    BY DEF CallsIInv
  <2> QED
    BY <1>1, <2>1 DEF CallInStep, Ahead, Open
<1>6. CountsAtRest'
  BY <1>1, <1>2 DEF CallsIInv, CountsAtRest
<1> QED
  BY <1>3, <1>4, <1>5, <1>6 DEF CallsIInv

\* A new program is looked up by the calls that begin after it.
LEMMA LaunchKeeps ==
  ASSUME CallsIInv, CallsTypeOK', TakeTurns, Launch
  PROVE  CallsIInv'
<1> DEFINE d == depth[curr_terminal] + 1
           c == [at |-> "x_table", p |-> <<curr_terminal, d>>, fd |-> 0, arg |-> 0, eax |-> 0]
<1>0. CallsTypeOK
  BY DEF CallsIInv
<1>1. /\ depth' = [depth EXCEPT ![curr_terminal] = d] /\ Continue(c)
      /\ UNCHANGED <<curr_terminal, curr_scheduled, file_array, file_arr_size>>
      /\ Mine.at = "user" /\ ~Busy(Displayed)
  BY DEF Launch, Begin, MayBegin, schedVars
<1>2. PICK s \in Terminals : s = curr_scheduled
  BY <1>0 DEF CallsTypeOK
<1>3. PICK P \in Processes : P = <<curr_terminal, d>>
  BY <1>0, SizesAssumption DEF Launch, CallsTypeOK, Processes
<1>4. c.at = "x_table" /\ c.p = P
  BY <1>3
<1> HIDE DEF c
<1>5. /\ call'[s] = c /\ call[s].at = "user"
      /\ \A u \in Terminals : u # s => call'[u] = call[u]
      /\ \A u \in Terminals : call[u].p \in Processes
  BY <1>0, <1>1, <1>2, Continued DEF Mine, CallsTypeOK, Call
<1>6. /\ ~Live(P) /\ Live(P)'
      /\ \A q \in Processes : q # P => (Live(q)' <=> Live(q))
      /\ \A q \in Processes : Open(q)' = Open(q)
  <2>1. \A q \in Processes : q[1] \in Terminals /\ q[2] \in Nat /\ q = <<q[1], q[2]>>
    BY SizesAssumption DEF Processes
  <2>2. P[1] = curr_terminal /\ P[2] = depth[curr_terminal] + 1
    BY <1>3
  <2>3. \A v \in Terminals : depth[v] \in Int
    BY <1>0 DEF CallsTypeOK
  <2>4. \A v \in Terminals : depth'[v] = IF v = curr_terminal THEN depth[v] + 1 ELSE depth[v]
    BY <1>0, <1>1 DEF CallsTypeOK
  <2>5. curr_terminal \in Terminals
    BY <1>0 DEF CallsTypeOK
  <2>6. ~Live(P) /\ Live(P)'
    BY <2>2, <2>3, <2>4, <2>5 DEF Live
  <2>7. ASSUME NEW q \in Processes, q # P
        PROVE  Live(q)' <=> Live(q)
    <3>1. CASE q[1] # curr_terminal
      BY <2>1, <2>4, <3>1 DEF Live
    <3>2. CASE q[1] = curr_terminal
      <4>1. q[2] # depth[curr_terminal] + 1
        BY <1>3, <2>1, <2>7, <3>2
      <4> QED
        BY <2>1, <2>3, <2>4, <2>5, <3>2, <4>1 DEF Live
    <3> QED
      BY <3>1, <3>2
  <2>8. \A q \in Processes : Open(q)' = Open(q)
    BY <1>1 DEF Open
  <2> QED
    BY <2>6, <2>7, <2>8
<1>7. \A u \in Terminals : call[u].at # "user" => call[u].p # P /\ call[u].p # Displayed
  BY <1>1, <1>6 DEF CallsIInv, Turns, Busy
<1>8. Turns'
  <2>1. ASSUME NEW u \in Terminals, NEW v \in Terminals, call'[u].at # "user",
               call'[v].at # "user", call'[u].p = call'[v].p
        PROVE  u = v
    <3>1. CASE u # s /\ v # s
      BY <1>5, <2>1, <3>1 DEF CallsIInv, Turns
    <3>2. CASE u # s /\ v = s
      BY <1>4, <1>5, <1>7, <2>1, <3>2
    <3>3. CASE u = s /\ v # s
      BY <1>4, <1>5, <1>7, <2>1, <3>3
    <3> QED
      BY <3>1, <3>2, <3>3
  <2>2. ASSUME NEW u \in Terminals
        PROVE  (/\ call[u].at \notin Stopped
                /\ call[u].at # "user" => Live(call[u].p)
                /\ call[u].at \in {"r_check", "f_look"} => call[u].p = Displayed)'
    <3>1. CASE u = s
      BY <1>4, <1>5, <1>6, <3>1 DEF Stopped, Live
    <3>2. CASE u # s
      <4>1. /\ call[u].at \notin Stopped
            /\ call[u].at # "user" => Live(call[u].p)
            /\ call[u].at \notin {"r_check", "f_look"}
            /\ call[u].p \in Processes
        BY <1>5, <1>7 DEF CallsIInv, Turns
      <4> QED
        BY <1>5, <1>6, <1>7, <3>2, <4>1 DEF Live
    <3> QED
      BY <3>1, <3>2
  <2> QED
    BY <2>1, <2>2 DEF Turns
<1>9. HalfOpen'
  <2> SUFFICES ASSUME NEW p \in Processes, NEW fd \in Fds, file_array'[p][fd].kind = "half"
               PROVE  \E t \in Terminals :
                        call'[t].at = "o_fill" /\ call'[t].p = p /\ call'[t].fd = fd
    BY DEF HalfOpen
  <2>1. PICK t \in Terminals : call[t].at = "o_fill" /\ call[t].p = p /\ call[t].fd = fd
    BY <1>1 DEF CallsIInv, HalfOpen
  <2> QED
    BY <1>5, <2>1
<1>10. \A u \in Terminals : CallInStep(call[u])'
  <2> TAKE u \in Terminals
  <2>1. CASE u = s
    BY <1>4, <1>5, <2>1 DEF CallInStep, OpenPoints, ClosePoints, ReadPoints
  <2>2. CASE u # s
    <3>1. CallInStep(call[u]) /\ call'[u] = call[u]
      BY <1>5, <2>2 DEF CallsIInv
    <3> QED
      BY <1>1, <3>1 DEF CallInStep, Ahead, Open
  <2> QED
    BY <2>1, <2>2
<1>11. CountsAtRest'
  <2> SUFFICES ASSUME NEW p \in Processes, Live(p)', ~Busy(p)'
               PROVE  file_arr_size'[p] = STDI_O + Cardinality(Open(p)')
    BY DEF CountsAtRest
  <2>1. p # P
    BY <1>4, <1>5 DEF Busy
  <2>2. ~Busy(p)
    BY <1>5 DEF Busy
  <2> QED
    BY <1>1, <1>6, <2>1, <2>2 DEF CallsIInv, CountsAtRest
<1> QED
  BY <1>8, <1>9, <1>10, <1>11 DEF CallsIInv

\* The new program's table has nothing open.
LEMMA TableKeeps ==
  ASSUME CallsIInv, CallsTypeOK', InitTable
  PROVE  CallsIInv'
<1>0. CallsTypeOK /\ Mine.at = "x_table" /\ Continue(Idle) /\ STDI_O = 2
  BY DEF CallsIInv, InitTable, Leave, STDI_O
<1>1. PICK P \in Processes : P = Mine.p
  BY <1>0, InCall
<1>2. Absent.kind = "none"
  BY DEF Absent, Fd
<1>3. /\ \A q \in Processes : q # P => /\ file_array'[q] = file_array[q]
                                       /\ file_arr_size'[q] = file_arr_size[q]
      /\ \A fd \in Fds : file_array'[P][fd].kind = "none"
      /\ file_arr_size'[P] = STDI_O
      /\ UNCHANGED <<curr_terminal, curr_scheduled, depth>>
  BY <1>0, <1>1, <1>2, TableMade
<1>4. file_arr_size'[P] = STDI_O + Cardinality(Open(P)')
  <2>1. Open(P)' = {}
    BY <1>3 DEF Open
  <2> QED
    BY <1>0, <1>3, <2>1, FS_EmptySet
<1>5. PICK c : c = Idle
  OBVIOUS
<1>6. c.at = "user" /\ CallInStep(c)'
  BY <1>5, IdleInStep DEF CallInStep, OpenPoints, ClosePoints, ReadPoints
<1> QED
  BY <1>0, <1>1, <1>3, <1>4, <1>5, <1>6, OnItsTable DEF Stopped

\* A program ends: its table is gone, and the displayed one has lost as many
\* descriptors as it was counted down.
LEMMA EndKeeps ==
  ASSUME CallsIInv, CallsTypeOK', TakeTurns, EndProgram
  PROVE  CallsIInv'
<1> DEFINE hit == FilesOf(Caller) \cap Open(Displayed)
<1>0. CallsTypeOK /\ STDI_O = 2
  BY DEF CallsIInv, STDI_O
<1>1. /\ call' = call /\ ~Busy(Displayed) /\ ~Busy(Caller)
      /\ HaltAt(depth[curr_scheduled] - 1) /\ depth[curr_scheduled] - 1 \in 1 .. MaxDepth
  BY <1>0, SizesAssumption DEF EndProgram, HaltChild, MayEnd, MayBegin, CallsTypeOK
<1>2. /\ \A p \in Processes, fd \in Fds :
           file_array'[p][fd] = IF p = Caller \/ (p = Displayed /\ fd \in hit) THEN Absent
                                                                    ELSE file_array[p][fd]
      /\ \A p \in Processes : p \notin {Caller, Displayed} =>
           file_array'[p] = file_array[p] /\ file_arr_size'[p] = file_arr_size[p]
      /\ Displayed # Caller => file_arr_size'[Displayed] = file_arr_size[Displayed] - Cardinality(hit)
      /\ depth' = [depth EXCEPT ![curr_scheduled] = depth[curr_scheduled] - 1]
      /\ UNCHANGED <<curr_terminal, curr_scheduled>>
  <2> HIDE DEF hit
  <2>1. Displayed \in Processes
    BY <1>0, TypedLookups
  <2> USE DEF hit
  <2> QED
    BY <1>0, <1>1, <2>1, HaltChanges
<1>3. hit \subseteq Open(Displayed) /\ Open(Displayed) \subseteq Fds /\ Absent.kind = "none"
  BY DEF Open, Absent, Fd
<1> HIDE DEF hit
<1>4. /\ Cardinality(hit) \in Nat /\ Cardinality(Open(Displayed)) \in Nat
      /\ Cardinality(Open(Displayed) \ hit) = Cardinality(Open(Displayed)) - Cardinality(hit)
  <2>1. Open(Displayed) \cap hit = hit /\ hit \subseteq Fds
    BY <1>3
  <2> QED
    BY <1>3, <2>1, FdSets, FS_Difference, ZenonT(40)
<1>5. /\ Displayed \in Processes /\ Caller \in Processes /\ Live(Displayed)
      /\ \A u \in Terminals : call[u].p \in Processes
  BY <1>0, TypedLookups DEF CallsTypeOK, Call
<1>6. \A p \in Processes : Live(p)' <=> Live(p) /\ p # Caller
  <2>1. \A p \in Processes : p[1] \in Terminals /\ p[2] \in Nat /\ p = <<p[1], p[2]>>
    BY SizesAssumption DEF Processes
  <2>2. \A v \in Terminals : depth[v] \in Int
    BY <1>0 DEF CallsTypeOK
  <2>3. curr_scheduled \in Terminals
    BY <1>0 DEF CallsTypeOK
  <2>4. \A v \in Terminals : depth'[v] = IF v = curr_scheduled THEN depth[v] - 1 ELSE depth[v]
    BY <1>0, <1>2, <2>3 DEF CallsTypeOK
  <2> TAKE p \in Processes
  <2>5. CASE p[1] # curr_scheduled
    <3>1. p # Caller
      BY <2>5 DEF Caller
    <3> QED
      BY <2>1, <2>4, <2>5, <3>1 DEF Live
  <2>6. CASE p[1] = curr_scheduled
    <3>1. p = Caller <=> p[2] = depth[curr_scheduled]
      BY <2>1, <2>6 DEF Caller
    <3>2. depth'[p[1]] = depth[curr_scheduled] - 1 /\ p[2] \in Nat /\ depth[curr_scheduled] \in Int
      BY <2>1, <2>2, <2>3, <2>4, <2>6
    <3> QED
      BY <2>6, <3>1, <3>2 DEF Live
  <2> QED
    BY <2>5, <2>6
<1>7. \A u \in Terminals : call[u].at # "user" => call[u].p \notin {Caller, Displayed}
  BY <1>1 DEF Busy
<1>8. \A p \in Processes : p \notin {Caller, Displayed} => Open(p)' = Open(p)
  BY <1>2 DEF Open
<1>9. Turns'
  <2>1. \A u, v \in Terminals :
          call'[u].at # "user" /\ call'[v].at # "user" /\ call'[u].p = call'[v].p => u = v
    BY <1>1 DEF CallsIInv, Turns
  <2>2. ASSUME NEW u \in Terminals
        PROVE  (/\ call[u].at \notin Stopped
                /\ call[u].at # "user" => Live(call[u].p)
                /\ call[u].at \in {"r_check", "f_look"} => call[u].p = Displayed)'
    <3>1. /\ call[u].at \notin Stopped
          /\ call[u].at # "user" => Live(call[u].p)
          /\ call[u].at \notin {"r_check", "f_look"}
      BY <1>7 DEF CallsIInv, Turns
    <3>2. PICK q \in Processes : q = call[u].p
      BY <1>5
    <3>3. call[u].at # "user" => Live(q)'
      BY <1>6, <1>7, <3>1, <3>2
    <3> QED
      BY <1>1, <3>1, <3>2, <3>3 DEF Live
  <2> QED
    BY <2>1, <2>2 DEF Turns
<1>10. HalfOpen'
  BY <1>1, <1>2, <1>3 DEF CallsIInv, HalfOpen
<1>11. \A u \in Terminals : CallInStep(call[u])'
  <2> TAKE u \in Terminals
  <2>1. CASE call[u].at = "user"
    BY <1>1, <2>1 DEF CallInStep, OpenPoints, ClosePoints, ReadPoints
  <2>2. CASE call[u].at # "user"
    <3>1. PICK c : c = call[u]
      OBVIOUS
    <3>2. /\ CallInStep(c) /\ call'[u] = c
          /\ file_array'[c.p] = file_array[c.p] /\ file_arr_size'[c.p] = file_arr_size[c.p]
          /\ Open(c.p)' = Open(c.p)
      BY <1>1, <1>2, <1>5, <1>7, <1>8, <2>2, <3>1 DEF CallsIInv
    <3> QED
      BY <3>2 DEF CallInStep, Ahead
  <2> QED
    BY <2>1, <2>2
<1>12. CountsAtRest'
  <2> SUFFICES ASSUME NEW p \in Processes, Live(p)', ~Busy(p)'
               PROVE  file_arr_size'[p] = STDI_O + Cardinality(Open(p)')
    BY DEF CountsAtRest
  <2>1. Live(p) /\ p # Caller /\ ~Busy(p)
    BY <1>1, <1>6 DEF Busy
  <2>2. file_arr_size[p] = STDI_O + Cardinality(Open(p))
    BY <2>1 DEF CallsIInv, CountsAtRest
  <2>3. CASE p = Displayed
    <3>1. \A fd \in Fds : file_array'[p][fd] = IF fd \in hit THEN Absent ELSE file_array[p][fd]
      BY <1>2, <2>1, <2>3
    <3>2. Open(p)' = Open(p) \ hit
      BY <1>3, <3>1 DEF Open
    <3> QED
      BY <1>0, <1>2, <1>4, <2>1, <2>2, <2>3, <3>2
  <2>4. CASE p # Displayed
    BY <1>2, <1>8, <2>1, <2>2, <2>4
  <2> QED
    BY <2>3, <2>4
<1> QED
  BY <1>9, <1>10, <1>11, <1>12 DEF CallsIInv

\* A shell starts again, displayed, in its own place.
LEMMA RestartKeeps ==
  ASSUME CallsIInv, CallsTypeOK', TakeTurns, EndShell
  PROVE  CallsIInv'
<1> DEFINE c == [at |-> "x_table", p |-> Caller, fd |-> 0, arg |-> 0, eax |-> 0]
<1>0. CallsTypeOK /\ 1 \in 1 .. MaxDepth
  BY SizesAssumption DEF CallsIInv
<1>1. /\ HaltAt(1) /\ Continue(c) /\ Mine.at = "user" /\ ~Busy(Caller)
      /\ Displayed = Caller /\ depth[curr_scheduled] = 1
  BY DEF EndShell, MayEnd, MayBegin, Begin, Displayed, Caller
<1>2. c.at = "x_table" /\ c.p = Caller
  OBVIOUS
<1> HIDE DEF c
<1>3. /\ \A q \in Processes : q # Caller => /\ file_array'[q] = file_array[q]
                                            /\ file_arr_size'[q] = file_arr_size[q]
      /\ \A fd \in Fds : file_array'[Caller][fd] = Absent
      /\ depth' = [depth EXCEPT ![curr_scheduled] = 1]
      /\ UNCHANGED <<curr_terminal, curr_scheduled>>
  BY <1>0, <1>1, HaltChanges, TypedLookups
<1>4. depth' = depth
  BY <1>0, <1>1, <1>3 DEF CallsTypeOK
<1>5. PICK s \in Terminals : s = curr_scheduled
  BY <1>0 DEF CallsTypeOK
<1>6. PICK P \in Processes : P = Caller /\ Live(P)
  BY <1>0, TypedLookups
<1>7. /\ call'[s] = c /\ call[s].at = "user"
      /\ \A u \in Terminals \ {s} : call'[u] = call[u]
  BY <1>0, <1>1, <1>5, Continued DEF Mine
<1>8. CallInStep(call[s])'
  BY <1>2, <1>7 DEF CallInStep, OpenPoints, ClosePoints, ReadPoints
<1>9. \A fd \in Fds : file_array'[P][fd].kind # "half"
  BY <1>3, <1>6 DEF Absent, Fd
<1> QED
  BY <1>1, <1>2, <1>3, <1>4, <1>5, <1>6, <1>7, <1>8, <1>9, OneTable DEF Stopped

\* Every step keeps the invariant.
LEMMA CallsStep ==
  ASSUME CallsIInv, TakeTurns, SteadyDisplay, [CallsNext]_callVars
  PROVE  CallsIInv'
<1>0. CallsTypeOK /\ CallsTypeOK'
  BY TypesStep DEF CallsIInv
<1>1. ASSUME NEW t \in Terminals, Tick(t) PROVE CallsIInv'
  BY <1>0, <1>1, TickKeeps
<1>2. ASSUME NEW k \in 1 .. NumEntries, OpenBegins(k) PROVE CallsIInv'
  <2>1. PICK c : c = [at |-> "o_limit", p |-> Displayed, fd |-> 0, arg |-> k, eax |-> 0]
    OBVIOUS
  <2> QED
    BY <1>0, <1>2, <2>1, CallBegins DEF OpenBegins, Begin
<1>3. ASSUME NEW fd \in Fds, CloseBegins(fd) PROVE CallsIInv'
  <2>1. PICK c : c = [at |-> "c_check", p |-> Displayed, fd |-> fd, arg |-> 0, eax |-> 0]
    OBVIOUS
  <2> QED
    BY <1>0, <1>3, <2>1, CallBegins DEF CloseBegins, Begin
<1>4. ASSUME NEW fd \in Fds, NEW n \in ReadSizes, ReadBegins(fd, n) PROVE CallsIInv'
  <2>1. PICK c : c = [at |-> "r_check", p |-> Displayed, fd |-> fd, arg |-> n, eax |-> 0]
    OBVIOUS
  <2> QED
    BY <1>0, <1>4, <2>1, CallBegins DEF ReadBegins, Begin
<1>5. CASE OpenStep
  BY <1>0, <1>5, OpenKeeps
<1>6. CASE CloseStep
  BY <1>0, <1>6, CloseKeeps
<1>7. CASE ReadStep
  BY <1>0, <1>7, ReadKeeps
<1>8. CASE Launch
  BY <1>0, <1>8, LaunchKeeps
<1>9. CASE InitTable
  BY <1>0, <1>9, TableKeeps
<1>10. CASE EndProgram
  BY <1>0, <1>10, EndKeeps
<1>11. CASE EndShell
  BY <1>0, <1>11, RestartKeeps
<1>12. CASE UNCHANGED callVars
  <2>1. UNCHANGED <<curr_terminal, curr_scheduled, depth, file_array, file_arr_size, call>>
    BY <1>12 DEF callVars, vars
  <2>2. Turns'
    BY <2>1 DEF CallsIInv, Turns, Live, Displayed
  <2>3. HalfOpen'
    BY <2>1 DEF CallsIInv, HalfOpen
  <2>4. \A t \in Terminals : CallInStep(call[t])'
    BY <2>1 DEF CallsIInv, CallInStep, Ahead, Open
  <2>5. CountsAtRest'
    BY <2>1 DEF CallsIInv, CountsAtRest, Live, Busy, Open
  <2> QED
    BY <1>0, <2>2, <2>3, <2>4, <2>5 DEF CallsIInv
<1> QED
  BY <1>1, <1>2, <1>3, <1>4, <1>5, <1>6, <1>7, <1>8, <1>9, <1>10, <1>11, <1>12
  DEF CallsNext

LEMMA InitInvariant == CallsInit => CallsIInv
<1> SUFFICES ASSUME CallsInit PROVE CallsIInv
  OBVIOUS
<1>1. CallsTypeOK
  BY InitTypes
<1>2. /\ call = [t \in Terminals |-> Idle]
      /\ file_array = [p \in Processes |-> FreshTable]
      /\ SizeCountsOpen
  BY InitCounted DEF CallsInit, Init, Counted
<1>3. \A t \in Terminals : call[t] = Idle
  BY <1>2
<1>4. Turns
  BY <1>3, IdleInStep DEF Turns, Stopped
<1>5. HalfOpen
  BY <1>2 DEF HalfOpen, FreshTable, Absent, Fd
<1>6. \A t \in Terminals : CallInStep(call[t])
  BY <1>3, IdleInStep
<1>7. CountsAtRest
  BY <1>2 DEF SizeCountsOpen, CountsAtRest
<1> QED
  BY <1>1, <1>4, <1>5, <1>6, <1>7 DEF CallsIInv

\* As long as programs take turns on a table and no read is overtaken by a
\* switch of the display, a call stopped by ticks anywhere finds what it left.
THEOREM CallsFindWhatTheyLeft ==
  ASSUME TakeTurns, SteadyDisplay
  PROVE  CallsSpec => []CallsIInv
<1>1. CallsIInv /\ [CallsNext]_callVars => CallsIInv'
  BY CallsStep
<1> QED
  BY <1>1, InitInvariant, PTL DEF CallsSpec

\* Then the count of every table at rest is exact, whoever opened, closed or
\* halted, in front or in the background, and wherever ticks stopped the calls.
THEOREM CountsExact ==
  ASSUME TakeTurns, SteadyDisplay
  PROVE  CallsSpec => []CountsAtRest
<1>1. CallsIInv => CountsAtRest
  BY DEF CallsIInv
<1> QED
  BY <1>1, CallsFindWhatTheyLeft, PTL

\* And the search of open, begun below the limit, ends at a free descriptor of
\* file_array, which is still free when the open marks it: fd never runs past
\* the array, and the call never ends in the page fault handler.
THEOREM SearchSucceeds ==
  ASSUME TakeTurns, SteadyDisplay
  PROVE  CallsSpec => [](\A t \in Terminals :
                           /\ call[t].at # "fault"
                           /\ call[t].at = "o_mark" => call[t].fd \in Fds \ Open(call[t].p))
<1>1. CallsIInv => \A t \in Terminals :
                     /\ call[t].at # "fault"
                     /\ call[t].at = "o_mark" => call[t].fd \in Fds \ Open(call[t].p)
  BY DEF CallsIInv, Turns, CallInStep, Stopped
<1> QED
  BY <1>1, CallsFindWhatTheyLeft, PTL

-----------------------------------------------------------------------------
(* What reads deliver *)

AtRaise == {"f_load", "f_store"}

\* Each descriptor of a file has delivered the bytes up to its position, or,
\* while a read stands between the copy and the new position, up to that.
DeliveredSoFar ==
  /\ \A p \in Processes, fd \in Fds :
       LET e == file_array[p][fd] IN
         e.kind = "file" =>
           /\ e.f_pos \in Nat
           /\ ~Raising(p, fd) => e.got = BytesTo(e.inode, e.f_pos)
  /\ \A t \in Terminals :
       LET c == call[t]
           e == file_array[c.p][c.fd]
       IN  c.at \in AtRaise =>
             LET n == IF c.at = "f_load" THEN e.f_pos + c.eax ELSE c.eax IN
               n \in Nat /\ e.got = BytesTo(e.inode, n)

\* The others in a call are on other tables.
LEMMA OthersElsewhere ==
  ASSUME CallsIInv, Mine.at # "user",
         NEW u \in Terminals, u # curr_scheduled, call[u].at # "user"
  PROVE  call[u].p # Mine.p /\ call[u].p \in Processes
BY InCall DEF CallsIInv, Turns, CallsTypeOK, Call

\* A step after which every descriptor of a file is as it was or has read
\* nothing, and which no read stands in the way of.
LEMMA NothingRead ==
  ASSUME CallsIInv, DeliveredSoFar, NEW s \in Terminals,
         \A u \in Terminals \ {s} : call'[u] = call[u],
         call[s].at \notin AtRaise, call'[s].at \notin AtRaise,
         \A u \in Terminals : call[u].at \in AtRaise =>
           file_array'[call[u].p] = file_array[call[u].p],
         \A p \in Processes, fd \in Fds :
           \/ file_array'[p][fd].kind # "file"
           \/ file_array'[p][fd] = file_array[p][fd]
           \/ file_array'[p][fd].f_pos = 0 /\ file_array'[p][fd].got = <<>>
  PROVE  DeliveredSoFar'
<1>1. \A i : BytesTo(i, 0) = <<>>
  BY DEF BytesTo
<1>2. \A u \in Terminals : call'[u].at \in AtRaise =>
        u # s /\ call'[u] = call[u] /\ file_array'[call[u].p] = file_array[call[u].p]
  OBVIOUS
<1>3. \A p \in Processes, fd \in Fds : Raising(p, fd) => Raising(p, fd)'
  BY DEF Raising, AtRaise
<1>4. ASSUME NEW p \in Processes, NEW fd \in Fds, file_array'[p][fd].kind = "file"
      PROVE  /\ file_array'[p][fd].f_pos \in Nat
             /\ ~Raising(p, fd)' =>
                  file_array'[p][fd].got =
                    BytesTo(file_array'[p][fd].inode, file_array'[p][fd].f_pos)
  <2>1. CASE file_array'[p][fd] = file_array[p][fd]
    BY <1>3, <1>4, <2>1 DEF DeliveredSoFar
  <2>2. CASE file_array'[p][fd].f_pos = 0 /\ file_array'[p][fd].got = <<>>
    BY <1>1, <2>2
  <2> QED
    BY <1>4, <2>1, <2>2
<1>5. ASSUME NEW t \in Terminals
      PROVE  (LET c == call[t]
                  e == file_array[c.p][c.fd]
              IN  c.at \in AtRaise =>
                    LET n == IF c.at = "f_load" THEN e.f_pos + c.eax ELSE c.eax IN
                      n \in Nat /\ e.got = BytesTo(e.inode, n))'
  <2>1. CASE call'[t].at \in AtRaise
    <3>1. call'[t] = call[t] /\ file_array'[call[t].p] = file_array[call[t].p]
      BY <1>2, <2>1
    <3> QED
      BY <2>1, <3>1 DEF DeliveredSoFar
  <2>2. CASE call'[t].at \notin AtRaise
    BY <2>2
  <2> QED
    BY <2>1, <2>2
<1> QED
  BY <1>4, <1>5 DEF DeliveredSoFar

\* A read of a file goes on: only its entry and its call matter.
LEMMA ReadsOn ==
  ASSUME CallsIInv, DeliveredSoFar, NEW s \in Terminals, s = curr_scheduled,
         Mine.at \in {"f_copy", "f_load", "f_store"},
         NEW P \in Processes, P = Mine.p, NEW fd \in Fds, fd = Mine.fd,
         \A u \in Terminals \ {s} : call'[u] = call[u],
         \A q \in Processes : q # P => file_array'[q] = file_array[q],
         \A d \in Fds : d # fd => file_array'[P][d] = file_array[P][d],
         call'[s].at \in AtRaise => call'[s].p = P /\ call'[s].fd = fd,
         NEW e, e = file_array'[P][fd], e.f_pos \in Nat,
         call'[s].at \notin AtRaise => e.got = BytesTo(e.inode, e.f_pos),
         call'[s].at \in AtRaise =>
           LET n == IF call'[s].at = "f_load" THEN e.f_pos + call'[s].eax ELSE call'[s].eax
           IN  n \in Nat /\ e.got = BytesTo(e.inode, n)
  PROVE  DeliveredSoFar'
<1>0. Mine = call[s] /\ Mine.at # "user"
  BY DEF Mine
<1>1. \A u \in Terminals : u # s /\ call[u].at \in AtRaise =>
        call[u].p \in Processes /\ call[u].p # P /\ file_array'[call[u].p] = file_array[call[u].p]
  BY <1>0, OthersElsewhere DEF AtRaise
<1>2. ASSUME NEW p \in Processes, NEW d \in Fds, file_array'[p][d].kind = "file"
      PROVE  /\ file_array'[p][d].f_pos \in Nat
             /\ ~Raising(p, d)' =>
                  file_array'[p][d].got =
                    BytesTo(file_array'[p][d].inode, file_array'[p][d].f_pos)
  <2>1. CASE p = P /\ d = fd
    <3>1. call'[s].at \in AtRaise => Raising(p, d)'
      BY <2>1 DEF Raising, AtRaise
    <3> QED
      BY <2>1, <3>1
  <2>2. CASE ~(p = P /\ d = fd)
    <3>1. file_array'[p][d] = file_array[p][d]
      BY <2>2
    <3>2. Raising(p, d) => Raising(p, d)'
      BY <1>0, <2>2 DEF Raising, AtRaise
    <3> QED
      BY <1>2, <3>1, <3>2 DEF DeliveredSoFar
  <2> QED
    BY <2>1, <2>2
<1>3. ASSUME NEW t \in Terminals
      PROVE  (LET c == call[t]
                  h == file_array[c.p][c.fd]
              IN  c.at \in AtRaise =>
                    LET n == IF c.at = "f_load" THEN h.f_pos + c.eax ELSE c.eax IN
                      n \in Nat /\ h.got = BytesTo(h.inode, n))'
  <2>1. CASE t = s
    BY <2>1
  <2>2. CASE t # s /\ call[t].at \in AtRaise
    <3>1. call'[t] = call[t] /\ file_array'[call[t].p] = file_array[call[t].p]
      BY <1>1, <2>2
    <3> QED
      BY <2>2, <3>1 DEF DeliveredSoFar
  <2>3. CASE t # s /\ call[t].at \notin AtRaise
    BY <2>3
  <2> QED
    BY <2>1, <2>2, <2>3
<1> QED
  BY <1>2, <1>3 DEF DeliveredSoFar

\* The three steps that move a file's position.
LEMMA PositionStep ==
  ASSUME CallsIInv, DeliveredSoFar, FileCopy \/ FileLoad \/ FileStore
  PROVE  DeliveredSoFar'
<1>0. /\ CallsTypeOK /\ Mine.at \in {"f_copy", "f_load", "f_store"} /\ Mine.at \in ReadPoints
      /\ Mine.at # "user"
  BY DEF CallsIInv, FileCopy, FileLoad, FileStore, ReadPoints
<1>1. PICK s \in Terminals : s = curr_scheduled /\ Mine = call[s]
  BY <1>0, InCall
<1>2. PICK P \in Processes : P = Mine.p
  BY <1>0, InCall
<1>3. PICK fd \in Fds : fd = Mine.fd
  BY <1>0, InCall DEF CallOK
<1>4. PICK h : h = file_array[P][fd]
  OBVIOUS
<1>5. /\ h = Held /\ h.kind = "file" /\ DOMAIN h = {"kind", "inode", "f_pos", "got"}
      /\ h.inode \in Inodes /\ h.f_pos \in Nat /\ Mine.arg \in Nat
  <2>1. h = Held
    BY <1>2, <1>3, <1>4 DEF Held
  <2>2. h.kind = "file"
    BY <1>0, <1>2, <1>3, <1>4, InCall DEF CallInStep
  <2>3. EntryOK(h)
    BY <1>0, <1>4, TypedLookups
  <2>4. DOMAIN h = {"kind", "inode", "f_pos", "got"} /\ h.inode \in Inodes
    BY <2>2, <2>3 DEF EntryOK
  <2>5. h.f_pos \in Nat
    BY <1>2, <1>3, <1>4, <2>2 DEF DeliveredSoFar
  <2>6. Mine.arg \in Nat
    BY <1>0, InCall DEF CallOK
  <2> QED
    BY <2>1, <2>2, <2>4, <2>5, <2>6
<1>6. CASE FileCopy
  <2> DEFINE bytes == ReadData(h.inode, h.f_pos, Mine.arg)
             e == [h EXCEPT !.got = @ \o bytes]
             c == [MineAt("f_load") EXCEPT !.eax = Len(bytes)]
  <2>1. Put(e) /\ Continue(c) /\ Mine.at = "f_copy"
    BY <1>5, <1>6 DEF FileCopy, Carry
  <2>2. ~Raising(P, fd)
    BY <1>0, <1>1, <1>2, <2>1, OthersElsewhere DEF Raising
  <2>3. h.got = BytesTo(h.inode, h.f_pos)
    BY <1>4, <1>5, <2>2 DEF DeliveredSoFar
  <2>4. PICK m \in Nat : bytes = [k \in 1 .. m |-> ByteOf(h.inode, h.f_pos + k - 1)]
    <3> DEFINE i == h.inode
               f == h.f_pos
               n == Mine.arg
    <3>1. i \in Inodes /\ f \in Nat /\ n \in Nat
      BY <1>5
    <3> HIDE DEF i, f, n
    <3>2. \E m \in Nat : ReadData(i, f, n) = [k \in 1 .. m |-> ByteOf(i, f + k - 1)]
      BY <3>1, ReadDataReturns
    <3> QED
      BY <3>2 DEF bytes, i, f, n
  <2> HIDE DEF bytes
  <2>5. Len(bytes) = m /\ h.got \o bytes = BytesTo(h.inode, h.f_pos + m)
    <3> DEFINE i == h.inode
               f == h.f_pos
    <3>1. f \in Nat
      BY <1>5
    <3> HIDE DEF i, f
    <3>2. /\ Len([k \in 1 .. m |-> ByteOf(i, f + k - 1)]) = m
          /\ BytesTo(i, f) \o [k \in 1 .. m |-> ByteOf(i, f + k - 1)] = BytesTo(i, f + m)
      BY <3>1, BytesFollow
    <3> QED
      BY <2>3, <2>4, <3>2 DEF i, f
  <2>6. e.inode = h.inode /\ e.f_pos = h.f_pos /\ e.got = h.got \o bytes
    BY <1>5
  <2>7. c.at = "f_load" /\ c.p = P /\ c.fd = fd /\ c.eax = m
    BY <1>0, <1>2, <1>3, <2>5, CallMoved DEF Points, ReadPoints
  <2>8. h.f_pos + m \in Nat
    BY <1>5
  <2> HIDE DEF e, c
  <2>9. /\ \A q \in Processes : q # P => file_array'[q] = file_array[q]
        /\ \A d \in Fds : d # fd => file_array'[P][d] = file_array[P][d]
        /\ file_array'[P][fd] = e
    BY <1>0, <1>2, <1>3, <2>1, PutDone
  <2>10. call'[s] = c /\ \A u \in Terminals \ {s} : call'[u] = call[u]
    BY <1>0, <1>1, <2>1, Continued
  <2>11. e.f_pos \in Nat /\ e.got = BytesTo(e.inode, e.f_pos + c.eax)
         /\ e.f_pos + c.eax \in Nat
    BY <1>5, <2>5, <2>6, <2>7, <2>8
  <2> QED
    BY <1>0, <1>1, <1>2, <1>3, <2>7, <2>9, <2>10, <2>11, ReadsOn DEF AtRaise
<1>7. CASE FileLoad
  <2>1. PICK c : /\ c = [MineAt("f_store") EXCEPT !.eax = h.f_pos + Mine.eax]
                 /\ Continue(c) /\ file_array' = file_array /\ Mine.at = "f_load"
    BY <1>5, <1>7 DEF FileLoad, Carry, vars
  <2>2. c.at = "f_store" /\ c.p = P /\ c.fd = fd /\ c.eax = h.f_pos + Mine.eax
    BY <1>0, <1>2, <1>3, <2>1, CallMoved DEF Points, ReadPoints
  <2>3. h.f_pos + Mine.eax \in Nat /\ h.got = BytesTo(h.inode, h.f_pos + Mine.eax)
    BY <1>1, <1>2, <1>3, <1>4, <2>1 DEF DeliveredSoFar, AtRaise
  <2>4. call'[s] = c /\ \A u \in Terminals \ {s} : call'[u] = call[u]
    BY <1>0, <1>1, <2>1, Continued
  <2> QED
    <3>1. PICK e : e = file_array'[P][fd]
      OBVIOUS
    <3>2. e = h
      BY <1>4, <2>1, <3>1
    <3>3. /\ call'[s].at = "f_store" /\ call'[s].p = P /\ call'[s].fd = fd
          /\ call'[s].eax \in Nat /\ e.got = BytesTo(e.inode, call'[s].eax)
          /\ e.f_pos \in Nat
      BY <1>5, <2>2, <2>3, <2>4, <3>2
    <3>4. /\ \A q \in Processes : q # P => file_array'[q] = file_array[q]
          /\ \A d \in Fds : d # fd => file_array'[P][d] = file_array[P][d]
      BY <2>1
    <3> QED
      BY <1>0, <1>1, <1>2, <1>3, <2>4, <3>1, <3>3, <3>4, ReadsOn DEF AtRaise
<1>8. CASE FileStore
  <2> DEFINE e == [h EXCEPT !.f_pos = Mine.eax]
  <2>1. Put(e) /\ Continue(Idle) /\ Mine.at = "f_store"
    BY <1>5, <1>8 DEF FileStore, Leave
  <2>2. Mine.eax \in Nat /\ h.got = BytesTo(h.inode, Mine.eax)
    BY <1>1, <1>2, <1>3, <1>4, <2>1 DEF DeliveredSoFar, AtRaise
  <2>3. e.inode = h.inode /\ e.f_pos = Mine.eax /\ e.got = h.got
    BY <1>5
  <2> HIDE DEF e
  <2>4. /\ \A q \in Processes : q # P => file_array'[q] = file_array[q]
        /\ \A d \in Fds : d # fd => file_array'[P][d] = file_array[P][d]
        /\ file_array'[P][fd] = e
    BY <1>0, <1>2, <1>3, <2>1, PutDone
  <2>5. call'[s] = Idle /\ \A u \in Terminals \ {s} : call'[u] = call[u]
    BY <1>0, <1>1, <2>1, Continued
  <2>6. e.f_pos \in Nat /\ e.got = BytesTo(e.inode, e.f_pos)
    BY <2>2, <2>3
  <2>7. Idle.at \notin AtRaise
    BY IdleInStep DEF AtRaise
  <2> QED
    BY <1>0, <1>1, <1>2, <1>3, <2>4, <2>5, <2>6, <2>7, ReadsOn
<1> QED
  BY <1>6, <1>7, <1>8

\* A step that leaves the tables alone, and is none of a read's last ones.
LEMMA EntriesKept ==
  ASSUME CallsIInv, DeliveredSoFar, file_array' = file_array, NEW c, Continue(c),
         Mine.at \notin AtRaise, c.at \notin AtRaise
  PROVE  DeliveredSoFar'
<1>1. PICK s \in Terminals : s = curr_scheduled
  BY DEF CallsIInv, CallsTypeOK
<1>2. call'[s] = c /\ call[s] = Mine /\ \A u \in Terminals \ {s} : call'[u] = call[u]
  BY <1>1, Continued DEF CallsIInv, Mine
<1> QED
  BY <1>2, NothingRead

\* A step that puts in hand an entry that has read nothing.
LEMMA EntryPut ==
  ASSUME CallsIInv, DeliveredSoFar, Mine.at \notin AtRaise \cup {"user"}, Mine.fd \in Fds,
         NEW e, Put(e), e.kind # "file" \/ (e.f_pos = 0 /\ e.got = <<>>),
         NEW c, Continue(c), c.at \notin AtRaise
  PROVE  DeliveredSoFar'
<1>1. PICK s \in Terminals : s = curr_scheduled
  BY DEF CallsIInv, CallsTypeOK
<1>2. call'[s] = c /\ call[s] = Mine /\ \A u \in Terminals \ {s} : call'[u] = call[u]
  BY <1>1, Continued DEF CallsIInv, Mine
<1>3. /\ \A q \in Processes : q # Mine.p => file_array'[q] = file_array[q]
      /\ \A p \in Processes, fd \in Fds :
           file_array'[p][fd] = IF p = Mine.p /\ fd = Mine.fd THEN e ELSE file_array[p][fd]
  BY PutDone DEF CallsIInv
<1>4. \A u \in Terminals : call[u].at \in AtRaise =>
        file_array'[call[u].p] = file_array[call[u].p]
  BY <1>1, <1>2, <1>3, OthersElsewhere DEF AtRaise
<1> QED
  BY <1>2, <1>3, <1>4, NothingRead

\* A program starts or ends.
LEMMA ProgramReads ==
  ASSUME CallsIInv, DeliveredSoFar, TakeTurns, InitTable \/ EndProgram \/ EndShell
  PROVE  DeliveredSoFar'
<1>0. CallsTypeOK /\ Absent.kind = "none"
  BY DEF CallsIInv, Absent, Fd
<1>1. CASE InitTable
  <2>1. PICK s \in Terminals : s = curr_scheduled /\ Mine = call[s] /\ Mine.at = "x_table"
    BY <1>0, <1>1, InCall DEF InitTable
  <2>2. call'[s] = Idle /\ \A u \in Terminals \ {s} : call'[u] = call[u]
    BY <1>0, <1>1, <2>1, Continued DEF InitTable, Leave
  <2>3. /\ \A p \in Processes : p # Mine.p => file_array'[p] = file_array[p]
        /\ \A fd \in Fds : file_array'[Mine.p][fd] = Absent
    BY <1>0, <1>1, TableMade
  <2>4. \A u \in Terminals : call[u].at \in AtRaise =>
          file_array'[call[u].p] = file_array[call[u].p]
    BY <2>1, <2>3, OthersElsewhere DEF AtRaise
  <2>5. \A p \in Processes, fd \in Fds :
          file_array'[p][fd].kind # "file" \/ file_array'[p][fd] = file_array[p][fd]
    BY <1>0, <2>3
  <2> QED
    BY <2>1, <2>2, <2>4, <2>5, IdleInStep, NothingRead DEF AtRaise
<1>2. ASSUME NEW d \in 1 .. MaxDepth, HaltAt(d), ~Busy(Displayed), ~Busy(Caller),
             NEW s \in Terminals, call[s].at = "user", call'[s].at \notin AtRaise,
             \A u \in Terminals \ {s} : call'[u] = call[u]
      PROVE  DeliveredSoFar'
  <2>1. /\ \A p \in Processes : p \notin {Caller, Displayed} => file_array'[p] = file_array[p]
        /\ \A p \in Processes, fd \in Fds :
             file_array'[p][fd] = Absent \/ file_array'[p][fd] = file_array[p][fd]
    BY <1>0, <1>2, HaltChanges
  <2>2. \A u \in Terminals : call[u].p \in Processes
    BY <1>0 DEF CallsTypeOK, Call
  <2>3. \A u \in Terminals : call[u].at \in AtRaise =>
          file_array'[call[u].p] = file_array[call[u].p]
    BY <1>2, <2>1, <2>2 DEF Busy, AtRaise
  <2>4. call[s].at \notin AtRaise
    BY <1>2 DEF AtRaise
  <2> QED
    BY <1>0, <1>2, <2>1, <2>3, <2>4, NothingRead
<1>3. CASE EndProgram
  <2>1. PICK s \in Terminals : s = curr_scheduled
    BY <1>0 DEF CallsTypeOK
  <2>2. /\ depth[curr_scheduled] - 1 \in 1 .. MaxDepth /\ HaltAt(depth[curr_scheduled] - 1)
        /\ call' = call /\ call[s].at = "user" /\ ~Busy(Displayed) /\ ~Busy(Caller)
    BY <1>0, <1>3, <2>1, SizesAssumption
    DEF EndProgram, HaltChild, MayEnd, MayBegin, CallsTypeOK, Mine
  <2> QED
    BY <1>2, <2>2 DEF AtRaise
<1>4. CASE EndShell
  <2> DEFINE c == [at |-> "x_table", p |-> Caller, fd |-> 0, arg |-> 0, eax |-> 0]
  <2>1. PICK s \in Terminals : s = curr_scheduled
    BY <1>0 DEF CallsTypeOK
  <2>2. /\ 1 \in 1 .. MaxDepth /\ HaltAt(1) /\ Continue(c)
        /\ call[s].at = "user" /\ ~Busy(Displayed) /\ ~Busy(Caller)
    BY <1>4, <2>1, SizesAssumption DEF EndShell, MayEnd, MayBegin, Mine, Begin
  <2>3. c.at = "x_table"
    OBVIOUS
  <2> HIDE DEF c
  <2>4. call'[s] = c /\ \A u \in Terminals \ {s} : call'[u] = call[u]
    BY <1>0, <2>1, <2>2, Continued
  <2> QED
    BY <1>2, <2>2, <2>3, <2>4 DEF AtRaise
<1> QED
  BY <1>1, <1>3, <1>4

\* Only the last steps of a read deliver anything.
LEMMA DeliveredStep ==
  ASSUME CallsIInv, TakeTurns, DeliveredSoFar, [CallsNext]_callVars
  PROVE  DeliveredSoFar'
<1>0. CallsTypeOK /\ Idle.at \notin AtRaise
  BY IdleInStep DEF CallsIInv, AtRaise
<1>1. \A x \in Points \ AtRaise :
        /\ MineAt(x).at \notin AtRaise
        /\ \A v : [MineAt(x) EXCEPT !.eax = v].at \notin AtRaise
        /\ \A v : [MineAt(x) EXCEPT !.fd = v].at \notin AtRaise
        /\ \A v : [MineAt(x) EXCEPT !.p = v].at \notin AtRaise
  BY <1>0, CallMoved
<1>2. \A x \in Points : x \notin AtRaise <=> x # "f_load" /\ x # "f_store"
  BY DEF AtRaise
<1>3. ASSUME file_array' = file_array, call' = call PROVE DeliveredSoFar'
  BY <1>3 DEF DeliveredSoFar, Raising
<1>4. CASE \E t \in Terminals : Tick(t)
  BY <1>3, <1>4 DEF Tick
<1>5. CASE \/ \E k \in 1 .. NumEntries : OpenBegins(k)
           \/ \E fd \in Fds : CloseBegins(fd) \/ \E n \in ReadSizes : ReadBegins(fd, n)
           \/ Launch
  <2>1. PICK c : /\ Continue(c) /\ c.at \in {"o_limit", "c_check", "r_check", "x_table"}
                 /\ file_array' = file_array /\ Mine.at = "user"
    BY <1>5 DEF OpenBegins, CloseBegins, ReadBegins, Launch, Begin, MayBegin, vars
  <2> QED
    BY <2>1, EntriesKept DEF AtRaise
<1>6. CASE OpenLimit \/ OpenLoad \/ OpenStore \/ OpenInit \/ CloseCheck \/ CloseLoad \/ CloseStore
  <2>1. /\ file_array' = file_array
        /\ Mine.at \in OpenPoints \cup ClosePoints
    BY <1>6 DEF OpenLimit, OpenLoad, OpenStore, OpenInit, CloseCheck, CloseLoad, CloseStore,
                vars, OpenPoints, ClosePoints
  <2>2. \E c : Continue(c) /\ c.at \notin AtRaise
    <3>1. {"o_search", "o_store", "o_init", "fault", "c_load", "c_store", "c_clear"}
            \subseteq Points \ AtRaise
      BY DEF Points, OpenPoints, ClosePoints, Stopped, AtRaise
    <3> QED
      BY <1>0, <1>1, <1>6, <3>1
      DEF OpenLimit, OpenLoad, OpenStore, OpenInit, CloseCheck, CloseLoad, CloseStore,
          MoveTo, Carry, Leave
  <2>3. Mine.at \notin AtRaise
    BY <2>1 DEF AtRaise, OpenPoints, ClosePoints
  <2> QED
    BY <2>1, <2>2, <2>3, EntriesKept
<1>7. CASE OpenSearch \/ FileLook
  <2>1. file_array' = file_array /\ Mine.at \notin AtRaise
    BY <1>7 DEF OpenSearch, FileLook, vars, AtRaise
  <2>2. \E c : Continue(c) /\ c.at \notin AtRaise
    <3>1. {"o_mark", "f_copy"} \subseteq Points \ AtRaise
      BY DEF Points, OpenPoints, ReadPoints, AtRaise
    <3> QED
      BY <1>1, <1>7, <3>1 DEF OpenSearch, FileLook
  <2> QED
    BY <2>1, <2>2, EntriesKept
<1>8. CASE ReadCheck \/ DirCheck \/ DirLoad \/ DirStore
  <2>1. file_array' = file_array /\ Mine.at \in ReadPoints /\ Mine.at \notin AtRaise
    BY <1>8 DEF ReadCheck, DirCheck, DirLoad, DirStore, vars, AtRaise, ReadPoints
  <2>2. \E c : Continue(c) /\ c.at \notin AtRaise
    <3>1. {"astray", "d_check", "f_look", "d_name", "d_store"} \subseteq Points \ AtRaise
      BY DEF Points, ReadPoints, Stopped, AtRaise
    <3>2. ReadCheck => EntryOK(Held)
      BY <1>0, <2>1, TypedLookups DEF Held, CallOK, Call
    <3>3. ReadCheck => Held.kind \in {"none", "rtc", "half", "dir", "file"}
      BY <3>2 DEF EntryOK, Kinds
    <3>4. ASSUME ReadCheck PROVE \E c : Continue(c) /\ c.at \notin AtRaise
      BY <1>0, <1>1, <3>1, <3>3, <3>4 DEF ReadCheck
    <3> QED
      BY <1>0, <1>1, <1>8, <3>1, <3>4 DEF DirCheck, DirLoad, DirStore, MoveTo, Carry, Leave
  <2> QED
    BY <2>1, <2>2, EntriesKept
<1>9. CASE OpenMark \/ OpenFill \/ CloseClear
  <2>1. /\ Mine.at \in {"o_mark", "o_fill", "c_clear"}
        /\ Mine.at \notin AtRaise \cup {"user"}
    BY <1>9 DEF OpenMark, OpenFill, CloseClear, AtRaise
  <2>2. Mine.fd \in Fds
    BY <2>1, InCall DEF CallInStep, CallOK, ClosePoints
  <2>3. \E e : Put(e) /\ (e.kind # "file" \/ (e.f_pos = 0 /\ e.got = <<>>))
    <3>1. ASSUME NEW k \in 1 .. NumEntries
          PROVE  KindOf(Entries[k]).f_pos = 0 /\ KindOf(Entries[k]).got = <<>>
      <4>1. Entries[k].type \in {0, 1, 2}
        BY ImageAssumption
      <4> QED
        BY <4>1 DEF KindOf, Fd
    <3>2. Mine.at = "o_fill" => Mine.arg \in 1 .. NumEntries
      BY InCall DEF CallOK, OpenPoints
    <3>3. Fd("half", 0).kind # "file" /\ Absent.kind # "file"
      BY DEF Absent, Fd
    <3> QED
      BY <1>9, <3>1, <3>2, <3>3 DEF OpenMark, OpenFill, CloseClear
  <2>4. \E c : Continue(c) /\ c.at \notin AtRaise
    <3>1. {"o_fill", "astray", "o_load"} \subseteq Points \ AtRaise
      BY DEF Points, OpenPoints, Stopped, AtRaise
    <3> QED
      BY <1>0, <1>1, <1>9, <3>1 DEF OpenMark, OpenFill, CloseClear, MoveTo, Leave
  <2> QED
    BY <2>1, <2>2, <2>3, <2>4, EntryPut
<1>10. CASE DirName
  <2>1. Mine.at = "d_name" /\ Mine.at \notin AtRaise \cup {"user"}
    BY <1>10 DEF DirName, AtRaise
  <2>2. Mine.fd \in Fds /\ Held.kind = "dir" /\ EntryOK(Held)
    BY <1>0, <2>1, InCall, TypedLookups DEF CallInStep, CallOK, ReadPoints, Held
  <2>3. PICK e : Put(e) /\ e.kind # "file"
    <3> DEFINE h == Held
    <3> HIDE DEF h
    <3>1. [h EXCEPT !.got = Append(@, dir_index)].kind # "file" /\ h.kind # "file"
      BY <2>2 DEF h, EntryOK
    <3> QED
      BY <1>10, <3>1 DEF DirName, h
  <2>4. \E c : Continue(c) /\ c.at \notin AtRaise
    <3>1. "d_load" \in Points \ AtRaise
      BY DEF Points, ReadPoints, AtRaise
    <3> QED
      BY <1>0, <1>1, <1>10, <3>1 DEF DirName
  <2> QED
    BY <2>1, <2>2, <2>3, <2>4, EntryPut
<1>11. CASE FileCopy \/ FileLoad \/ FileStore
  BY <1>11, PositionStep
<1>12. CASE InitTable \/ EndProgram \/ EndShell
  BY <1>12, ProgramReads
<1>13. CASE UNCHANGED callVars
  BY <1>3, <1>13 DEF callVars, vars
<1> QED
  BY <1>4, <1>5, <1>6, <1>7, <1>8, <1>9, <1>10, <1>11, <1>12, <1>13
  DEF CallsNext, OpenStep, CloseStep, ReadStep

\* Then the reads of a descriptor return the bytes of its file in order and
\* without a gap, for any block size, block lists, file lengths and sizes of
\* reads, wherever ticks stop them and whatever else is opened, closed, read or
\* halted in between.
THEOREM ReadsAreInOrder ==
  ASSUME TakeTurns, SteadyDisplay
  PROVE  CallsSpec => []ReadInOrder
<1>1. CallsInit => DeliveredSoFar
  <2> SUFFICES ASSUME CallsInit PROVE DeliveredSoFar
    OBVIOUS
  <2>1. /\ \A t \in Terminals : call[t] = Idle
        /\ \A p \in Processes, fd \in Fds : file_array[p][fd].kind # "file"
    BY DEF CallsInit, Init, FreshTable, Absent, Fd
  <2> QED
    BY <2>1, IdleInStep DEF DeliveredSoFar, AtRaise
<1>2. CallsIInv /\ DeliveredSoFar /\ [CallsNext]_callVars => DeliveredSoFar'
  BY DeliveredStep
<1>3. ASSUME CallsIInv, DeliveredSoFar
      PROVE  ReadInOrder
  <2> SUFFICES ASSUME NEW p \in Processes, NEW fd \in Fds, file_array[p][fd].kind = "file"
               PROVE  LET e == file_array[p][fd] IN
                        /\ ~Raising(p, fd) => Len(e.got) = e.f_pos
                        /\ \A k \in 1 .. Len(e.got) : e.got[k] = ByteOf(e.inode, k - 1)
    BY DEF ReadInOrder
  <2> DEFINE e == file_array[p][fd]
  <2>1. \E n \in Nat : /\ e.got = BytesTo(e.inode, n)
                       /\ ~Raising(p, fd) => n = e.f_pos
    <3>1. CASE Raising(p, fd)
      BY <1>3, <3>1 DEF DeliveredSoFar, Raising, AtRaise
    <3>2. CASE ~Raising(p, fd)
      BY <1>3, <3>2 DEF DeliveredSoFar
    <3> QED
      BY <3>1, <3>2
  <2> QED
    BY <2>1 DEF BytesTo
<1> QED
  BY <1>1, <1>2, <1>3, CallsFindWhatTheyLeft, PTL DEF CallsSpec

-----------------------------------------------------------------------------
(* One reader of the directory *)

ListPoints == {"d_name", "d_load", "d_store"}
MovePoints == {"o_load", "o_store", "o_init", "d_load", "d_store"}

\* What n reads of the directory return.
Listed(n) == [k \in 1 .. n |-> k - 1]

OpeningDir(c) == c.at \in OpenPoints /\ Entries[c.arg].type = 1
Moving(p, fd) ==
  \E t \in Terminals : call[t].at \in MovePoints /\ call[t].p = p /\ call[t].fd = fd

\* One descriptor is open on the directory or being opened, and dir_index is the
\* number of entries it has returned, but between the last steps of a call.
OneListing ==
  /\ \A t, u \in Terminals : OpeningDir(call[t]) /\ OpeningDir(call[u]) => t = u
  /\ \A p, q \in Processes, fd, gd \in Fds :
       file_array[p][fd].kind = "dir" /\ file_array[q][gd].kind = "dir"
         => p = q /\ fd = gd
  /\ \A t \in Terminals, p \in Processes, fd \in Fds :
       OpeningDir(call[t]) /\ file_array[p][fd].kind = "dir"
         => call[t].at \in MovePoints /\ p = call[t].p /\ fd = call[t].fd
  /\ \A p \in Processes, fd \in Fds :
       LET e == file_array[p][fd] IN
         e.kind = "dir" =>
           /\ e.got = Listed(Len(e.got))
           /\ ~Moving(p, fd) => Len(e.got) = dir_index /\ dir_index \in 0 .. NumEntries
  /\ \A t \in Terminals :
       LET c == call[t]
           e == file_array[c.p][c.fd]
       IN  /\ c.at = "d_name" => dir_index < NumEntries
           /\ c.at \in {"d_load", "d_store"} =>
                Len(e.got) = dir_index + 1 /\ dir_index \in 0 .. NumEntries - 1
           /\ c.at = "d_store" => c.eax = dir_index

\* Nobody has the directory open.
LEMMA NobodyLists ==
  ASSUME \A t, u \in Terminals :
           (OpeningDir(call[t]) /\ OpeningDir(call[u]))' => t = u,
         \A p \in Processes, fd \in Fds : file_array'[p][fd].kind # "dir",
         \A t \in Terminals : call'[t].at \notin ListPoints
  PROVE  OneListing'
BY DEF OneListing, ListPoints

\* A step that opens no directory, moves no listing and leaves the descriptor
\* open on the directory as it is, or closes it.
LEMMA SameListing ==
  ASSUME OneListing, dir_index' = dir_index, NEW s \in Terminals,
         \A u \in Terminals \ {s} : call'[u] = call[u],
         \A p \in Processes, fd \in Fds :
           file_array'[p][fd].kind = "dir" => file_array'[p][fd] = file_array[p][fd],
         \A u \in Terminals \ {s} : call[u].at \in ListPoints =>
           file_array'[call[u].p] = file_array[call[u].p],
         OpeningDir(call'[s]) =>
           /\ OpeningDir(call[s])
           /\ call[s].at \in MovePoints =>
                call'[s].at \in MovePoints /\ call'[s].p = call[s].p /\ call'[s].fd = call[s].fd,
         \A p \in Processes, fd \in Fds :
           call[s].at \in MovePoints /\ call[s].p = p /\ call[s].fd = fd
           /\ file_array'[p][fd].kind = "dir"
             => call'[s].at \in MovePoints /\ call'[s].p = p /\ call'[s].fd = fd,
         call'[s].at \notin {"d_load", "d_store"},
         call'[s].at = "d_name" => dir_index < NumEntries
  PROVE  OneListing'
<1>1. \A u \in Terminals : OpeningDir(call'[u]) => OpeningDir(call[u])
  OBVIOUS
<1>2. (\A t, u \in Terminals : OpeningDir(call[t]) /\ OpeningDir(call[u]) => t = u)'
  BY <1>1 DEF OneListing
<1>3. (\A p, q \in Processes, fd, gd \in Fds :
         file_array[p][fd].kind = "dir" /\ file_array[q][gd].kind = "dir"
           => p = q /\ fd = gd)'
  BY DEF OneListing
<1>4. (\A t \in Terminals, p \in Processes, fd \in Fds :
         OpeningDir(call[t]) /\ file_array[p][fd].kind = "dir"
           => call[t].at \in MovePoints /\ p = call[t].p /\ fd = call[t].fd)'
  <2> SUFFICES ASSUME NEW t \in Terminals, NEW p \in Processes, NEW fd \in Fds,
                      OpeningDir(call'[t]), file_array'[p][fd].kind = "dir"
               PROVE  call'[t].at \in MovePoints /\ p = call'[t].p /\ fd = call'[t].fd
    OBVIOUS
  <2>1. OpeningDir(call[t]) /\ file_array[p][fd].kind = "dir"
    BY <1>1
  <2>2. call[t].at \in MovePoints /\ p = call[t].p /\ fd = call[t].fd
    BY <2>1 DEF OneListing
  <2> QED
    BY <2>2
<1>5. ASSUME NEW p \in Processes, NEW fd \in Fds, file_array'[p][fd].kind = "dir"
      PROVE  LET e == file_array'[p][fd] IN
             /\ e.got = Listed(Len(e.got))
             /\ ~Moving(p, fd)' => Len(e.got) = dir_index /\ dir_index \in 0 .. NumEntries
  <2>1. Moving(p, fd) => Moving(p, fd)'
    BY <1>5 DEF Moving
  <2> QED
    BY <1>5, <2>1 DEF OneListing
<1>6. ASSUME NEW t \in Terminals
      PROVE  LET c == call'[t]
                 e == file_array'[c.p][c.fd]
             IN  /\ c.at = "d_name" => dir_index < NumEntries
                 /\ c.at \in {"d_load", "d_store"} =>
                      Len(e.got) = dir_index + 1 /\ dir_index \in 0 .. NumEntries - 1
                 /\ c.at = "d_store" => c.eax = dir_index
  <2>1. CASE t = s
    BY <2>1
  <2>2. CASE t # s
    <3>1. call'[t] = call[t]
      BY <2>2
    <3>2. call[t].at \in ListPoints => file_array'[call[t].p] = file_array[call[t].p]
      BY <2>2
    <3> QED
      BY <3>1, <3>2 DEF OneListing, ListPoints
  <2> QED
    BY <2>1, <2>2
<1> QED
  BY <1>2, <1>3, <1>4, <1>5, <1>6 DEF OneListing

\* A step of the one terminal that opens or lists the directory.
LEMMA OnlyListing ==
  ASSUME NEW s \in Terminals, NEW P \in Processes, NEW fd \in Fds,
         \A u \in Terminals \ {s} : ~OpeningDir(call'[u]) /\ call'[u].at \notin ListPoints,
         \A p \in Processes, gd \in Fds :
           file_array'[p][gd].kind = "dir" => p = P /\ gd = fd,
         call'[s].at \in MovePoints => call'[s].p = P /\ call'[s].fd = fd,
         OpeningDir(call'[s]) => call'[s].at \in MovePoints,
         call'[s].at # "d_name",
         NEW e, e = file_array'[P][fd],
         e.got = Listed(Len(e.got)),
         call'[s].at \notin MovePoints =>
           Len(e.got) = dir_index' /\ dir_index' \in 0 .. NumEntries,
         call'[s].at \in {"d_load", "d_store"} =>
           Len(e.got) = dir_index' + 1 /\ dir_index' \in 0 .. NumEntries - 1,
         call'[s].at = "d_store" => call'[s].eax = dir_index'
  PROVE  OneListing'
<1>1. (\A t, u \in Terminals : OpeningDir(call[t]) /\ OpeningDir(call[u]) => t = u)'
  OBVIOUS
<1>2. (\A p, q \in Processes, gd, hd \in Fds :
         file_array[p][gd].kind = "dir" /\ file_array[q][hd].kind = "dir"
           => p = q /\ gd = hd)'
  OBVIOUS
<1>3. (\A t \in Terminals, p \in Processes, gd \in Fds :
         OpeningDir(call[t]) /\ file_array[p][gd].kind = "dir"
           => call[t].at \in MovePoints /\ p = call[t].p /\ gd = call[t].fd)'
  OBVIOUS
<1>4. ASSUME NEW p \in Processes, NEW gd \in Fds, file_array'[p][gd].kind = "dir"
      PROVE  LET h == file_array'[p][gd] IN
             /\ h.got = Listed(Len(h.got))
             /\ ~Moving(p, gd)' => Len(h.got) = dir_index' /\ dir_index' \in 0 .. NumEntries
  <2>1. p = P /\ gd = fd
    BY <1>4
  <2>2. call'[s].at \in MovePoints => Moving(p, gd)'
    BY <2>1 DEF Moving
  <2> QED
    BY <2>1, <2>2
<1>5. ASSUME NEW t \in Terminals
      PROVE  LET c == call'[t]
                 h == file_array'[c.p][c.fd]
             IN  /\ c.at = "d_name" => dir_index' < NumEntries
                 /\ c.at \in {"d_load", "d_store"} =>
                      Len(h.got) = dir_index' + 1 /\ dir_index' \in 0 .. NumEntries - 1
                 /\ c.at = "d_store" => c.eax = dir_index'
  BY <1>5 DEF ListPoints, MovePoints
<1> QED
  BY <1>1, <1>2, <1>3, <1>4, <1>5 DEF OneListing

\* Who lists the directory, or is opening it, is the only one.
LEMMA OneLists ==
  ASSUME CallsIInv, OneListing, Mine.at # "user",
         OpeningDir(Mine) \/ (Mine.fd \in Fds /\ Held.kind = "dir"),
         NEW u \in Terminals, u # curr_scheduled
  PROVE  ~OpeningDir(call[u]) /\ call[u].at \notin ListPoints
<1>1. PICK s \in Terminals : s = curr_scheduled /\ Mine = call[s]
  BY InCall
<1>2. Mine.p \in Processes /\ call[u].p \in Processes
  BY InCall DEF CallsIInv, CallsTypeOK, Call
<1>3. call[u].at # "user" => call[u].p # Mine.p
  BY OthersElsewhere
<1>4. call[u].at \in ListPoints => /\ call[u].fd \in Fds
                                   /\ file_array[call[u].p][call[u].fd].kind = "dir"
  BY DEF CallsIInv, CallsTypeOK, CallInStep, ListPoints, ReadPoints
<1>5. call[u].at \in OpenPoints \cup ListPoints => call[u].at # "user"
  BY DEF OpenPoints, ListPoints
<1>6. CASE OpeningDir(Mine)
  <2>1. ~OpeningDir(call[u])
    BY <1>1, <1>6 DEF OneListing
  <2>2. call[u].at \in ListPoints => call[u].p = Mine.p
    BY <1>1, <1>2, <1>4, <1>6 DEF OneListing
  <2> QED
    BY <1>3, <1>5, <2>1, <2>2
<1>7. CASE Mine.fd \in Fds /\ Held.kind = "dir"
  <2>1. OpeningDir(call[u]) => call[u].p = Mine.p
    BY <1>2, <1>7 DEF OneListing, Held
  <2>2. call[u].at \in ListPoints => call[u].p = Mine.p
    BY <1>2, <1>4, <1>7 DEF OneListing, Held
  <2> QED
    BY <1>3, <1>5, <2>1, <2>2 DEF OpeningDir
<1> QED
  BY <1>6, <1>7

\* A call goes on and neither opens nor reads the directory.
LEMMA ListingWaits ==
  ASSUME CallsIInv, OneListing, dir_index' = dir_index, NEW c, Continue(c),
         \A p \in Processes, fd \in Fds :
           file_array'[p][fd].kind = "dir" => file_array'[p][fd] = file_array[p][fd],
         \/ file_array' = file_array
         \/ /\ Mine.at # "user"
            /\ \A q \in Processes : q # Mine.p => file_array'[q] = file_array[q],
         OpeningDir(c) =>
           /\ OpeningDir(Mine)
           /\ Mine.at \in MovePoints => c.at \in MovePoints /\ c.p = Mine.p /\ c.fd = Mine.fd,
         Mine.at \in MovePoints =>
           \/ c.at \in MovePoints /\ c.p = Mine.p /\ c.fd = Mine.fd
           \/ Mine.fd \in Fds => file_array'[Mine.p][Mine.fd].kind # "dir",
         c.at \notin {"d_load", "d_store"},
         c.at = "d_name" => dir_index < NumEntries
  PROVE  OneListing'
<1>1. PICK s \in Terminals : s = curr_scheduled /\ Mine = call[s]
  BY DEF CallsIInv, CallsTypeOK, Mine
<1>2. call'[s] = c /\ \A u \in Terminals \ {s} : call'[u] = call[u]
  BY <1>1, Continued DEF CallsIInv
<1>3. \A u \in Terminals \ {s} : call[u].at \in ListPoints =>
        file_array'[call[u].p] = file_array[call[u].p]
  <2>1. CASE file_array' = file_array
    BY <2>1
  <2>2. CASE /\ Mine.at # "user"
             /\ \A q \in Processes : q # Mine.p => file_array'[q] = file_array[q]
    <3>1. \A u \in Terminals \ {s} : call[u].at \in ListPoints =>
            call[u].p \in Processes /\ call[u].p # Mine.p
      BY <1>1, <2>2, OthersElsewhere DEF ListPoints
    <3> QED
      BY <2>2, <3>1
  <2> QED
    BY <2>1, <2>2
<1>4. \A p \in Processes, fd \in Fds :
        call[s].at \in MovePoints /\ call[s].p = p /\ call[s].fd = fd
        /\ file_array'[p][fd].kind = "dir"
          => call'[s].at \in MovePoints /\ call'[s].p = p /\ call'[s].fd = fd
  BY <1>1, <1>2
<1> QED
  BY <1>1, <1>2, <1>3, <1>4, SameListing

\* An open on its way to the directory, or to something else.
LEMMA ListingOpens ==
  ASSUME CallsIInv, OneListing, OpenStep
  PROVE  OneListing'
<1>0. CallsTypeOK /\ Mine.at \in OpenPoints /\ Mine.at # "user" /\ Mine.at \notin ListPoints
  BY DEF CallsIInv, OpenStep, OpenLimit, OpenSearch, OpenMark, OpenFill, OpenLoad,
         OpenStore, OpenInit, OpenPoints, ListPoints
<1>1. PICK s \in Terminals : s = curr_scheduled /\ Mine = call[s]
  BY <1>0, InCall
<1>2. PICK P \in Processes : P = Mine.p
  BY <1>0, InCall
<1>3. Mine.arg \in 1 .. NumEntries
  BY <1>0, InCall DEF CallOK
<1>4. Idle.at = "user" /\ "user" \notin OpenPoints \cup MovePoints
  BY IdleInStep DEF OpenPoints, MovePoints
<1>5. \A x \in OpenPoints :
        /\ x \in Points /\ x \notin {"d_name", "d_load", "d_store"}
        /\ x \in MovePoints <=> x \in {"o_load", "o_store", "o_init"}
  BY DEF OpenPoints, Points, MovePoints
<1>6. Entries[Mine.arg].type \in {0, 1, 2}
  BY <1>3, ImageAssumption
<1>7. (KindOf(Entries[Mine.arg]).kind = "dir") <=> (Entries[Mine.arg].type = 1)
  BY <1>6 DEF KindOf, Fd
<1>8. KindOf(Entries[Mine.arg]).got = <<>>
  BY <1>6 DEF KindOf, Fd
<1>9. CASE OpenLimit \/ OpenSearch \/ OpenLoad \/ OpenStore
  <2>1. file_array' = file_array /\ dir_index' = dir_index
    BY <1>9 DEF OpenLimit, OpenSearch, OpenLoad, OpenStore, vars
  <2>2. \E c : /\ Continue(c) /\ c.at \notin {"d_name", "d_load", "d_store"}
               /\ \/ c = Idle /\ Mine.at \notin MovePoints
                  \/ c.arg = Mine.arg /\ Mine.at \notin MovePoints
                  \/ c.arg = Mine.arg /\ c.at \in MovePoints /\ c.p = Mine.p /\ c.fd = Mine.fd
    <3>1. CASE OpenLimit
      <4>1. Mine.at \notin MovePoints /\ "o_search" \in Points
        BY <3>1 DEF OpenLimit, MovePoints, Points, OpenPoints
      <4> QED
        BY <1>0, <1>4, <3>1, <4>1, CallMoved DEF OpenLimit, Leave, MoveTo
    <3>2. CASE OpenSearch
      <4>1. Mine.at \notin MovePoints /\ "o_mark" \in Points
        BY <3>2 DEF OpenSearch, MovePoints, Points, OpenPoints
      <4> QED
        BY <1>0, <3>2, <4>1, CallMoved DEF OpenSearch
    <3>3. CASE OpenLoad \/ OpenStore
      <4>1. {"o_store", "o_init"} \subseteq Points \cap MovePoints
        BY DEF MovePoints, Points, OpenPoints
      <4> QED
        BY <1>0, <3>3, <4>1, CallMoved DEF OpenLoad, OpenStore, Carry, MoveTo
    <3> QED
      BY <1>9, <3>1, <3>2, <3>3
  <2>3. PICK c : /\ Continue(c) /\ c.at \notin {"d_name", "d_load", "d_store"}
                 /\ \/ c = Idle /\ Mine.at \notin MovePoints
                    \/ c.arg = Mine.arg /\ Mine.at \notin MovePoints
                    \/ c.arg = Mine.arg /\ c.at \in MovePoints /\ c.p = Mine.p /\ c.fd = Mine.fd
    BY <2>2
  <2>4. OpeningDir(c) => /\ OpeningDir(Mine)
                         /\ Mine.at \in MovePoints =>
                              c.at \in MovePoints /\ c.p = Mine.p /\ c.fd = Mine.fd
    BY <1>0, <1>4, <2>3 DEF OpeningDir
  <2> QED
    BY <2>1, <2>3, <2>4, ListingWaits
<1>10. CASE OpenMark
  <2>1. PICK c : /\ c = MineAt("o_fill") /\ Continue(c) /\ Put(Fd("half", 0))
                 /\ dir_index' = dir_index /\ Mine.at = "o_mark"
    BY <1>10 DEF OpenMark, MoveTo
  <2>2. Mine.fd \in Fds /\ Mine.at \notin MovePoints
    BY <1>0, <2>1, InCall DEF CallInStep, MovePoints
  <2>3. Fd("half", 0).kind # "dir"
    BY DEF Fd
  <2>4. /\ \A q \in Processes : q # Mine.p => file_array'[q] = file_array[q]
        /\ \A p \in Processes, fd \in Fds :
             file_array'[p][fd].kind = "dir" => file_array'[p][fd] = file_array[p][fd]
    BY <1>0, <2>1, <2>2, <2>3, PutDone
  <2>5. c.at = "o_fill" /\ c.arg = Mine.arg
    BY <1>0, <2>1, CallMoved DEF Points, OpenPoints
  <2>6. OpeningDir(c) => OpeningDir(Mine)
    BY <1>0, <2>5 DEF OpeningDir
  <2> QED
    BY <1>0, <2>1, <2>2, <2>4, <2>5, <2>6, ListingWaits
<1>11. CASE OpenFill
  <2>1. Mine.at = "o_fill" /\ Mine.fd \in Fds /\ Held.kind = "half"
    BY <1>0, <1>11, InCall DEF OpenFill, CallInStep, Held
  <2>2. PICK c : /\ c = MineAt("o_load") /\ Continue(c) /\ Put(KindOf(Entries[Mine.arg]))
                 /\ dir_index' = dir_index
    BY <1>11, <2>1 DEF OpenFill, MoveTo
  <2>3. /\ \A q \in Processes : q # Mine.p => file_array'[q] = file_array[q]
        /\ \A p \in Processes, fd \in Fds :
             file_array'[p][fd] = IF p = Mine.p /\ fd = Mine.fd
                                  THEN KindOf(Entries[Mine.arg]) ELSE file_array[p][fd]
    BY <1>0, <2>1, <2>2, PutDone
  <2>4. c.at = "o_load" /\ c.arg = Mine.arg /\ c.p = Mine.p /\ c.fd = Mine.fd
    BY <1>0, <2>2, CallMoved DEF Points, OpenPoints
  <2>5. Mine.at \notin MovePoints /\ c.at \in MovePoints
    BY <2>1, <2>4 DEF MovePoints
  <2>6. CASE Entries[Mine.arg].type # 1
    <3>1. ~OpeningDir(c)
      BY <2>4, <2>6 DEF OpeningDir
    <3>2. \A p \in Processes, fd \in Fds :
             file_array'[p][fd].kind = "dir" => file_array'[p][fd] = file_array[p][fd]
      BY <1>7, <2>3, <2>6
    <3> QED
      BY <1>0, <2>2, <2>3, <2>4, <2>5, <3>1, <3>2, ListingWaits
  <2>7. CASE Entries[Mine.arg].type = 1
    <3>1. OpeningDir(Mine)
      BY <1>0, <2>7 DEF OpeningDir
    <3>2. \A p \in Processes, fd \in Fds : file_array[p][fd].kind # "dir"
      BY <1>1, <2>5, <3>1 DEF OneListing
    <3>3. call'[s] = c /\ \A u \in Terminals \ {s} : call'[u] = call[u]
      BY <1>0, <1>1, <2>2, Continued
    <3>4. \A u \in Terminals \ {s} : ~OpeningDir(call'[u]) /\ call'[u].at \notin ListPoints
      BY <1>0, <1>1, <3>1, <3>3, OneLists
    <3>5. PICK fd \in Fds : fd = Mine.fd
      BY <2>1
    <3>6. PICK e : e = file_array'[P][fd]
      OBVIOUS
    <3>7. e.got = <<>>
      BY <1>2, <1>8, <2>3, <3>5, <3>6
    <3>8. e.got = Listed(Len(e.got))
      BY <3>7 DEF Listed
    <3>9. \A p \in Processes, gd \in Fds :
            file_array'[p][gd].kind = "dir" => p = P /\ gd = fd
      BY <1>2, <2>3, <3>2, <3>5
    <3> QED
      BY <1>2, <2>4, <2>5, <3>3, <3>4, <3>5, <3>6, <3>8, <3>9, OnlyListing
  <2> QED
    BY <2>6, <2>7
<1>12. CASE OpenInit
  <2>1. /\ Mine.at = "o_init" /\ Mine.fd \in Fds /\ Held = KindOf(Entries[Mine.arg])
    BY <1>0, <1>12, InCall DEF OpenInit, CallInStep, Held
  <2>2. /\ Continue(Idle) /\ file_array' = file_array
        /\ dir_index' = IF Entries[Mine.arg].type = 1 THEN 0 ELSE dir_index
    BY <1>7, <1>12, <2>1 DEF OpenInit, DirOpen
  <2>3. ~OpeningDir(Idle) /\ Idle.at \notin ListPoints \cup MovePoints
    BY <1>4 DEF OpeningDir, ListPoints
  <2>4. CASE Entries[Mine.arg].type # 1
    <3>1. file_array'[Mine.p][Mine.fd].kind # "dir"
      BY <1>7, <2>1, <2>2, <2>4 DEF Held
    <3> QED
      BY <1>4, <2>2, <2>3, <2>4, <3>1, ListingWaits
  <2>5. CASE Entries[Mine.arg].type = 1
    <3>1. OpeningDir(Mine) /\ Held.kind = "dir"
      BY <1>0, <1>7, <2>1, <2>5 DEF OpeningDir
    <3>3. call'[s] = Idle /\ \A u \in Terminals \ {s} : call'[u] = call[u]
      BY <1>0, <1>1, <2>2, Continued
    <3>4. \A u \in Terminals \ {s} : ~OpeningDir(call'[u]) /\ call'[u].at \notin ListPoints
      BY <1>0, <1>1, <3>1, <3>3, OneLists
    <3>5. PICK fd \in Fds : fd = Mine.fd
      BY <2>1
    <3>6. PICK e : e = file_array'[P][fd]
      OBVIOUS
    <3>7. e = Held /\ e.got = <<>>
      BY <1>2, <1>8, <2>1, <2>2, <3>5, <3>6 DEF Held
    <3>8. /\ e.got = Listed(Len(e.got)) /\ Len(e.got) = 0
          /\ 0 \in 0 .. NumEntries
      BY <3>7, ImageAssumption DEF Listed
    <3>9. \A p \in Processes, gd \in Fds :
            file_array'[p][gd].kind = "dir" => p = P /\ gd = fd
      BY <1>2, <2>1, <2>2, <3>1, <3>5 DEF OneListing, Held
    <3>10. /\ call'[s].at \notin MovePoints /\ call'[s].at \notin {"d_load", "d_store"}
           /\ call'[s].at # "d_name" /\ call'[s].at # "d_store"
           /\ ~OpeningDir(call'[s])
      BY <1>4, <2>2, <2>3, <3>3
    <3>11. Len(e.got) = dir_index' /\ dir_index' \in 0 .. NumEntries
      BY <2>2, <2>5, <3>8
    <3> QED
      BY <1>1, <1>2, <3>4, <3>5, <3>6, <3>8, <3>9, <3>10, <3>11, OnlyListing
  <2> QED
    BY <2>4, <2>5
<1> QED
  BY <1>9, <1>10, <1>11, <1>12 DEF OpenStep

\* A close of anything.
LEMMA ListingCloses ==
  ASSUME CallsIInv, OneListing, CloseStep
  PROVE  OneListing'
<1>0. CallsTypeOK /\ Mine.at \in ClosePoints /\ Mine.at # "user" /\ Mine.at \notin MovePoints
  BY DEF CallsIInv, CloseStep, CloseCheck, CloseLoad, CloseStore, CloseClear, ClosePoints,
         MovePoints
<1>1. dir_index' = dir_index
  BY DEF CloseStep, CloseCheck, CloseLoad, CloseStore, CloseClear, vars
<1>2. \E c : Continue(c) /\ c.at \notin OpenPoints \cup ListPoints
  <2>1. /\ Idle.at \notin OpenPoints \cup ListPoints
        /\ {"c_load", "c_store", "c_clear"} \subseteq Points \ (OpenPoints \cup ListPoints)
    BY IdleInStep DEF OpenPoints, ListPoints, Points, ClosePoints
  <2> QED
    BY <1>0, <2>1, CallMoved
    DEF CloseStep, CloseCheck, CloseLoad, CloseStore, CloseClear, Leave, MoveTo, Carry
<1>3. CASE CloseCheck \/ CloseLoad \/ CloseStore
  <2>1. file_array' = file_array
    BY <1>3 DEF CloseCheck, CloseLoad, CloseStore, vars
  <2> QED
    BY <1>0, <1>1, <1>2, <2>1, ListingWaits DEF OpeningDir, ListPoints
<1>4. CASE CloseClear
  <2>1. Put(Absent) /\ Mine.fd \in Fds /\ Absent.kind # "dir"
    BY <1>0, <1>4, InCall DEF CloseClear, CallOK, Absent, Fd
  <2>2. /\ \A q \in Processes : q # Mine.p => file_array'[q] = file_array[q]
        /\ \A p \in Processes, fd \in Fds :
             file_array'[p][fd].kind = "dir" => file_array'[p][fd] = file_array[p][fd]
    BY <1>0, <2>1, PutDone
  <2> QED
    BY <1>0, <1>1, <1>2, <2>2, ListingWaits DEF OpeningDir, ListPoints
<1> QED
  BY <1>3, <1>4 DEF CloseStep

\* A read, up to the point where it gets an entry of the directory.
LEMMA ListingIsRead ==
  ASSUME CallsIInv, OneListing,
         ReadCheck \/ FileLook \/ FileCopy \/ FileLoad \/ FileStore \/ DirCheck
  PROVE  OneListing'
<1>0. CallsTypeOK /\ Mine.at \in ReadPoints /\ Mine.at # "user" /\ Mine.at \notin MovePoints
  BY DEF CallsIInv, ReadCheck, FileLook, FileCopy, FileLoad, FileStore, DirCheck, ReadPoints,
         MovePoints
<1>1. /\ dir_index' = dir_index /\ Mine.fd \in Fds /\ EntryOK(Held)
      /\ Mine.at \in {"f_copy", "f_load", "f_store"} => Held.kind = "file"
  <2>1. dir_index' = dir_index
    BY DEF ReadCheck, FileLook, FileCopy, FileLoad, FileStore, DirCheck, vars
  <2>2. Mine.fd \in Fds /\ Mine.p \in Processes
    BY <1>0, InCall DEF CallOK
  <2> QED
    BY <1>0, <2>1, <2>2, InCall, TypedLookups DEF CallInStep, Held
<1>2. \A x \in Points \ (OpenPoints \cup ListPoints) :
        /\ MineAt(x).at \notin OpenPoints \cup ListPoints
        /\ \A v : /\ [MineAt(x) EXCEPT !.eax = v].at \notin OpenPoints \cup ListPoints
                  /\ [MineAt(x) EXCEPT !.p = v].at \notin OpenPoints \cup ListPoints
  BY <1>0, CallMoved
<1>3. /\ Idle.at \notin OpenPoints \cup ListPoints
      /\ {"astray", "d_check", "f_look", "f_copy", "f_load", "f_store"}
           \subseteq Points \ (OpenPoints \cup ListPoints)
  BY IdleInStep DEF OpenPoints, ListPoints, Points, ReadPoints, Stopped
<1>4. CASE ReadCheck \/ FileLook
  <2>1. file_array' = file_array
    BY <1>4 DEF ReadCheck, FileLook, vars
  <2>2. Held.kind \in {"none", "rtc", "half", "dir", "file"}
    BY <1>1 DEF EntryOK, Kinds
  <2>3. \E c : Continue(c) /\ c.at \notin OpenPoints \cup ListPoints
    BY <1>2, <1>3, <1>4, <2>2 DEF ReadCheck, FileLook
  <2> QED
    BY <1>0, <1>1, <2>1, <2>3, ListingWaits DEF OpeningDir, ListPoints
<1>5. CASE FileLoad
  <2>1. file_array' = file_array
    BY <1>5 DEF FileLoad, vars
  <2>2. \E c : Continue(c) /\ c.at \notin OpenPoints \cup ListPoints
    BY <1>2, <1>3, <1>5 DEF FileLoad, Carry
  <2> QED
    BY <1>0, <1>1, <2>1, <2>2, ListingWaits DEF OpeningDir, ListPoints
<1>6. CASE FileCopy \/ FileStore
  <2>1. \E e : Put(e) /\ e.kind # "dir"
    <3> DEFINE h == Held
    <3>1. h.kind = "file" /\ EntryOK(h)
      BY <1>1, <1>6 DEF FileCopy, FileStore
    <3> HIDE DEF h
    <3>2. \A v : /\ [h EXCEPT !.got = v].kind # "dir"
                 /\ [h EXCEPT !.f_pos = v].kind # "dir"
      BY <3>1 DEF EntryOK
    <3> QED
      BY <1>6, <3>2 DEF FileCopy, FileStore, h
  <2>2. /\ \A q \in Processes : q # Mine.p => file_array'[q] = file_array[q]
        /\ \A p \in Processes, fd \in Fds :
             file_array'[p][fd].kind = "dir" => file_array'[p][fd] = file_array[p][fd]
    BY <1>0, <1>1, <2>1, PutDone
  <2>3. \E c : Continue(c) /\ c.at \notin OpenPoints \cup ListPoints
    BY <1>2, <1>3, <1>6 DEF FileCopy, FileStore, Carry, Leave
  <2> QED
    BY <1>0, <1>1, <2>2, <2>3, ListingWaits DEF OpeningDir, ListPoints
<1>7. CASE DirCheck
  <2>1. file_array' = file_array
    BY <1>7 DEF DirCheck, vars
  <2>2. CASE dir_index >= NumEntries
    BY <1>0, <1>1, <1>3, <1>7, <2>1, <2>2, ListingWaits
    DEF DirCheck, Leave, OpeningDir, ListPoints
  <2>3. CASE ~(dir_index >= NumEntries)
    <3>1. dir_index < NumEntries
      BY <1>0, <2>3, ImageAssumption DEF CallsTypeOK
    <3>2. PICK c : c = MineAt("d_name") /\ Continue(c)
      BY <1>7, <2>3 DEF DirCheck, MoveTo
    <3>3. c.at = "d_name" /\ "d_name" \notin OpenPoints
      BY <1>0, <3>2, CallMoved DEF Points, ReadPoints, OpenPoints
    <3> QED
      BY <1>0, <1>1, <2>1, <3>1, <3>2, <3>3, ListingWaits DEF OpeningDir
  <2> QED
    BY <2>2, <2>3
<1> QED
  BY <1>4, <1>5, <1>6, <1>7

\* What has been read, and the entry that comes next.
LEMMA ListedNext ==
  ASSUME NEW n \in Nat
  PROVE  Append(Listed(n), n) = Listed(n + 1) /\ Len(Listed(n)) = n
BY DEF Listed

\* The steps in which a read of the directory gets its entry.
LEMMA ListingMoves ==
  ASSUME CallsIInv, OneListing, DirName \/ DirLoad \/ DirStore
  PROVE  OneListing'
<1>0. /\ CallsTypeOK /\ Mine.at \in ListPoints /\ Mine.at \in ReadPoints
      /\ Mine.at # "user" /\ Mine.at \notin OpenPoints
  BY DEF CallsIInv, DirName, DirLoad, DirStore, ListPoints, ReadPoints, OpenPoints
<1>1. PICK s \in Terminals : s = curr_scheduled /\ Mine = call[s]
  BY <1>0, InCall
<1>2. PICK P \in Processes : P = Mine.p
  BY <1>0, InCall
<1>3. PICK fd \in Fds : fd = Mine.fd
  BY <1>0, InCall DEF CallOK
<1>4. PICK h : h = file_array[P][fd]
  OBVIOUS
<1>5. h = Held /\ h.kind = "dir" /\ EntryOK(h)
  BY <1>0, <1>2, <1>3, <1>4, InCall, TypedLookups DEF CallInStep, ListPoints, Held
<1>6. \A u \in Terminals \ {s} : ~OpeningDir(call[u]) /\ call[u].at \notin ListPoints
  BY <1>0, <1>1, <1>3, <1>5, OneLists
<1>7. \A p \in Processes, gd \in Fds : file_array[p][gd].kind = "dir" => p = P /\ gd = fd
  <2>1. \A p, q \in Processes, gd, ed \in Fds :
          file_array[p][gd].kind = "dir" /\ file_array[q][ed].kind = "dir" => p = q /\ gd = ed
    BY DEF OneListing
  <2>2. P \in Processes /\ fd \in Fds /\ file_array[P][fd].kind = "dir"
    BY <1>2, <1>3, <1>4, <1>5
  <2> QED
    BY <2>1, <2>2
<1>8. h.got = Listed(Len(h.got))
  BY <1>4, <1>5 DEF OneListing
<1>9. /\ {"d_load", "d_store"} \subseteq Points /\ {"d_load", "d_store"} \subseteq MovePoints
      /\ {"d_load", "d_store"} \cap OpenPoints = {} /\ Idle.at = "user"
      /\ "user" \notin OpenPoints \cup MovePoints \cup {"d_name", "d_load", "d_store"}
      /\ NumEntries \in Nat
  BY IdleInStep, ImageAssumption DEF Points, ReadPoints, MovePoints, OpenPoints
<1>10. CASE DirName
  <2>1. dir_index < NumEntries /\ dir_index \in Int
    BY <1>0, <1>1, <1>10 DEF OneListing, DirName, CallsTypeOK
  <2>2. ~Moving(P, fd)
    <3>1. \A u \in Terminals \ {s} : call[u].at # "user" => call[u].p # P
      BY <1>0, <1>1, <1>2, OthersElsewhere
    <3>2. Mine.at \notin MovePoints
      BY <1>10 DEF DirName, MovePoints
    <3> QED
      BY <1>1, <3>1, <3>2 DEF Moving, MovePoints
  <2>3. Len(h.got) = dir_index /\ dir_index \in 0 .. NumEntries - 1
    <3>1. Len(h.got) = dir_index /\ dir_index \in 0 .. NumEntries
      BY <1>4, <1>5, <2>2 DEF OneListing
    <3> QED
      BY <1>9, <2>1, <3>1
  <2>4. PICK e : e = [h EXCEPT !.got = Append(@, dir_index)] /\ Put(e)
    BY <1>5, <1>9, <1>10, <2>1 DEF DirName
  <2>5. PICK c : c = MineAt("d_load") /\ Continue(c) /\ dir_index' = dir_index
    BY <1>9, <1>10, <2>1 DEF DirName
  <2>6. /\ e.got = Listed(dir_index + 1) /\ Len(e.got) = dir_index + 1
    <3>1. PICK n \in Nat : n = dir_index
      BY <2>3, <1>9
    <3>2. h.got = Listed(n)
      BY <1>8, <2>3, <3>1
    <3>3. e.got = Append(Listed(n), n)
      BY <1>5, <2>4, <3>1, <3>2 DEF EntryOK
    <3>4. n + 1 \in Nat
      OBVIOUS
    <3> QED
      BY <3>1, <3>3, <3>4, ListedNext
  <2>7. c.at = "d_load" /\ c.p = P /\ c.fd = fd
    BY <1>0, <1>2, <1>3, <1>9, <2>5, CallMoved
  <2>8. call'[s] = c /\ \A u \in Terminals \ {s} : call'[u] = call[u]
    BY <1>0, <1>1, <2>5, Continued
  <2>9. \A p \in Processes, gd \in Fds :
          file_array'[p][gd] = IF p = P /\ gd = fd THEN e ELSE file_array[p][gd]
    BY <1>0, <1>2, <1>3, <2>4, PutDone
  <2>10. e = file_array'[P][fd] /\ \A p \in Processes, gd \in Fds :
           file_array'[p][gd].kind = "dir" => p = P /\ gd = fd
    BY <1>7, <2>9
  <2>11. \A u \in Terminals \ {s} : ~OpeningDir(call'[u]) /\ call'[u].at \notin ListPoints
    BY <1>6, <2>8
  <2>12. call'[s].at = "d_load" /\ "d_load" \in MovePoints /\ call'[s].p = P /\ call'[s].fd = fd
    BY <1>9, <2>7, <2>8
  <2>13. /\ e.got = Listed(Len(e.got))
         /\ Len(e.got) = dir_index' + 1 /\ dir_index' \in 0 .. NumEntries - 1
    BY <2>3, <2>5, <2>6
  <2> QED
    BY <2>10, <2>11, <2>12, <2>13, OnlyListing
<1>11. CASE DirLoad
  <2>1. Mine.at = "d_load" /\ file_array' = file_array /\ dir_index' = dir_index
    BY <1>11 DEF DirLoad, vars
  <2>2. Len(h.got) = dir_index + 1 /\ dir_index \in 0 .. NumEntries - 1
    BY <1>1, <1>2, <1>3, <1>4, <2>1 DEF OneListing
  <2>3. PICK c : c = [MineAt("d_store") EXCEPT !.eax = dir_index] /\ Continue(c)
    BY <1>11 DEF DirLoad, Carry
  <2>4. c.at = "d_store" /\ c.p = P /\ c.fd = fd /\ c.eax = dir_index
    BY <1>0, <1>2, <1>3, <1>9, <2>3, CallMoved
  <2>5. call'[s] = c /\ \A u \in Terminals \ {s} : call'[u] = call[u]
    BY <1>0, <1>1, <2>3, Continued
  <2>6. h = file_array'[P][fd] /\ \A p \in Processes, gd \in Fds :
          file_array'[p][gd].kind = "dir" => p = P /\ gd = fd
    BY <1>4, <1>7, <2>1
  <2>7. \A u \in Terminals \ {s} : ~OpeningDir(call'[u]) /\ call'[u].at \notin ListPoints
    BY <1>6, <2>5
  <2>8. /\ call'[s].at = "d_store" /\ "d_store" \in MovePoints
        /\ call'[s].p = P /\ call'[s].fd = fd /\ call'[s].eax = dir_index'
    BY <1>9, <2>1, <2>4, <2>5
  <2>9. Len(h.got) = dir_index' + 1 /\ dir_index' \in 0 .. NumEntries - 1
    BY <2>1, <2>2
  <2> QED
    BY <1>8, <2>6, <2>7, <2>8, <2>9, OnlyListing
<1>12. CASE DirStore
  <2>1. /\ Mine.at = "d_store" /\ file_array' = file_array /\ dir_index' = Mine.eax + 1
        /\ Continue(Idle)
    BY <1>12 DEF DirStore, Leave
  <2>2. /\ Len(h.got) = dir_index + 1 /\ dir_index \in 0 .. NumEntries - 1
        /\ Mine.eax = dir_index
    BY <1>1, <1>2, <1>3, <1>4, <2>1 DEF OneListing
  <2>3. Len(h.got) = dir_index' /\ dir_index' \in 0 .. NumEntries
    BY <1>9, <2>1, <2>2
  <2>4. call'[s] = Idle /\ \A u \in Terminals \ {s} : call'[u] = call[u]
    BY <1>0, <1>1, <2>1, Continued
  <2>5. h = file_array'[P][fd] /\ \A p \in Processes, gd \in Fds :
          file_array'[p][gd].kind = "dir" => p = P /\ gd = fd
    BY <1>4, <1>7, <2>1
  <2>6. \A u \in Terminals \ {s} : ~OpeningDir(call'[u]) /\ call'[u].at \notin ListPoints
    BY <1>6, <2>4
  <2>7. /\ call'[s].at \notin MovePoints /\ ~OpeningDir(call'[s])
        /\ call'[s].at \notin {"d_load", "d_store"}
        /\ call'[s].at # "d_name" /\ call'[s].at # "d_store"
    BY <1>9, <2>4 DEF OpeningDir
  <2> QED
    BY <1>8, <2>3, <2>5, <2>6, <2>7, OnlyListing
<1> QED
  BY <1>10, <1>11, <1>12

\* A program ends: what it had open of the directory is closed, with the index
\* set back.
LEMMA ListingEnds ==
  ASSUME CallsIInv, OneListing, NEW d \in 1 .. MaxDepth, HaltAt(d),
         ~Busy(Displayed), ~Busy(Caller),
         NEW s \in Terminals, call[s].at = "user", call'[s].at \in {"user", "x_table"},
         \A u \in Terminals \ {s} : call'[u] = call[u]
  PROVE  OneListing'
<1>0. CallsTypeOK /\ Caller \in Processes
  BY TypedLookups DEF CallsIInv
<1>1. /\ \A p \in Processes : p \notin {Caller, Displayed} => file_array'[p] = file_array[p]
      /\ \A p \in Processes, fd \in Fds :
           \/ file_array'[p][fd] = Absent
           \/ p # Caller /\ file_array'[p][fd] = file_array[p][fd]
  BY <1>0, HaltChanges
<1>2. dir_index' = IF \E fd \in Fds : file_array[Caller][fd].kind = "dir"
                   THEN 0 ELSE dir_index
  BY DEF HaltAt
<1>3. Absent.kind # "dir"
  BY DEF Absent, Fd
<1>4. /\ "user" \notin OpenPoints \cup ListPoints \cup MovePoints
      /\ "x_table" \notin OpenPoints \cup ListPoints \cup MovePoints
      /\ {"d_load", "d_store", "d_name"} = ListPoints
  BY DEF OpenPoints, ListPoints, MovePoints
<1>5. \A u \in Terminals : call[u].at # "user" =>
        call[u].p \in Processes /\ call[u].p \notin {Caller, Displayed}
  BY <1>0 DEF Busy, CallsTypeOK, Call
<1>6. CASE \E fd \in Fds : file_array[Caller][fd].kind = "dir"
  <2>1. PICK gd \in Fds : file_array[Caller][gd].kind = "dir"
    BY <1>6
  <2>2. \A p \in Processes, fd \in Fds : file_array'[p][fd].kind # "dir"
    BY <1>0, <1>1, <1>3, <2>1 DEF OneListing
  <2>3. ASSUME NEW u \in Terminals
        PROVE  ~OpeningDir(call[u]) /\ call[u].at \notin ListPoints
    <3>1. OpeningDir(call[u]) => call[u].p = Caller /\ call[u].at # "user"
      BY <1>0, <1>4, <2>1 DEF OneListing, OpeningDir
    <3>2. call[u].at \in ListPoints =>
            call[u].fd \in Fds /\ file_array[call[u].p][call[u].fd].kind = "dir"
      BY DEF CallsIInv, CallsTypeOK, CallInStep, ListPoints, ReadPoints
    <3>3. call[u].at \in ListPoints => call[u].p = Caller /\ call[u].at # "user"
      BY <1>0, <1>4, <1>5, <2>1, <3>2 DEF OneListing
    <3> QED
      BY <1>5, <3>1, <3>3
  <2>4. \A u \in Terminals : ~OpeningDir(call'[u]) /\ call'[u].at \notin ListPoints
    BY <1>4, <2>3 DEF OpeningDir
  <2> QED
    BY <2>2, <2>4, NobodyLists
<1>7. CASE ~ \E fd \in Fds : file_array[Caller][fd].kind = "dir"
  <2>1. dir_index' = dir_index
    BY <1>2, <1>7
  <2>2. \A p \in Processes, fd \in Fds :
          file_array'[p][fd].kind = "dir" => file_array'[p][fd] = file_array[p][fd]
    BY <1>1, <1>3
  <2>3. \A u \in Terminals \ {s} : call[u].at \in ListPoints =>
          file_array'[call[u].p] = file_array[call[u].p]
    BY <1>1, <1>4, <1>5
  <2>4. /\ ~OpeningDir(call'[s]) /\ call[s].at \notin MovePoints
        /\ call'[s].at \notin {"d_load", "d_store"} /\ call'[s].at # "d_name"
    BY <1>4 DEF OpeningDir
  <2> QED
    BY <2>1, <2>2, <2>3, <2>4, SameListing
<1> QED
  BY <1>6, <1>7

\* Every step keeps one reader's listing.
LEMMA ListingStep ==
  ASSUME CallsIInv, OneListing, TakeTurns, OneLister, [CallsNext]_callVars
  PROVE  OneListing'
<1>0. CallsTypeOK
  BY DEF CallsIInv
<1>1. PICK s \in Terminals : s = curr_scheduled /\ Mine = call[s]
  BY <1>0 DEF CallsTypeOK, Mine
<1>2. /\ "user" \notin OpenPoints \cup ListPoints \cup MovePoints
      /\ {"c_check", "r_check", "x_table"} \cap (OpenPoints \cup ListPoints \cup MovePoints) = {}
      /\ "o_limit" \notin ListPoints \cup MovePoints
      /\ {"d_load", "d_store", "d_name"} = ListPoints /\ Idle.at = "user"
  BY IdleInStep DEF OpenPoints, ListPoints, MovePoints
<1>3. ASSUME file_array' = file_array, call' = call, dir_index' = dir_index PROVE OneListing'
  BY <1>3 DEF OneListing, Moving
<1>4. CASE \E t \in Terminals : Tick(t)
  BY <1>3, <1>4 DEF Tick
<1>5. CASE UNCHANGED callVars
  BY <1>3, <1>5 DEF callVars, vars
<1>6. ASSUME NEW c, Continue(c), Mine.at = "user", UNCHANGED <<file_array, dir_index>>,
             c.at \notin ListPoints, ~OpeningDir(c)
      PROVE  OneListing'
  BY <1>2, <1>6, ListingWaits
<1>7. CASE \E k \in 1 .. NumEntries : OpenBegins(k)
  <2>1. PICK k \in 1 .. NumEntries : OpenBegins(k)
    BY <1>7
  <2>2. PICK c : /\ c = [at |-> "o_limit", p |-> Displayed, fd |-> 0, arg |-> k, eax |-> 0]
                 /\ Continue(c) /\ Mine.at = "user" /\ UNCHANGED <<file_array, dir_index>>
    BY <2>1 DEF OpenBegins, Begin, MayBegin, vars
  <2>3. c.at = "o_limit" /\ c.arg = k
    BY <2>2
  <2>4. CASE Entries[k].type # 1
    BY <1>2, <1>6, <2>2, <2>3, <2>4 DEF OpeningDir
  <2>5. CASE Entries[k].type = 1
    <3>1. NoLister
      BY <2>1, <2>5 DEF OpenBegins
    <3>2. call'[s] = c /\ \A u \in Terminals \ {s} : call'[u] = call[u]
      BY <1>0, <1>1, <2>2, Continued
    <3>3. \A p \in Processes, fd \in Fds : file_array'[p][fd].kind # "dir"
      BY <2>2, <3>1 DEF NoLister
    <3>4. \A u \in Terminals \ {s} : ~OpeningDir(call'[u])
      BY <3>1, <3>2 DEF NoLister, OpeningDir
    <3>5. \A u \in Terminals : call[u].at \in ListPoints =>
            call[u].fd \in Fds /\ call[u].p \in Processes
            /\ file_array[call[u].p][call[u].fd].kind = "dir"
      BY DEF CallsIInv, CallsTypeOK, Call, CallInStep, ListPoints, ReadPoints
    <3>6. \A u \in Terminals : call'[u].at \notin ListPoints
      BY <1>2, <2>3, <3>1, <3>2, <3>5 DEF NoLister
    <3> QED
      BY <3>3, <3>4, <3>6, NobodyLists
  <2> QED
    BY <2>4, <2>5
<1>8. CASE \/ \E fd \in Fds : CloseBegins(fd) \/ \E n \in ReadSizes : ReadBegins(fd, n)
           \/ Launch
  <2>1. PICK c : /\ Continue(c) /\ c.at \in {"c_check", "r_check", "x_table"}
                 /\ Mine.at = "user" /\ UNCHANGED <<file_array, dir_index>>
    BY <1>8 DEF CloseBegins, ReadBegins, Launch, Begin, MayBegin, vars
  <2> QED
    BY <1>2, <1>6, <2>1 DEF OpeningDir
<1>9. CASE InitTable
  <2>1. Mine.at = "x_table" /\ Continue(Idle) /\ Absent.kind # "dir"
    BY <1>9 DEF InitTable, Leave, Absent, Fd
  <2>2. /\ \A q \in Processes : q # Mine.p => file_array'[q] = file_array[q]
        /\ \A fd \in Fds : file_array'[Mine.p][fd] = Absent
        /\ dir_index' = dir_index
    BY <1>0, <1>9, TableMade
  <2>3. \A p \in Processes, fd \in Fds :
          file_array'[p][fd].kind = "dir" => file_array'[p][fd] = file_array[p][fd]
    BY <2>1, <2>2
  <2>4. Mine.at # "user" /\ Mine.at \notin MovePoints
    BY <1>2, <2>1
  <2> QED
    BY <1>2, <2>1, <2>2, <2>3, <2>4, ListingWaits DEF OpeningDir
<1>10. CASE EndProgram
  <2>1. /\ depth[curr_scheduled] - 1 \in 1 .. MaxDepth /\ HaltAt(depth[curr_scheduled] - 1)
        /\ call' = call /\ call[s].at = "user" /\ ~Busy(Displayed) /\ ~Busy(Caller)
    BY <1>0, <1>1, <1>10, SizesAssumption
    DEF EndProgram, HaltChild, MayEnd, MayBegin, CallsTypeOK, Mine
  <2> QED
    BY <2>1, ListingEnds
<1>11. CASE EndShell
  <2>1. PICK c : /\ c = [at |-> "x_table", p |-> Caller, fd |-> 0, arg |-> 0, eax |-> 0]
                 /\ Continue(c)
    BY <1>11 DEF EndShell, Begin
  <2>2. /\ 1 \in 1 .. MaxDepth /\ HaltAt(1)
        /\ call[s].at = "user" /\ ~Busy(Displayed) /\ ~Busy(Caller)
    BY <1>1, <1>11, SizesAssumption DEF EndShell, MayEnd, MayBegin, Mine
  <2>3. c.at = "x_table"
    BY <2>1
  <2>4. call'[s] = c /\ \A u \in Terminals \ {s} : call'[u] = call[u]
    BY <1>0, <1>1, <2>1, Continued
  <2> QED
    BY <2>2, <2>3, <2>4, ListingEnds
<1>12. CASE OpenStep \/ CloseStep
  BY <1>12, ListingOpens, ListingCloses
<1>13. CASE ReadStep
  BY <1>13, ListingIsRead, ListingMoves DEF ReadStep
<1> QED
  BY <1>4, <1>5, <1>7, <1>8, <1>9, <1>10, <1>11, <1>12, <1>13 DEF CallsNext

\* With one reader of the directory at a time, its reads return every entry
\* once, in order, and the end only after the last: dir_index, though one for
\* the whole system, is where that reader stands, whatever ticks stop it and
\* whatever is opened, closed, read, started or halted meanwhile.
THEOREM DirectoryReadOnce ==
  ASSUME TakeTurns, SteadyDisplay, OneLister
  PROVE  CallsSpec => EachEntryOnce
<1>1. CallsInit => OneListing
  <2> SUFFICES ASSUME CallsInit PROVE OneListing
    OBVIOUS
  <2>1. /\ \A t \in Terminals : call[t] = Idle
        /\ \A p \in Processes, fd \in Fds : file_array[p][fd].kind # "dir"
    BY DEF CallsInit, Init, FreshTable, Absent, Fd
  <2>2. Idle.at = "user" /\ "user" \notin OpenPoints
    BY IdleInStep DEF OpenPoints
  <2> QED
    BY <2>1, <2>2 DEF OneListing, OpeningDir
<1>2. CallsIInv /\ OneListing /\ [CallsNext]_callVars => OneListing'
  BY ListingStep
<1>3. OneListing => \A p \in Processes, fd \in Fds :
        file_array[p][fd].kind = "dir" =>
          file_array[p][fd].got = [k \in 1 .. Len(file_array[p][fd].got) |-> k - 1]
  BY DEF OneListing, Listed
<1>4. CallsIInv /\ OneListing =>
        [DirCheck /\ dir_index >= NumEntries => Len(Held.got) = NumEntries]_callVars
  <2> SUFFICES ASSUME CallsIInv, OneListing, DirCheck, dir_index >= NumEntries
               PROVE  Len(Held.got) = NumEntries
    OBVIOUS
  <2>0. /\ CallsTypeOK /\ Mine.at = "d_check" /\ Mine.at # "user" /\ Mine.at \in ReadPoints
        /\ Mine.at \notin MovePoints
    BY DEF CallsIInv, DirCheck, ReadPoints, MovePoints
  <2>1. PICK P \in Processes : P = Mine.p
    BY <2>0, InCall
  <2>2. PICK fd \in Fds : fd = Mine.fd
    BY <2>0, InCall DEF CallOK
  <2>3. file_array[P][fd].kind = "dir"
    BY <2>0, <2>1, <2>2, InCall DEF CallInStep
  <2>4. ~Moving(P, fd)
    <3>1. \A u \in Terminals : u # curr_scheduled /\ call[u].at # "user" => call[u].p # P
      BY <2>0, <2>1, OthersElsewhere
    <3>2. Mine = call[curr_scheduled]
      BY DEF Mine
    <3> QED
      BY <2>0, <3>1, <3>2 DEF Moving, MovePoints
  <2>5. Len(file_array[P][fd].got) = dir_index /\ dir_index \in 0 .. NumEntries
    BY <2>3, <2>4 DEF OneListing
  <2> QED
    BY <2>1, <2>2, <2>5, ImageAssumption DEF Held
<1> QED
  BY <1>1, <1>2, <1>3, <1>4, CallsFindWhatTheyLeft, PTL DEF CallsSpec, EachEntryOnce

=============================================================================
