-------------------------------- MODULE Files --------------------------------
(***************************************************************************)
(* The file system and the file descriptors: open, close, read, execute    *)
(* and halt as far as they touch a PCB's file_array (sys_calls.c), and     *)
(* read_data, file_read, dir_read and their open and close (filesys.c).    *)
(*                                                                         *)
(* A process is <<t, d>>: the d-th of the programs stacked on terminal t.  *)
(* open, close and read look the caller up as the childmost process of the *)
(* terminal on the display, halt as that of the terminal that owns the     *)
(* slice.  Here a call is one step, as it is for programs with nobody      *)
(* between their calls (Programs: one terminal); FileCalls takes open,     *)
(* close and read apart, for programs that a tick may stop anywhere.       *)
(***************************************************************************)
EXTENDS Integers, Sequences, FiniteSets

CONSTANTS
  NT,              \* terminals
  MaxDepth,        \* programs stacked on one terminal
  MAX_OPEN_FILES,  \* 8 in sys_calls.h
  BlockSize,       \* MEM_SIZE_4kB
  Entries,         \* boot block: the directory entries, in order
  FileLength,      \* per inode: its length in bytes
  DataBlocks,      \* per inode: its list of data blocks, with what follows it
  ReadSizes,       \* nbytes of the reads
  MaxOpen,         \* bound of the model: descriptors open in the whole system
  OneLister        \* at most one descriptor is open on the directory

STDI_O    == 2     \* descriptors 0 and 1 are stdin and stdout
Terminals == 1 .. NT
Processes == Terminals \X (1 .. MaxDepth)
Fds       == STDI_O .. MAX_OPEN_FILES - 1
NumEntries == Len(Entries)
Inodes    == DOMAIN FileLength

ASSUME SizesAssumption ==
  /\ NT \in Nat \ {0} /\ MaxDepth \in Nat \ {0}
  /\ MAX_OPEN_FILES \in Nat /\ MAX_OPEN_FILES >= STDI_O
  /\ BlockSize \in Nat \ {0} /\ ReadSizes \subseteq Nat /\ MaxOpen \in Nat
ASSUME ImageAssumption ==
  /\ \A i \in Inodes : FileLength[i] \in Nat
  /\ NumEntries \in Nat
  /\ \A k \in 1 .. NumEntries :
       /\ Entries[k].type \in 0 .. 2
       /\ Entries[k].type = 2 => Entries[k].inode \in Inodes
ASSUME CallersAssumption == OneLister \in BOOLEAN

VARIABLES
  curr_terminal,   \* terminal on the display
  curr_scheduled,  \* terminal whose program owns the slice
  depth,           \* programs running on each terminal
  file_array,      \* per process and descriptor: [kind, inode, f_pos, got]
  file_arr_size,   \* per process
  dir_index        \* the next directory entry, one for the whole system

vars == <<curr_terminal, curr_scheduled, depth, file_array, file_arr_size,
          dir_index>>
schedVars == <<curr_terminal, curr_scheduled>>

Kinds == {"none", "rtc", "dir", "file"}

\* got is history: what the reads of this descriptor returned since its open.
Fd(kind, inode) == [kind |-> kind, inode |-> inode, f_pos |-> 0, got |-> <<>>]
Absent == Fd("none", 0)
FreshTable == [fd \in Fds |-> Absent]

Displayed == <<curr_terminal, depth[curr_terminal]>>
Caller    == <<curr_scheduled, depth[curr_scheduled]>>

Live(p) == p[2] <= depth[p[1]]
Open(p) == {fd \in Fds : file_array[p][fd].kind # "none"}
AllOpen == {x \in Processes \X Fds : x[2] \in Open(x[1])}

Init ==
  /\ curr_terminal = 1
  /\ curr_scheduled = 1
  /\ depth = [t \in Terminals |-> 1]
  /\ file_array = [p \in Processes |-> FreshTable]
  /\ file_arr_size = [p \in Processes |-> STDI_O]
  /\ dir_index = 0

-----------------------------------------------------------------------------
(* open and close *)

KindOf(entry) == CASE entry.type = 0 -> Fd("rtc", 0)
                   [] entry.type = 1 -> Fd("dir", 0)
                   [] entry.type = 2 -> Fd("file", entry.inode)

DirOpenKeepsIndex(kind) == dir_index                        \* mutant
\* The open operation of each kind; only dir_open does something.
DirOpen(kind) == IF kind = "dir" THEN 0 ELSE dir_index

OpenFile(k) ==
  /\ Cardinality(AllOpen) < MaxOpen
  /\ OneLister /\ Entries[k].type = 1
       => \A p \in Processes : Live(p) => \A fd \in Fds : file_array[p][fd].kind # "dir"
  /\ file_arr_size[Displayed] < MAX_OPEN_FILES
  /\ \E fd \in Fds \ Open(Displayed) :
       /\ \A lower \in Fds \ Open(Displayed) : fd <= lower
       /\ file_array' = [file_array EXCEPT ![Displayed][fd] = KindOf(Entries[k])]
  /\ file_arr_size' = [file_arr_size EXCEPT ![Displayed] = @ + 1]
  /\ dir_index' = DirOpen(KindOf(Entries[k]).kind)
  /\ UNCHANGED <<schedVars, depth>>

\* An entry that is not present loses nothing but its flags; the rest is set
\* by the open that takes it next, and dropped here.
Close(fd) ==
  /\ fd \in Open(Displayed)
  /\ file_array' = [file_array EXCEPT ![Displayed][fd] = Absent]
  /\ file_arr_size' = [file_arr_size EXCEPT ![Displayed] = @ - 1]
  /\ UNCHANGED <<schedVars, depth, dir_index>>

-----------------------------------------------------------------------------
(* read *)

FirstCellOfFile(offset) == <<1, offset % BlockSize>>        \* mutant
\* skip_dbs and offset_indb: where byte number offset of a file lies.
FirstCell(offset) == <<(offset \div BlockSize) + 1, offset % BlockSize>>

\* The byte after a cell: the first of the next data block at a block's end.
NextCell(c) == IF c[2] + 1 = BlockSize THEN <<c[1] + 1, 0>> ELSE <<c[1], c[2] + 1>>

\* The bytes read_data copies, each named by its data block and the place in it.
ReadData(inode, offset, length) ==
  LET n == IF length < FileLength[inode] THEN length ELSE FileLength[inode]
      cell[k \in 1 .. n] == IF k = 1 THEN FirstCell(offset) ELSE NextCell(cell[k-1])
  IN  IF offset > FileLength[inode] THEN <<>>
      ELSE [k \in 1 .. n |-> <<DataBlocks[inode][cell[k][1]], cell[k][2]>>]

FileRead(fd, nbytes) ==
  /\ file_array[Displayed][fd].kind = "file"
  /\ LET e     == file_array[Displayed][fd]
         bytes == ReadData(e.inode, e.f_pos, nbytes)
     IN  file_array' = [file_array EXCEPT ![Displayed][fd] =
                          [e EXCEPT !.f_pos = @ + Len(bytes), !.got = @ \o bytes]]
  /\ UNCHANGED <<schedVars, depth, file_arr_size, dir_index>>

\* The name of the next entry, whatever descriptor asks.
DirRead(fd) ==
  /\ file_array[Displayed][fd].kind = "dir"
  /\ dir_index < NumEntries
  /\ file_array' = [file_array EXCEPT ![Displayed][fd].got = Append(@, dir_index)]
  /\ dir_index' = dir_index + 1
  /\ UNCHANGED <<schedVars, depth, file_arr_size>>

\* dir_read returns 0.
DirReadEnd(fd) ==
  /\ file_array[Displayed][fd].kind = "dir"
  /\ dir_index >= NumEntries
  /\ UNCHANGED vars

-----------------------------------------------------------------------------
(* execute and halt *)

\* A program starts from the terminal on the display, with two descriptors.
Execute ==
  /\ curr_scheduled = curr_terminal
  /\ depth[curr_terminal] < MaxDepth
  /\ depth' = [depth EXCEPT ![curr_terminal] = @ + 1]
  /\ LET child == <<curr_terminal, depth[curr_terminal] + 1>> IN
       /\ file_array' = [file_array EXCEPT ![child] = FreshTable]
       /\ file_arr_size' = [file_arr_size EXCEPT ![child] = STDI_O]
  /\ UNCHANGED <<schedVars, dir_index>>

FilesOf(p) == {fd \in Fds : file_array[p][fd].kind = "file"}

\* halt calls the close operation of every descriptor of the caller, then
\* clears its flags.  file_close is the system call close, which looks the
\* displayed process up again; dir_close starts the listing over.  What is left
\* in the caller's file_arr_size is set by the execute that takes its place
\* next, and dropped here.
HaltAt(newDepth) ==
  LET hit == FilesOf(Caller) \cap Open(Displayed) IN
  /\ file_array' = [file_array EXCEPT
       ![Displayed] = [fd \in Fds |-> IF fd \in hit THEN Absent ELSE @[fd]],
       ![Caller] = FreshTable]
  /\ file_arr_size' = [file_arr_size EXCEPT ![Displayed] = @ - Cardinality(hit),
                                             ![Caller] = STDI_O]
  /\ dir_index' = IF \E fd \in Fds : file_array[Caller][fd].kind = "dir"
                  THEN 0 ELSE dir_index
  /\ depth' = [depth EXCEPT ![curr_scheduled] = newDepth]
  /\ UNCHANGED schedVars

HaltChild ==
  /\ depth[curr_scheduled] > 1
  /\ HaltAt(depth[curr_scheduled] - 1)

\* The shell of a terminal starts again, with a fresh table.  Bound of the
\* model: it exits only while it is displayed (for the other case see halt in
\* Processes).
HaltShell ==
  /\ curr_scheduled = curr_terminal
  /\ depth[curr_scheduled] = 1
  /\ file_array' = [file_array EXCEPT ![Caller] = FreshTable]
  /\ file_arr_size' = [file_arr_size EXCEPT ![Caller] = STDI_O]
  /\ dir_index' = IF \E fd \in Fds : file_array[Caller][fd].kind = "dir"
                  THEN 0 ELSE dir_index
  /\ UNCHANGED <<schedVars, depth>>

-----------------------------------------------------------------------------
WholeCall ==
  \/ \E k \in 1 .. NumEntries : OpenFile(k)
  \/ \E fd \in Fds :
       \/ Close(fd)
       \/ \E n \in ReadSizes : FileRead(fd, n)
       \/ DirRead(fd)
       \/ DirReadEnd(fd)
  \/ Execute
  \/ HaltChild
  \/ HaltShell

-----------------------------------------------------------------------------
(* Properties *)

\* Every variable keeps its range.
TypeOK ==
  /\ curr_terminal \in Terminals
  /\ curr_scheduled \in Terminals
  /\ depth \in [Terminals -> 1 .. MaxDepth]
  /\ file_arr_size \in [Processes -> STDI_O .. MAX_OPEN_FILES]
  /\ dir_index \in 0 .. NumEntries
  /\ DOMAIN file_array = Processes
  /\ \A p \in Processes : DOMAIN file_array[p] = Fds
  /\ \A p \in Processes, fd \in Fds :
       /\ DOMAIN file_array[p][fd] = {"kind", "inode", "f_pos", "got"}
       /\ file_array[p][fd].kind \in Kinds
       /\ file_array[p][fd].kind = "file" => file_array[p][fd].inode \in Inodes
       /\ file_array[p][fd].f_pos \in Nat

\* file_arr_size counts the descriptors that are present.
SizeCountsOpen ==
  \A p \in Processes :
    Live(p) => file_arr_size[p] = STDI_O + Cardinality(Open(p))

\* Byte number k of a file.
ByteOf(inode, k) == <<DataBlocks[inode][(k \div BlockSize) + 1], k % BlockSize>>

=============================================================================
