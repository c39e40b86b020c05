------------------------------ MODULE FileCalls ------------------------------
(***************************************************************************)
(* open, close and read step by step.  Interrupts are on in these calls,   *)
(* so that a tick may stop a program between any two steps and let the     *)
(* program of another terminal work on the same file_array: all of them    *)
(* look up the childmost process of the terminal on the display.  halt     *)
(* closes files with interrupts off and stays one step.                    *)
(***************************************************************************)
EXTENDS Files

CONSTANTS
  TakeTurns,      \* no call begins on a file_array while another is on it
  SteadyDisplay   \* the display waits while a read is between its two lookups

ASSUME TurnsAssumption == TakeTurns \in BOOLEAN /\ SteadyDisplay \in BOOLEAN

VARIABLE call    \* per terminal, where its program stands

callVars == <<vars, call>>

OpenPoints  == {"o_limit", "o_search", "o_mark", "o_fill", "o_load", "o_store",
                "o_init"}
ClosePoints == {"c_check", "c_load", "c_store", "c_clear"}
ReadPoints  == {"r_check", "f_look", "f_copy", "f_load", "f_store",
                "d_check", "d_name", "d_load", "d_store"}

\* The system has stopped in the page fault handler, or a call uses an entry
\* that another call has changed under it.  What follows depends on what
\* earlier programs left in that entry, and the model goes no further.
Stopped == {"fault", "astray"}

Points == {"user", "x_table"} \cup OpenPoints \cup ClosePoints \cup ReadPoints
            \cup Stopped

\* p: the process looked up (cur_pcb); fd: the descriptor; arg: the entry to
\* open or the bytes to read; eax: a value loaded or computed on the way.
Call == [at : Points, p : Processes, fd : 0 .. MAX_OPEN_FILES, arg : Int, eax : Int]
Idle == [at |-> "user", p |-> <<1, 1>>, fd |-> 0, arg |-> 0, eax |-> 0]

Mine  == call[curr_scheduled]
Held == file_array[Mine.p][Mine.fd]

Continue(c) == call' = [call EXCEPT ![curr_scheduled] = c]
MineAt(point) == [Mine EXCEPT !.at = point]

Begin(point, p, fd, arg) ==
  Continue([at |-> point, p |-> p, fd |-> fd, arg |-> arg, eax |-> 0])
MoveTo(point)   == Continue(MineAt(point))
Carry(point, v) == Continue([MineAt(point) EXCEPT !.eax = v])
Leave           == Continue(Idle)

\* Change the entry in hand; MAX_OPEN_FILES is past the end of file_array.
Put(e) == file_array' = IF Mine.fd \in Fds
                        THEN [file_array EXCEPT ![Mine.p][Mine.fd] = e]
                        ELSE file_array

Busy(p) == \E t \in Terminals : call[t].at # "user" /\ call[t].p = p

MayBegin ==
  /\ Mine.at = "user"
  /\ TakeTurns => ~Busy(Displayed)

CallsInit == Init /\ call = [t \in Terminals |-> Idle]

\* A timer tick, at any point of any call, with or without a request to show
\* terminal t.
Tick(t) ==
  /\ Mine.at \notin Stopped
  /\ SteadyDisplay /\ t # curr_terminal =>
       \A u \in Terminals : call[u].at \notin {"r_check", "f_look"}
  /\ curr_terminal' = t
  /\ curr_scheduled' = (curr_scheduled % NT) + 1
  /\ UNCHANGED <<depth, file_array, file_arr_size, dir_index, call>>

-----------------------------------------------------------------------------
(* open *)

\* Nobody has the directory open or is opening it.
NoLister ==
  /\ \A p \in Processes, fd \in Fds : file_array[p][fd].kind # "dir"
  /\ \A t \in Terminals : call[t].at \in OpenPoints => Entries[call[t].arg].type # 1

\* Bound of the model: descriptors open or about to be.
OpenInBound ==
  Cardinality(AllOpen) +
    Cardinality({t \in Terminals : call[t].at \in {"o_limit", "o_search", "o_mark"}})
  < MaxOpen

\* An open that will be refused changes nothing and needs no bound.
OpenBegins(k) ==
  /\ MayBegin
  /\ OpenInBound \/ file_arr_size[Displayed] >= MAX_OPEN_FILES
  /\ OneLister /\ Entries[k].type = 1 => NoLister
  /\ Begin("o_limit", Displayed, 0, k)
  /\ UNCHANGED vars

OpenLimitIgnored ==                                         \* mutant
  /\ Mine.at = "o_limit"
  /\ MoveTo("o_search")
  /\ UNCHANGED vars
OpenLimit ==
  /\ Mine.at = "o_limit"
  /\ IF file_arr_size[Mine.p] >= MAX_OPEN_FILES THEN Leave ELSE MoveTo("o_search")
  /\ UNCHANGED vars

\* The first entry that is not present, or none before the end of file_array.
OpenSearch ==
  /\ Mine.at = "o_search"
  /\ \E fd \in (Fds \cup {MAX_OPEN_FILES}) \ Open(Mine.p) :
       /\ \A free \in Fds \ Open(Mine.p) : fd <= free
       /\ Continue([MineAt("o_mark") EXCEPT !.fd = fd])
  /\ UNCHANGED vars

\* The entry is present, and what else is in it is still its last owner's.
OpenMark ==
  /\ Mine.at = "o_mark"
  /\ Put(Fd("half", 0))
  /\ MoveTo("o_fill")
  /\ UNCHANGED <<schedVars, depth, file_arr_size, dir_index>>

\* The table of operations that the entry past the end is given lies in the
\* kernel, which begins at 4MB; file_arr_size is the first word behind the end.
TableAddress == 4194304

OpenFill ==
  /\ Mine.at = "o_fill"
  /\ Put(KindOf(Entries[Mine.arg]))
  /\ file_arr_size' = IF Mine.fd \in Fds THEN file_arr_size
                      ELSE [file_arr_size EXCEPT ![Mine.p] = TableAddress]
  /\ MoveTo(IF Mine.fd \in Fds /\ Held.kind # "half" THEN "astray" ELSE "o_load")
  /\ UNCHANGED <<schedVars, depth, dir_index>>

\* file_arr_size += 1 is a load, an add and a store in the build.
OpenLoad ==
  /\ Mine.at = "o_load"
  /\ Carry("o_store", file_arr_size[Mine.p])
  /\ UNCHANGED vars

OpenStore ==
  /\ Mine.at = "o_store"
  /\ file_arr_size' = [file_arr_size EXCEPT ![Mine.p] = Mine.eax + 1]
  /\ MoveTo("o_init")
  /\ UNCHANGED <<schedVars, depth, file_array, dir_index>>

\* The operation of the kind.  Past the end, adding one to file_arr_size has
\* moved the pointer to the operations, and the jump ends in a page fault.
OpenInit ==
  /\ Mine.at = "o_init"
  /\ dir_index' = DirOpen(KindOf(Entries[Mine.arg]).kind)
  /\ Continue(IF Mine.fd \in Fds THEN Idle ELSE MineAt("fault"))
  /\ UNCHANGED <<schedVars, depth, file_array, file_arr_size>>

-----------------------------------------------------------------------------
(* close *)

CloseBegins(fd) ==
  /\ MayBegin
  /\ Begin("c_check", Displayed, fd, 0)
  /\ UNCHANGED vars

CloseCheckNothing ==                                        \* mutant
  /\ Mine.at = "c_check"
  /\ MoveTo("c_load")
  /\ UNCHANGED vars
CloseCheck ==
  /\ Mine.at = "c_check"
  /\ IF Held.kind = "none" THEN Leave ELSE MoveTo("c_load")
  /\ UNCHANGED vars

CloseLoad ==
  /\ Mine.at = "c_load"
  /\ Carry("c_store", file_arr_size[Mine.p])
  /\ UNCHANGED vars

CloseStore ==
  /\ Mine.at = "c_store"
  /\ file_arr_size' = [file_arr_size EXCEPT ![Mine.p] = Mine.eax - 1]
  /\ MoveTo("c_clear")
  /\ UNCHANGED <<schedVars, depth, file_array, dir_index>>

CloseClear ==
  /\ Mine.at = "c_clear"
  /\ Put(Absent)
  /\ Leave
  /\ UNCHANGED <<schedVars, depth, file_arr_size, dir_index>>

-----------------------------------------------------------------------------
(* read *)

\* A read of no bytes changes nothing.
ReadBegins(fd, nbytes) ==
  /\ MayBegin
  /\ Begin("r_check", Displayed, fd, nbytes)
  /\ UNCHANGED vars

\* rtc_read leaves the table alone (see Rtc).
ReadCheck ==
  /\ Mine.at = "r_check"
  /\ Continue(CASE Held.kind \in {"none", "rtc"} -> Idle
                [] Held.kind = "half" -> MineAt("astray")
                [] Held.kind = "dir"  -> MineAt("d_check")
                [] Held.kind = "file" -> MineAt("f_look"))
  /\ UNCHANGED vars

\* file_read looks the process up again.
FileLook ==
  /\ Mine.at = "f_look"
  /\ Continue([MineAt("f_copy") EXCEPT !.p = Displayed])
  /\ UNCHANGED vars

FileCopy ==
  /\ Mine.at = "f_copy"
  /\ LET whole == Held.kind = "file"
         bytes == IF whole THEN ReadData(Held.inode, Held.f_pos, Mine.arg) ELSE <<>>
     IN  /\ Put([Held EXCEPT !.got = @ \o bytes])
         /\ Carry(IF whole THEN "f_load" ELSE "astray", Len(bytes))
  /\ UNCHANGED <<schedVars, depth, file_arr_size, dir_index>>

FileLoad ==
  /\ Mine.at = "f_load"
  /\ Carry("f_store", Held.f_pos + Mine.eax)
  /\ UNCHANGED vars

FileStore ==
  /\ Mine.at = "f_store"
  /\ Put([Held EXCEPT !.f_pos = Mine.eax])
  /\ Leave
  /\ UNCHANGED <<schedVars, depth, file_arr_size, dir_index>>

DirCheck ==
  /\ Mine.at = "d_check"
  /\ IF dir_index >= NumEntries THEN Leave ELSE MoveTo("d_name")
  /\ UNCHANGED vars

\* read_dentry_by_index refuses only an index past the number of entries.
DirName ==
  /\ Mine.at = "d_name"
  /\ Put(IF Held.kind = "dir" /\ dir_index <= NumEntries
         THEN [Held EXCEPT !.got = Append(@, dir_index)]
         ELSE Held)
  /\ Continue(IF dir_index > NumEntries THEN Idle ELSE MineAt("d_load"))
  /\ UNCHANGED <<schedVars, depth, file_arr_size, dir_index>>

DirLoad ==
  /\ Mine.at = "d_load"
  /\ Carry("d_store", dir_index)
  /\ UNCHANGED vars

DirStore ==
  /\ Mine.at = "d_store"
  /\ dir_index' = Mine.eax + 1
  /\ Leave
  /\ UNCHANGED <<schedVars, depth, file_array, file_arr_size>>

-----------------------------------------------------------------------------
(* execute and halt *)

\* A new program is the one that calls look up before its table is set up.
Launch ==
  /\ MayBegin
  /\ curr_scheduled = curr_terminal
  /\ depth[curr_terminal] < MaxDepth
  /\ depth' = [depth EXCEPT ![curr_terminal] = @ + 1]
  /\ Begin("x_table", <<curr_terminal, depth[curr_terminal] + 1>>, 0, 0)
  /\ UNCHANGED <<schedVars, file_array, file_arr_size, dir_index>>

\* Bound of the model: execute sets the whole table up in one step.
InitTable ==
  /\ Mine.at = "x_table"
  /\ file_array' = [file_array EXCEPT ![Mine.p] = FreshTable]
  /\ file_arr_size' = [file_arr_size EXCEPT ![Mine.p] = STDI_O]
  /\ Leave
  /\ UNCHANGED <<schedVars, depth, dir_index>>

MayEnd == MayBegin /\ (TakeTurns => ~Busy(Caller))

EndProgram ==
  /\ MayEnd
  /\ HaltChild
  /\ UNCHANGED call

\* The new shell's table is set up with interrupts on.
EndShell ==
  /\ MayEnd
  /\ curr_scheduled = curr_terminal
  /\ depth[curr_scheduled] = 1
  /\ HaltAt(1)
  /\ Begin("x_table", Caller, 0, 0)

-----------------------------------------------------------------------------
OpenStep  == OpenLimit \/ OpenSearch \/ OpenMark \/ OpenFill \/ OpenLoad
               \/ OpenStore \/ OpenInit
CloseStep == CloseCheck \/ CloseLoad \/ CloseStore \/ CloseClear
ReadStep  == ReadCheck \/ FileLook \/ FileCopy \/ FileLoad \/ FileStore
               \/ DirCheck \/ DirName \/ DirLoad \/ DirStore

CallsNext ==
  \/ \E t \in Terminals : Tick(t)
  \/ \E k \in 1 .. NumEntries : OpenBegins(k)
  \/ \E fd \in Fds :
       \/ CloseBegins(fd)
       \/ \E n \in ReadSizes : ReadBegins(fd, n)
  \/ OpenStep
  \/ CloseStep
  \/ ReadStep
  \/ Launch
  \/ InitTable
  \/ EndProgram
  \/ EndShell

CallsSpec == CallsInit /\ [][CallsNext]_callVars

-----------------------------------------------------------------------------
(* Properties *)

\* Every variable keeps its range.
CallsTypeOK ==
  /\ curr_terminal \in Terminals
  /\ curr_scheduled \in Terminals
  /\ depth \in [Terminals -> 1 .. MaxDepth]
  /\ file_arr_size \in [Processes -> Int]
  /\ dir_index \in Int
  /\ DOMAIN file_array = Processes
  /\ \A p \in Processes : DOMAIN file_array[p] = Fds
  /\ \A p \in Processes, fd \in Fds :
       /\ DOMAIN file_array[p][fd] = {"kind", "inode", "f_pos", "got"}
       /\ file_array[p][fd].kind \in Kinds \cup {"half"}
       /\ file_array[p][fd].kind = "file" => file_array[p][fd].inode \in Inodes
       /\ file_array[p][fd].f_pos \in Int
  /\ call \in [Terminals -> Call]
  /\ \A t \in Terminals :
       /\ call[t].at \in OpenPoints => call[t].arg \in 1 .. NumEntries
       /\ call[t].at \in ClosePoints \cup ReadPoints => call[t].fd \in Fds
       /\ call[t].at \in ReadPoints => call[t].arg \in Nat

\* sys_calls.c:311 "at the end of this i should be index of empty entry".  open
\* relies on file_arr_size to find a free descriptor without looking past the
\* end of file_array: in every running process on whose table no call is half
\* done the count is exact, however its descriptors were opened, closed and
\* inherited by slot and wherever the ticks came.
CountsAtRest ==
  \A p \in Processes :
    Live(p) /\ ~Busy(p) => file_arr_size[p] = STDI_O + Cardinality(Open(p))

Raising(p, fd) == \E t \in Terminals : /\ call[t].at \in {"f_load", "f_store"}
                                      /\ call[t].p = p /\ call[t].fd = fd

\* The reads of a descriptor deliver, one after the other, the bytes of the
\* file it was opened on, in order and without a gap, across blocks and
\* whatever the other descriptors do (as far as the file goes).
ReadInOrder ==
  \A p \in Processes, fd \in Fds :
    LET e == file_array[p][fd] IN
      e.kind = "file" =>
        /\ ~Raising(p, fd) => Len(e.got) = e.f_pos
        /\ \A k \in 1 .. Len(e.got) :
             k <= FileLength[e.inode] => e.got[k] = ByteOf(e.inode, k - 1)

\* filesys.c:213-216 "subsequent reads should read from successive directory
\* entries until the last is reached".  With one reader of the directory, its
\* reads return every entry once, then the end.
EachEntryOnce ==
  /\ [](\A p \in Processes, fd \in Fds :
          file_array[p][fd].kind = "dir" =>
            file_array[p][fd].got = [k \in 1 .. Len(file_array[p][fd].got) |-> k - 1])
  /\ [][DirCheck /\ dir_index >= NumEntries => Len(Held.got) = NumEntries]_callVars

\* filesys.c:136-137 "data should be read to the end of the file or the end of
\* the buffer provided, whichever occurs sooner".
StopsAtEndOfFile ==
  \A p \in Processes, fd \in Fds :
    LET e == file_array[p][fd] IN e.kind = "file" => e.f_pos <= FileLength[e.inode]

-----------------------------------------------------------------------------
(* Why they hold: what is true of every call between its steps *)

\* There is one call at a time on a table, a running process's, and a read's
\* second lookup finds the process of the first.
Turns ==
  /\ \A t, u \in Terminals :
       call[t].at # "user" /\ call[u].at # "user" /\ call[t].p = call[u].p => t = u
  /\ \A t \in Terminals :
       /\ call[t].at \notin Stopped
       /\ call[t].at # "user" => Live(call[t].p)
       /\ call[t].at \in {"r_check", "f_look"} => call[t].p = Displayed

\* An entry is half open only in the hands of the open that marked it.
HalfOpen ==
  \A p \in Processes, fd \in Fds :
    file_array[p][fd].kind = "half" =>
      \E t \in Terminals : call[t].at = "o_fill" /\ call[t].p = p /\ call[t].fd = fd

\* Descriptors present but not in the count.
Ahead(c) == IF c.at \in {"o_fill", "o_load", "o_store", "c_clear"} THEN 1 ELSE 0

\* What a call counts on: the descriptor found is free, and then its own; the
\* values loaded are still those in memory.
CallInStep(c) ==
  LET e == file_array[c.p][c.fd] IN
  /\ c.at \in OpenPoints \cup ClosePoints \cup ReadPoints =>
       file_arr_size[c.p] + Ahead(c) = STDI_O + Cardinality(Open(c.p))
  /\ c.at = "o_search" => file_arr_size[c.p] < MAX_OPEN_FILES
  /\ c.at = "o_mark" => c.fd \in Fds \ Open(c.p)
  /\ c.at = "o_fill" => c.fd \in Fds /\ e.kind = "half"
  /\ c.at \in {"o_load", "o_store", "o_init"} =>
       c.fd \in Fds /\ e = KindOf(Entries[c.arg])
  /\ c.at \in ClosePoints \ {"c_check"} => e.kind # "none"
  /\ c.at \in {"o_store", "c_store"} => c.eax = file_arr_size[c.p]
  /\ c.at \in {"f_look", "f_copy", "f_load", "f_store"} => e.kind = "file"
  /\ c.at \in {"d_check", "d_name", "d_load", "d_store"} => e.kind = "dir"

CallsIInv ==
  /\ CallsTypeOK
  /\ Turns
  /\ HalfOpen
  /\ \A t \in Terminals : CallInStep(call[t])
  /\ CountsAtRest

=============================================================================
