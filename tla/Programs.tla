------------------------------ MODULE Programs ------------------------------
(***************************************************************************)
(* The user programs of src/syscalls on the system calls of the kernel:    *)
(* shell, cat, ls, grep, hello, testprint and syserr, one step for each    *)
(* call that can fail or change something, composed with the descriptors   *)
(* and the file system of Files.  execute (its parsing of the command),    *)
(* getargs and halt (its clearing of the arguments) are here.              *)
(*                                                                         *)
(* One terminal is in use, so that the terminal on display is the one that *)
(* runs and no other program's call comes between the steps of a call (for *)
(* several see FileCalls).  A process is its depth in that terminal's      *)
(* stack, which is also its slot.                                          *)
(***************************************************************************)
EXTENDS Files, SequencesExt

CONSTANTS
  BUFSIZE,         \* of cat and grep: 1024
  FILE_NAME_SIZE,  \* 32, also the size of execute's file name
  MAX_ARGS,        \* 127
  ProgramOf,       \* inode -> program, of the executable files
  HelloName,       \* the file name "hello"
  ShellName,       \* the file name "shell"
  ExitWord,        \* the word "exit"
  Dot,             \* the name "."
  Lines,           \* the commands typed: [word, rest], after the first space
  Disks,           \* block -> place -> byte: the images considered
  StackBytes       \* what may lie on a new program's stack

NUL == "NUL"
NL  == "NL"

ProgramNames == {"shell", "cat", "ls", "grep", "hello", "testprint", "syserr"}
IsSequence(s) == Len(s) \in Nat /\ s = [k \in 1 .. Len(s) |-> s[k]]

ASSUME OneTerminalAssumption == NT = 1 /\ ~OneLister
\* syserr's third test is written for eight descriptors.
ASSUME ProgramSizesAssumption ==
  /\ BUFSIZE \in Nat /\ FILE_NAME_SIZE \in 1 .. BUFSIZE /\ MAX_ARGS \in Nat
  /\ MAX_OPEN_FILES = 8
  /\ \A i \in DOMAIN ProgramOf : ProgramOf[i] \in ProgramNames

\* The image: no entry is nameless, "." is the directory.
ASSUME NamesAssumption ==
  /\ \A k \in 1 .. NumEntries : /\ IsSequence(Entries[k].name)
                                /\ Len(Entries[k].name) \in 1 .. FILE_NAME_SIZE
  /\ \E k \in 1 .. NumEntries : Entries[k].name = Dot
  /\ \A k \in 1 .. NumEntries : Entries[k].name = Dot => Entries[k].type = 1

\* A read that starts in a file or at its end may run past the end
\* (StopsAtEndOfFile), by at most BUFSIZE bytes and never more than the file is
\* long.  What lies there is the rest of the last data block, zeros in an image.
ASSUME PaddingAssumption ==
  \A i \in Inodes :
    LET past == IF FileLength[i] < BUFSIZE THEN FileLength[i] ELSE BUFSIZE
    IN  \A d \in Disks : \A k \in FileLength[i] .. FileLength[i] + past - 1 :
          d[ByteOf(i, k)[1]][ByteOf(i, k)[2]] = NUL

\* "." is the only directory, no two entries have one name, and none has the
\* colon that grep writes behind it.
ASSUME DirectoryAssumption ==
  /\ \A k \in 1 .. NumEntries : Entries[k].type = 1 => Entries[k].name = Dot
  /\ \A k, j \in 1 .. NumEntries : Entries[k].name = Entries[j].name => k = j
  /\ \A k \in 1 .. NumEntries :
       \A p \in 1 .. Len(Entries[k].name) : Entries[k].name[p] # ":"

VARIABLES
  disk,      \* the bytes of the data blocks
  prog,      \* per process: the program it runs
  command,   \* per process: the line that started it (history)
  args,      \* per process: the args field of its PCB
  pc,        \* where the running program stands
  local,     \* its variables
  out        \* what was written since the last command (history)

kernelVars == <<vars, args>>
allVars == <<vars, disk, prog, command, args, pc, local, out>>

Me      == depth[curr_terminal]
At(program, point) == prog[Me] = program /\ pc = point

NoLine == [word |-> <<>>, rest |-> <<>>]
NoArgs == [k \in 1 .. MAX_ARGS |-> NUL]

\* fd: the file or directory read; file_fd: grep's file; buf: a name or data on
\* its way; search: grep's pattern; data, last: grep's buffer and how much of it
\* is filled; dirt: what lay on the stack; cnt: bytes grep read last, opens that
\* failed in syserr; script, fail: syserr's calls to come, whether one went
\* wrong; status: for halt.
Locals(dirt) ==
  [fd |-> 0, file_fd |-> 0, buf |-> <<>>, search |-> <<>>,
   data |-> [k \in 0 .. BUFSIZE |-> dirt], last |-> 0, dirt |-> dirt,
   script |-> <<>>, fail |-> FALSE, cnt |-> 0, status |-> 0]

ProgramsInit ==
  /\ Init
  /\ disk \in Disks
  /\ prog = [d \in 1 .. MaxDepth |-> "shell"]
  /\ command = [d \in 1 .. MaxDepth |-> NoLine]
  /\ args = [d \in 1 .. MaxDepth |-> NoArgs]
  /\ pc = "read"
  /\ local = Locals(NUL)
  /\ out = <<>>

-----------------------------------------------------------------------------
(* System calls: when they return -1, and what they do otherwise *)

Present(fd) == fd \in {0, 1} \/ fd \in Open(Displayed)

\* strncmp compares FILE_NAME_SIZE characters: a longer name is cut.
Cut(name) == SubSeq(name, 1, IF Len(name) < FILE_NAME_SIZE THEN Len(name)
                                                           ELSE FILE_NAME_SIZE)
LookupPrefix(name) ==                                       \* mutant
  {k \in 1 .. NumEntries : IsPrefix(Cut(name), Entries[k].name)}
Lookup(name) == {k \in 1 .. NumEntries : Entries[k].name = Cut(name)}

\* syserr's fourth test wants "helloo" and "shel" not to be files.
WrongNames == {Append(HelloName, Last(HelloName)), Front(ShellName)}
ASSUME WrongNamesAssumption ==
  \A name \in WrongNames : \A k \in 1 .. NumEntries : Entries[k].name # Cut(name)

CanOpen(name)  == Lookup(name) # {} /\ file_arr_size[Displayed] < MAX_OPEN_FILES
CanClose(fd)   == fd \in Fds /\ Present(fd)
CanRead(fd)    == fd \in 0 .. MAX_OPEN_FILES - 1 /\ fd # 1 /\ Present(fd)
CanWrite(fd)   == /\ fd \in 0 .. MAX_OPEN_FILES - 1 /\ fd # 0 /\ Present(fd)
                  /\ fd # 1 => file_array[Displayed][fd].kind = "rtc"
CanVidmap(mb)  == mb >= 128 /\ mb < 132       \* the program's page, in MB
CanCall(num)   == num >= 1 /\ num <= 10

LowestFree == CHOOSE fd \in Fds \ Open(Displayed) :
                \A g \in Fds \ Open(Displayed) : fd <= g

OpenCall(name) == \/ CanOpen(name) /\ \E k \in Lookup(name) : OpenFile(k)
                  \/ ~CanOpen(name) /\ UNCHANGED vars
CloseCall(fd)  == \/ CanClose(fd) /\ Close(fd)
                  \/ ~CanClose(fd) /\ UNCHANGED vars

\* What a read of n bytes puts into the caller's buffer.  rtc_read returns 0.
Delivered(fd, n) ==
  LET e == file_array[Displayed][fd] IN
  CASE e.kind = "file" -> LET cells == ReadData(e.inode, e.f_pos, n)
                          IN  [k \in DOMAIN cells |-> disk[cells[k][1]][cells[k][2]]]
    [] e.kind = "dir"  -> IF dir_index >= NumEntries THEN <<>>
                          ELSE LET name == Entries[dir_index + 1].name
                               IN  SubSeq(name, 1, IF Len(name) < n THEN Len(name) ELSE n)
    [] OTHER -> <<>>

ReadCall(fd, n) ==
  \/ CanRead(fd) /\ (FileRead(fd, n) \/ DirRead(fd) \/ DirReadEnd(fd))
  \/ ~CanRead(fd) /\ UNCHANGED vars
  \/ CanRead(fd) /\ file_array[Displayed][fd].kind = "rtc" /\ UNCHANGED vars

UpToNul(s) == LET ends == {k \in DOMAIN s : s[k] = NUL}
              IN  IF ends = {} THEN s ELSE SubSeq(s, 1, Min(ends) - 1)

\* getargs: the characters up to the first NUL, if they fit.
GetArgs == UpToNul(args[Me])
ArgsFit(nbytes) == Len(GetArgs) <= nbytes - 1

\* execute cuts the first word at 32 characters and takes what follows it,
\* without the spaces, for the arguments; they are copied without a terminator.
Arguments(line) ==
  LET more == SubSeq(line.word, FILE_NAME_SIZE + 1, Len(line.word))
  IN  IF more # <<>> /\ line.rest # <<>> THEN more \o <<" ">> \o line.rest
      ELSE more \o line.rest
\* A line is at most 127 characters with its command, and holds no NUL.
ASSUME LinesAssumption ==
  \A line \in Lines :
    LET typed == Arguments(line) IN
      /\ IsSequence(typed) /\ Len(typed) <= MAX_ARGS
      /\ \A k \in 1 .. Len(typed) : typed[k] # NUL
Overwrite(field, s) ==
  [k \in 1 .. MAX_ARGS |-> IF k <= Len(s) THEN s[k] ELSE field[k]]

Executable(name) == {k \in Lookup(name) : Entries[k].inode \in DOMAIN ProgramOf}

-----------------------------------------------------------------------------
(* Steps common to the programs *)

Goto(point, l) == pc' = point /\ local' = l
Stay == UNCHANGED <<disk, prog, command, args>>
Say(chunk) == out' = Append(out, chunk)

\* return status from main, with a message or without one.
Return(status) == Goto("halt", [local EXCEPT !.status = status]) /\ UNCHANGED out
Fail(message, status) ==
  Goto("halt", [local EXCEPT !.status = status]) /\ Say(<<message>>)

HaltLeavesArgs == args                                      \* mutant
ClearArgs == [args EXCEPT ![Me] = NoArgs]

\* halt: back in the shell, which tells of a status that is not 0.  The bottom
\* shell starts again.
Halt ==
  /\ pc = "halt"
  /\ \/ HaltChild /\ (IF local.status = 0 THEN UNCHANGED out
                      ELSE Say(<<"program terminated abnormally">>))
     \/ Me = 1 /\ HaltShell /\ UNCHANGED out
  /\ args' = ClearArgs
  /\ Goto("read", Locals(NUL))
  /\ UNCHANGED <<disk, prog, command>>

-----------------------------------------------------------------------------
(* shell *)

ShellRead(line) ==
  /\ At("shell", "read")
  /\ CanRead(0)
  /\ out' = <<>>
  /\ Goto(IF line = [word |-> ExitWord, rest |-> <<>>] THEN "halt"
          ELSE IF line = NoLine THEN "read" ELSE "execute",
          [local EXCEPT !.buf = line])
  /\ UNCHANGED vars /\ Stay

ShellExecute ==
  /\ At("shell", "execute")
  /\ LET line == local.buf IN
     IF Me = MaxDepth
       THEN /\ Say(<<"MAX PROCESSES REACHED">>) /\ Goto("read", Locals(NUL))
            /\ UNCHANGED vars /\ Stay
     ELSE IF Executable(line.word) = {}
       THEN /\ Say(<<"no such command">>) /\ Goto("read", Locals(NUL))
            /\ UNCHANGED vars /\ Stay
     ELSE \E k \in Executable(line.word) :
            /\ Execute
            /\ prog' = [prog EXCEPT ![Me + 1] = ProgramOf[Entries[k].inode]]
            /\ command' = [command EXCEPT ![Me + 1] = line]
            /\ args' = [args EXCEPT ![Me + 1] = Overwrite(@, Arguments(line))]
            /\ Goto(IF ProgramOf[Entries[k].inode] = "shell" THEN "read" ELSE "main",
                    Locals(NUL))
            /\ UNCHANGED <<disk, out>>

-----------------------------------------------------------------------------
(* cat, ls, hello and testprint *)

CatArgs ==
  /\ At("cat", "main")
  /\ IF ArgsFit(BUFSIZE) THEN Goto("open", [local EXCEPT !.buf = GetArgs]) /\ UNCHANGED out
                         ELSE Fail("could not read arguments", 3)
  /\ UNCHANGED vars /\ Stay

CatOpen ==
  /\ At("cat", "open")
  /\ OpenCall(local.buf)
  /\ IF CanOpen(local.buf) THEN Goto("loop", [local EXCEPT !.fd = LowestFree]) /\ UNCHANGED out
                           ELSE Fail("file not found", 2)
  /\ Stay

CatReadForever ==                                           \* mutant
  /\ At("cat", "loop")
  /\ ReadCall(local.fd, BUFSIZE)
  /\ LET got == Delivered(local.fd, BUFSIZE) IN
       /\ Goto(IF got = <<>> THEN "loop" ELSE "write", [local EXCEPT !.buf = got])
       /\ UNCHANGED out
  /\ Stay
CatRead ==
  /\ At("cat", "loop")
  /\ ReadCall(local.fd, BUFSIZE)
  /\ LET got == Delivered(local.fd, BUFSIZE) IN
       IF ~CanRead(local.fd) THEN Fail("file read failed", 3)
       ELSE IF got = <<>> THEN Return(0)
       ELSE Goto("write", [local EXCEPT !.buf = got]) /\ UNCHANGED out
  /\ Stay

CatWrite ==
  /\ At("cat", "write")
  /\ IF CanWrite(1) THEN Say(local.buf) /\ Goto("loop", local) ELSE Return(3)
  /\ UNCHANGED vars /\ Stay

LsOpen ==
  /\ At("ls", "main")
  /\ OpenCall(Dot)
  /\ IF CanOpen(Dot) THEN Goto("loop", [local EXCEPT !.fd = LowestFree]) /\ UNCHANGED out
                     ELSE Fail("directory open failed", 2)
  /\ Stay

LsRead ==
  /\ At("ls", "loop")
  /\ ReadCall(local.fd, FILE_NAME_SIZE)
  /\ LET got == Delivered(local.fd, FILE_NAME_SIZE) IN
       IF ~CanRead(local.fd) THEN Fail("directory entry read failed", 3)
       ELSE IF got = <<>> THEN Return(0)
       ELSE Goto("write", [local EXCEPT !.buf = Append(got, NL)]) /\ UNCHANGED out
  /\ Stay

LsWrite ==
  /\ At("ls", "write")
  /\ IF CanWrite(1) THEN Say(local.buf) /\ Goto("loop", local) ELSE Return(3)
  /\ UNCHANGED vars /\ Stay

HelloAsk ==
  /\ At("hello", "main")
  /\ Say(<<"Hi, what's your name? ">>)
  /\ Goto("answer", local)
  /\ UNCHANGED vars /\ Stay

HelloAnswer ==
  /\ At("hello", "answer")
  /\ IF CanRead(0) THEN Say(<<"Hello, ">>) /\ Goto("halt", local)
                   ELSE Fail("Can't read name from keyboard.", 3)
  /\ UNCHANGED vars /\ Stay

TestPrint ==
  /\ At("testprint", "main")
  /\ Fail("Hello, if this ran, the program was correct. Yay!", 0)
  /\ UNCHANGED vars /\ Stay

-----------------------------------------------------------------------------
(* grep *)

GrepArgs ==
  /\ At("grep", "main")
  /\ IF ArgsFit(BUFSIZE)
       THEN /\ \E dirt \in StackBytes :
                 Goto("opendir", [Locals(dirt) EXCEPT !.search = GetArgs])
            /\ UNCHANGED out
       ELSE Fail("could not read argument", 3)
  /\ UNCHANGED vars /\ Stay

GrepOpenDir ==
  /\ At("grep", "opendir")
  /\ OpenCall(Dot)
  /\ IF CanOpen(Dot) THEN Goto("readdir", [local EXCEPT !.fd = LowestFree]) /\ UNCHANGED out
                     ELSE Fail("directory open failed", 2)
  /\ Stay

\* Names that begin with a dot are skipped.
GrepReadDir ==
  /\ At("grep", "readdir")
  /\ ReadCall(local.fd, FILE_NAME_SIZE)
  /\ LET name == Delivered(local.fd, FILE_NAME_SIZE) IN
       IF ~CanRead(local.fd) THEN Fail("directory entry read failed", 3)
       ELSE IF name = <<>> THEN Return(0)
       ELSE /\ Goto(IF name[1] = Dot[1] THEN "readdir" ELSE "open", [local EXCEPT !.buf = name])
            /\ UNCHANGED out
  /\ Stay

GrepOpen ==
  /\ At("grep", "open")
  /\ OpenCall(local.buf)
  /\ IF CanOpen(local.buf)
       THEN /\ Goto("readfile", [local EXCEPT !.file_fd = LowestFree, !.last = 0])
            /\ UNCHANGED out
       ELSE Fail("file open failed", 3)
  /\ Stay

\* A set of numbers in ascending order.
InOrder(S) ==
  CHOOSE order \in [1 .. Cardinality(S) -> S] :
    /\ \A i, j \in 1 .. Cardinality(S) : i < j => order[i] < order[j]
    /\ \A x \in S : \E i \in 1 .. Cardinality(S) : order[i] = x

\* The bytes data[from .. to-1] as a string.
Slice(data, from, to) == [k \in 1 .. to - from |-> data[from + k - 1]]
Occurs(s, text) ==
  IF s = <<>> THEN \E k \in DOMAIN text : text[k] = NUL
  ELSE \E k \in 0 .. Len(text) - Len(s) : SubSeq(text, k + 1, k + Len(s)) = s

\* One pass of do_one_file over its buffer, of which last bytes are filled.  The
\* lines start at 0 and after each newline; the last one, without a newline,
\* ends at last.  It is kept for the next read unless nothing more was read, it
\* fills the buffer from the start, or the stale byte after it is a newline.
LineStarts(data, last) ==
  {0} \cup {k \in 1 .. last - 1 : data[k - 1] = NL}
LineEnd(data, last, start) ==
  Min({k \in start .. last - 1 : data[k] = NL} \cup {last})
KeptNever(data, last, cnt) == {}                            \* mutant
Kept(data, last, cnt) ==
  {start \in LineStarts(data, last) :
     /\ LineEnd(data, last, start) = last
     /\ data[last] # NL /\ cnt # 0 /\ start # 0}

\* The newlines of the lines that were looked at are overwritten.
Ended(data, last) ==
  [k \in 0 .. BUFSIZE |->
     IF \E start \in LineStarts(data, last) : LineEnd(data, last, start) = k
       THEN NUL ELSE data[k]]

\* strcpy of the kept line to the start stops at its first NUL.
Moved(data, last, start) ==
  LET text == UpToNul(Slice(data, start, last))
  IN  [k \in 0 .. BUFSIZE |-> IF k < Len(text) THEN text[k + 1]
                              ELSE IF k = Len(text) THEN NUL ELSE data[k]]

\* The start and the text of the lines that are printed, in order.
Matches(data, last, cnt, s) ==
  LET hit == {start \in LineStarts(data, last) \ Kept(data, last, cnt) :
                Occurs(s, Slice(data, start, LineEnd(data, last, start)))}
      order == InOrder(hit)
  IN  [k \in DOMAIN order |->
         UpToNul(Slice(data, order[k], LineEnd(data, last, order[k])))]

Printed(name, text) == name \o <<":">> \o text \o <<NL>>

WholeBuffer == BUFSIZE                                      \* mutant
Room == BUFSIZE - local.last

GrepReadFile ==
  /\ At("grep", "readfile")
  /\ LET got == Delivered(local.file_fd, Room)
     IN  /\ ReadCall(local.file_fd, Room)
         /\ IF ~CanRead(local.file_fd) THEN Fail("file read failed", 3)
            ELSE /\ Goto("scan", [local EXCEPT
                      !.data = [k \in 0 .. BUFSIZE |->
                                  IF k \in local.last .. local.last + Len(got) - 1
                                  THEN got[k - local.last + 1] ELSE @[k]],
                      !.last = @ + Len(got), !.cnt = Len(got)])
                 /\ UNCHANGED out
  /\ Stay

\* The lines are looked at and printed; a kept one moves to the start.
GrepScan ==
  /\ At("grep", "scan")
  /\ LET found == Matches(local.data, local.last, local.cnt, local.search)
         kept  == Kept(local.data, local.last, local.cnt)
         ended == Ended(local.data, local.last)
     IN  /\ out' = out \o [k \in DOMAIN found |-> Printed(local.buf, found[k])]
         /\ \/ /\ kept = {}
               /\ Goto(IF local.cnt = 0 THEN "close" ELSE "readfile",
                       [local EXCEPT !.data = ended, !.last = 0])
            \/ \E start \in kept :
                 Goto("readfile", [local EXCEPT !.data = Moved(ended, local.last, start),
                                                !.last = @ - start])
  /\ UNCHANGED vars /\ Stay

GrepClose ==
  /\ At("grep", "close")
  /\ CloseCall(local.file_fd)
  /\ IF CanClose(local.file_fd) THEN Goto("readdir", local) /\ UNCHANGED out
                                ELSE Fail("file close failed", 3)
  /\ Stay

-----------------------------------------------------------------------------
(* syserr *)

NEG == -1073741823
BIG == 1073741823

\* A call of a test: must is "fail" where the test wants -1, "count" where it
\* counts the failures, "any" where it does not look.
Entry(call, arg, must) == [call |-> call, arg |-> arg, must |-> must]
Each(call, fds, must)  == [k \in DOMAIN fds |-> Entry(call, fds[k], must)]
FdsFrom(low) == [k \in 1 .. MAX_OPEN_FILES - low |-> low + k - 1]
OnFd(fd) == << Entry("read", fd, "fail"), Entry("write", fd, "fail"),
               Entry("close", fd, "fail") >>

Test(n) ==
  CASE n = 1 -> OnFd(NEG)
    [] n = 2 -> OnFd(BIG)
    [] n = 3 -> Each("open", [k \in 1 .. 7 |-> Dot], "count")
                  \o Each("close", FdsFrom(2), "any")
    [] n = 4 -> Each("open", << Append(HelloName, Last(HelloName)),
                                Front(ShellName), <<>> >>, "fail")
    [] n = 5 -> Each("close", FdsFrom(0), "fail") \o Each("read", FdsFrom(2), "fail")
                  \o Each("write", FdsFrom(2), "fail")
    [] n = 6 -> Each("vidmap", <<0, 4>>, "fail")
    [] n = 7 -> << Entry("write", 0, "fail"), Entry("read", 1, "fail") >>
    [] n = 8 -> Each("number", <<0, BIG, NEG>>, "fail")

Script(n) ==
  LET WithVerdict(k) == Append(Test(k), Entry("verdict", k, "any"))
  IN  CASE n = 0 -> FlattenSeq([k \in 1 .. 8 |-> WithVerdict(k)])
        [] n \in 1 .. 8 -> WithVerdict(n)
        [] n = 9 -> <<>>

SyserrAsk ==
  /\ At("syserr", "main")
  /\ Say(<<"Choose from tests 1-8. 0 to run all: ">>)
  /\ Goto("choose", local)
  /\ UNCHANGED vars /\ Stay

\* 9 stands for every other key.
SyserrChoose(n) ==
  /\ At("syserr", "choose")
  /\ IF CanRead(0) THEN Goto(IF n = 9 THEN "halt" ELSE "test", [local EXCEPT !.script = Script(n)])
                   ELSE Goto("halt", [local EXCEPT !.status = 2])
  /\ UNCHANGED <<vars, out>> /\ Stay

\* The next call of the test, its effect and what the test makes of the result.
Succeeds(e) ==
  CASE e.call = "read"   -> CanRead(e.arg)
    [] e.call = "write"  -> CanWrite(e.arg)
    [] e.call = "close"  -> CanClose(e.arg)
    [] e.call = "open"   -> CanOpen(e.arg)
    [] e.call = "vidmap" -> CanVidmap(e.arg)
    [] e.call = "number" -> CanCall(e.arg)

SyserrCall ==
  /\ At("syserr", "test")
  /\ local.script # <<>>
  /\ LET e == Head(local.script) IN
       /\ e.call # "verdict"
       /\ CASE e.call = "read"  -> ReadCall(e.arg, 31)
            [] e.call = "close" -> CloseCall(e.arg)
            [] e.call = "open"  -> OpenCall(e.arg)
            [] OTHER -> UNCHANGED vars
       /\ Goto("test", [local EXCEPT !.script = Tail(@),
                          !.fail = @ \/ (e.must = "fail" /\ Succeeds(e)),
                          !.cnt = IF e.must = "count" /\ ~Succeeds(e) THEN @ + 1 ELSE @])
  /\ UNCHANGED out /\ Stay

SyserrVerdict ==
  /\ At("syserr", "test")
  /\ local.script # <<>>
  /\ Head(local.script).call = "verdict"
  /\ LET failed == IF Head(local.script).arg = 3 THEN local.cnt # 1 ELSE local.fail IN
       /\ Goto("test", [local EXCEPT !.script = Tail(@), !.fail = FALSE, !.cnt = 0,
                                     !.status = IF failed THEN @ + 2 ELSE @])
       /\ Say(<<IF failed THEN "FAIL" ELSE "PASS">>)
  /\ UNCHANGED vars /\ Stay

SyserrEnd ==
  /\ At("syserr", "test")
  /\ local.script = <<>>
  /\ Goto("halt", local)
  /\ UNCHANGED <<vars, out>> /\ Stay

-----------------------------------------------------------------------------
\* The programs need the user only at a prompt.
Step ==
  \/ ShellExecute \/ Halt
  \/ CatArgs \/ CatOpen \/ CatRead \/ CatWrite
  \/ LsOpen \/ LsRead \/ LsWrite
  \/ HelloAsk \/ TestPrint
  \/ GrepArgs \/ GrepOpenDir \/ GrepReadDir \/ GrepOpen \/ GrepReadFile \/ GrepScan
  \/ GrepClose
  \/ SyserrAsk \/ SyserrCall \/ SyserrVerdict \/ SyserrEnd

Typed == \/ \E line \in Lines : ShellRead(line)
         \/ HelloAnswer
         \/ \E n \in 0 .. 9 : SyserrChoose(n)

ProgramsNext == Step \/ Typed

ProgramsSpec == ProgramsInit /\ [][ProgramsNext]_allVars
\* A program that can take a step takes it.
ProgramsFairSpec == ProgramsSpec /\ WF_allVars(Step)

-----------------------------------------------------------------------------
(* Properties *)

\* Every variable keeps its range, also those of Files.
ProgramsTypeOK ==
  /\ TypeOK
  /\ \A d \in 1 .. MaxDepth :
       /\ prog[d] \in ProgramNames
       /\ DOMAIN args[d] = 1 .. MAX_ARGS
  /\ local.last \in 0 .. BUFSIZE /\ DOMAIN local.data = 0 .. BUFSIZE
  /\ local.status \in 0 .. 255

\* execute copies the arguments without a terminator and relies on the halt of
\* the slot's last process for the NULs after them: what getargs finds is what
\* was typed after the command, whatever ran in the slot before.
ArgsAreOwn ==
  \A d \in 2 .. MaxDepth :
    d <= depth[1] => UpToNul(args[d]) = Arguments(command[d])

Finished(program) == At(program, "halt") /\ local.status = 0
FileBytes(i) == [k \in 1 .. FileLength[i] |->
                   disk[ByteOf(i, k - 1)[1]][ByteOf(i, k - 1)[2]]]
AllNames(end) == FlattenSeq([k \in 1 .. NumEntries |-> Entries[k].name \o end])

\* The bytes of file i, then NULs, which terminal_write does not print.
ShowsFile(i, text) ==
  /\ Len(text) >= FileLength[i]
  /\ \A k \in 1 .. Len(text) :
       text[k] = IF k <= FileLength[i] THEN FileBytes(i)[k] ELSE NUL

\* cat has written the bytes of the file named, once and in order, or the names
\* in the directory, and ls every name on a line of its own: the reads past the
\* end of a file add only NULs.
CatShowsFile ==
  /\ Finished("cat") =>
       \E k \in Lookup(Arguments(command[Me])) :
         CASE Entries[k].type = 0 -> FlattenSeq(out) = <<>>
           [] Entries[k].type = 1 -> FlattenSeq(out) = AllNames(<<>>)
           [] Entries[k].type = 2 -> ShowsFile(Entries[k].inode, FlattenSeq(out))
  /\ Finished("ls") => FlattenSeq(out) = AllNames(<<NL>>)

\* Where the lines of a text that hold a pattern start, and the line at a start.
LineFrom(text, start) ==
  SubSeq(text, start, Min({j \in start .. Len(text) : text[j] = NL} \cup {Len(text) + 1}) - 1)
LinesWith(text, s) ==
  {start \in {1} \cup {k \in 2 .. Len(text) : text[k - 1] = NL} :
     Occurs(s, LineFrom(text, start))}

\* What was written for a name, and the lines at some starts as grep writes them.
WrittenFor(name, chunks) ==
  LET order == InOrder({i \in DOMAIN chunks : IsPrefix(name \o <<":">>, chunks[i])})
  IN  [j \in DOMAIN order |-> chunks[order[j]]]
WrittenAs(name, text, starts) ==
  LET order == InOrder(starts)
  IN  [j \in DOMAIN order |-> Printed(name, LineFrom(text, order[j]))]

IsText(i) == \A k \in 1 .. FileLength[i] : FileBytes(i)[k] # NUL

\* grep has printed every line that holds the pattern typed with it, of every
\* file of text whose name does not begin with a dot, across the boundaries of
\* its buffer; and of a file that fits into the buffer exactly these lines, in
\* their order.  (Lines longer than the buffer are not promised, nor anything if
\* the byte behind the buffer, which nobody sets, happens to be a newline.)
GrepFindsLines ==
  LET s == Arguments(command[Me]) IN
  Finished("grep") /\ s # <<>> /\ local.dirt # NL =>
    \A k \in 1 .. NumEntries :
      LET name == Entries[k].name
          i    == Entries[k].inode
          text == FileBytes(i)
      IN  Entries[k].type = 2 /\ name[1] # Dot[1] /\ IsText(i) =>
            /\ \A start \in LinesWith(text, s) :
                 Len(LineFrom(text, start)) <= BUFSIZE =>
                   \E j \in DOMAIN out : out[j] = Printed(name, LineFrom(text, start))
            /\ FileLength[i] <= BUFSIZE =>
                 WrittenFor(name, out) = WrittenAs(name, text, LinesWith(text, s))

\* syserr's tests of the system calls' error returns pass, whatever was run
\* before them.
SyserrPasses == At("syserr", "halt") => local.status = 0

\* A command that was typed ends, and the shell prompts again, unless a program
\* waits for the user's answer.
CommandsReturn ==
  pc = "execute" ~> pc \in {"read", "answer", "choose"}

=============================================================================
