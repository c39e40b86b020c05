------------------------------- MODULE MCFiles -------------------------------
(***************************************************************************)
(* Small file system images for FileCalls.                                 *)
(***************************************************************************)
EXTENDS FileCalls

\* A directory and a file of three blocks and a half, out of order.  With reads
\* of three bytes the first two cross a boundary of blocks of two, the third
\* one starts on one, and the fourth finds the end.  What follows the last
\* block is 0.
Image   == << [type |-> 1, inode |-> 0],     \* .
              [type |-> 2, inode |-> 1] >>
Lengths == <<7>>
Blocks  == << <<2, 1, 4, 3, 0, 0>> >>
Reads   == {3}

\* A directory, the RTC and two files: a block and a half, and a block.
TwoFiles == << [type |-> 1, inode |-> 0],
               [type |-> 0, inode |-> 0],    \* rtc
               [type |-> 2, inode |-> 1],
               [type |-> 2, inode |-> 2] >>
TwoLengths == <<3, 2>>
TwoBlocks  == << <<2, 1, 0, 0, 0>>, <<3, 0, 0, 0, 0>> >>
ShortReads == {1, 2}

=============================================================================
