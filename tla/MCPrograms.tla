----------------------------- MODULE MCPrograms -----------------------------
(***************************************************************************)
(* A small image for Programs: the directory, the clock, six programs of   *)
(* one byte each and two texts.  The first text is longer than the buffer  *)
(* of cat and grep, and five of its bytes take all values; the second is   *)
(* shorter.  Names are cut at three characters.                            *)
(***************************************************************************)
EXTENDS Programs

Name(a) == <<a>>
Hello == <<"h", "o">>
Shell == <<"s", "h">>
Exit  == <<"x", "t">>
Point == <<".">>
Long  == <<"f", "i", "l">>

File(name, inode) == [name |-> name, type |-> 2, inode |-> inode]
Image == << [name |-> Point, type |-> 1, inode |-> 0],
            File(Shell, 1), File(<<"c">>, 2), File(<<"l">>, 3), File(<<"g">>, 4),
            File(Hello, 5), File(<<"t">>, 6), File(<<"y">>, 7),
            [name |-> <<"r">>, type |-> 0, inode |-> 0],
            File(Long, 8), File(<<"u">>, 9) >>

Programs7 == <<"shell", "cat", "ls", "grep", "hello", "testprint", "syserr">>
Executables == [i \in 1 .. 7 |-> Programs7[i]]

Lengths == [i \in 1 .. 9 |-> IF i = 8 THEN 9 ELSE IF i = 9 THEN 2 ELSE 1]
Blocks  == [i \in 1 .. 9 |-> IF i = 8 THEN <<3, 2, 0, 0, 0>>
                             ELSE IF i = 9 THEN <<4, 0, 0>> ELSE <<1, 0, 0>>]

\* Block 1 is that of the programs, 4 the short text.  Buffers end after bytes
\* 4 and 8 of the long text, its first block after byte 7.
Text == {<<"b">> \o t \o <<"NL", "a", "b">> : t \in [1 .. 5 -> {"a", "b", "NL"}]}
Padded(bytes) == [p \in 0 .. 6 |-> IF p < Len(bytes) THEN bytes[p + 1] ELSE "NUL"]
Images == {[b \in 1 .. 4 |-> Padded(CASE b = 1 -> <<"E">>
                                      [] b = 3 -> SubSeq(t, 1, 7)
                                      [] b = 2 -> SubSeq(t, 8, 9)
                                      [] b = 4 -> <<"NL", "a">>)] : t \in Text}

Line(word, rest) == [word |-> word, rest |-> rest]
Typings ==
  { NoLine, Line(<<>>, <<"c">>), Line(Exit, <<>>), Line(Shell, <<"z">>), Line(<<"n">>, <<>>),
    Line(Long, <<>>), Line(<<"c">>, Long), Line(<<"c">>, Long \o <<"e">>), Line(<<"c">>, <<"u">>),
    Line(<<"c">>, Point), Line(<<"c">>, <<>>), Line(<<"c">>, <<"r">>), Line(<<"c">>, <<"m", "m", "m">>),
    Line(<<"g">>, <<"a">>), Line(<<"g">>, <<"a", "b">>), Line(<<"g">>, <<>>),
    Line(<<"l">>, <<>>), Line(<<"y">>, <<>>), Line(Hello, <<>>), Line(<<"t">>, <<"q">>) }

Stack == {"NUL", "NL"}

=============================================================================
