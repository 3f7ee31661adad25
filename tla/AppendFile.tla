----------------------------- MODULE AppendFile -----------------------------
(***************************************************************************)
(* What the commands on one open file promise to a user who writes only at *)
(* its end: a sequence of bytes that grows, and a position in it.          *)
(***************************************************************************)
EXTENDS Integers, Sequences

CONSTANTS MaxData,   \* the bytes of a block: space runs out between two blocks
          MaxFile    \* the largest size of a file

VARIABLES contents,  \* the bytes of the file
          position,  \* the position of its descriptor
          given,     \* what the last write was asked to write
          answer     \* what the last read delivered

vars == <<contents, position, given, answer>>

Init == contents = <<>> /\ position = 0 /\ given = <<>> /\ answer = <<>>

\* The user gives data to write, or a host file that holds it.
Give == UNCHANGED <<contents, position>> /\ answer' = <<>>

(* All the data is put at the end, or as much as there is room for.        *)
Extend ==
    /\ position = Len(contents)
    /\ \E n \in 0 .. Len(given) :
        /\ contents' = contents \o SubSeq(given, 1, n)
        /\ position' = Len(contents')
        /\ n < Len(given) => position' % MaxData = 0
    /\ given' = <<>> /\ UNCHANGED answer

\* The position moves to a byte of the file, or to its end.
Seek ==
    /\ position' \in 0 .. Len(contents) /\ position' < MaxFile
    /\ UNCHANGED <<contents, given, answer>>

\* Some bytes from the position on; fewer than asked only at the end.
Read(size) ==
    LET end == IF position + size > Len(contents) THEN Len(contents) ELSE position + size
    IN  /\ answer' = SubSeq(contents, position + 1, end)
        /\ position' = end
        /\ UNCHANGED <<contents, given>>

(* A read that goes on behind a file of the largest size: what follows the *)
(* bytes of the file may be anything.                                      *)
Overrun ==
    /\ Len(contents) = MaxFile
    /\ position' >= MaxFile /\ position' >= position
    /\ SubSeq(answer', 1, MaxFile - position) = SubSeq(contents, position + 1, MaxFile)
    /\ UNCHANGED <<contents, given>>

Next == Give \/ Extend \/ Seek \/ (\E size \in 0 .. MaxFile : Read(size)) \/ Overrun

Spec == Init /\ [][Next]_vars
=============================================================================
