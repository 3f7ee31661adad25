------------------------------ MODULE MCClient ------------------------------
(***************************************************************************)
(* Instances of Client for TLC: scripts of up to MaxLines lines of those   *)
(* in Typed.                                                               *)
(***************************************************************************)
EXTENDS Client, SequencesExt

CONSTANTS MaxLines,   \* the most lines of a script
          Typed       \* the lines typed

\* Every kind of command, with its arguments and without, an empty line, and a
\* line that does not fit a buffer of seven.
CommandLines == {<<"q">>, <<"i">>, <<>>, <<"m", " ">>, <<"m", " ", "1">>, <<"c">>,
                 <<"c", " ", "2">>, <<"r">>, <<"r", " ">>, <<"r", " ", "1", " ", "2">>,
                 <<"w", " ", "1">>, <<"w", " ", "1", " ", "2">>, <<"s", " ", "1", " ", "2">>,
                 <<"i", " ", "1", " ", "2", " ", "q">>}

\* The last line may come without its newline.
Joined(lines) == FlattenSeq([k \in DOMAIN lines |-> Append(lines[k], Newline)])
AllScripts ==
    LET joined == {Joined(lines) : lines \in UNION {[1 .. n -> Typed] : n \in 1 .. MaxLines}}
    IN  joined \cup ({WithoutLast(s) : s \in joined} \ {<<>>})
=============================================================================
