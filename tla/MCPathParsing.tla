--------------------------- MODULE MCPathParsing ----------------------------
(***************************************************************************)
(* Instances of PathParsing for TLC.                                       *)
(***************************************************************************)
EXTENDS PathParsing

CONSTANT MaxString   \* the longest path given

\* All paths of up to MaxString characters.
AllStrings == UNION {[1 .. n -> Chars] : n \in 1 .. MaxString}
=============================================================================
