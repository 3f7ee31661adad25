------------------------------ MODULE MCExtFS -------------------------------
(***************************************************************************)
(* Instances of ExtFS for TLC: the values that a .cfg cannot express.      *)
(***************************************************************************)
EXTENDS ExtFSTree, ExtFSTable, ExtFSInvariant

CONSTANTS n1, n2, n3

\* The root alone.
RootPath == {<<>>}
\* A directory within a directory.
TallPaths == {<<>>, <<n1>>, <<n1, n1>>}
\* The root and below, with a path that climbs up again, one two levels deep, and
\* what is left of a relative path of one name.
DeepPaths == {<<>>, <<n1>>, <<n1, DotDot>>, <<n1, n1>>, <<NoName>>}
=============================================================================
