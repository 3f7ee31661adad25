------------------------------ MODULE MCFileIO ------------------------------
(***************************************************************************)
(* Instances of FileIO for TLC.                                            *)
(***************************************************************************)
EXTENDS FileIO, TLC

CONSTANTS b1, b2

\* Host files of no byte and of three.
HostOfThree == {<<>>} \cup {<<b, b, b>> : b \in Bytes}
HostOfOne == {<<b1>>}
NoHost == {<<>>}

\* No property tells one byte from another.
ByteSymmetry == Permutations(Bytes)
=============================================================================
