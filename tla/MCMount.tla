------------------------------ MODULE MCMount -------------------------------
(***************************************************************************)
(* Instances of Mount for TLC: a superblock of nine bytes, and other files *)
(* that are empty, shorter and longer than it.                             *)
(***************************************************************************)
EXTENDS Mount

Lengths == {0, 2, 5, 12}
MaskSizes == {0, 2, 3}
=============================================================================
