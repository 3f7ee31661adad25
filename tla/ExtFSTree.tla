----------------------------- MODULE ExtFSTree ------------------------------
(***************************************************************************)
(* ExtFS implements NameTree: whatever command is interrupted and wherever *)
(* (outside the two windows), the records found on the image are a tree to *)
(* which nodes were added one at a time.                                   *)
(***************************************************************************)
EXTENDS ExtFS

Tree == INSTANCE NameTree
    WITH Nodes <- InodeIds, Root <- RootInode,
         mounted <- Mounted,
         entries <- {[parent |-> blocks[link[1]].owner,
                      name   |-> blocks[link[1]].records[link[2]].name,
                      child  |-> Child(link)] : link \in Links},
         directories <- IF Mounted THEN {i \in Linked : ~inodes[i].isFile} ELSE {}

(* The step that adds a node is the last write of mkdir and touch, that of *)
(* the record's path; all the writes before it are invisible.              *)
ImplementsTree == Tree!TreeSpec
=============================================================================
