------------------------------ MODULE NameTree ------------------------------
(***************************************************************************)
(* What mkdir and touch promise: a tree of names.  A node is added to it   *)
(* in one indivisible step and is never taken away; formatting throws the  *)
(* whole tree away and plants a new root.                                  *)
(***************************************************************************)
CONSTANTS Nodes, Root, Names

VARIABLES mounted,       \* is there a file system
          entries,       \* its named nodes
          directories    \* the nodes that can hold names

treeVars == <<mounted, entries, directories>>

Entries == [parent : Nodes, name : Names, child : Nodes]

TreeInit == mounted = FALSE /\ entries = {} /\ directories = {}

Wipe == mounted' = FALSE /\ entries' = {} /\ directories' = {}

Plant ==
    /\ ~mounted /\ entries = {}
    /\ mounted' = TRUE /\ directories' = {Root}
    /\ UNCHANGED entries

Add(parent, name, child, isDirectory) ==
    /\ mounted /\ parent \in directories
    /\ child # Root
    /\ \A e \in entries : e.child # child /\ (e.parent = parent => e.name # name)
    /\ entries' = entries \cup {[parent |-> parent, name |-> name, child |-> child]}
    /\ directories' = IF isDirectory THEN directories \cup {child} ELSE directories
    /\ UNCHANGED mounted

TreeNext ==
    \/ Wipe
    \/ Plant
    \/ \E parent \in directories, name \in Names, child \in Nodes, isDirectory \in BOOLEAN :
            Add(parent, name, child, isDirectory)

TreeSpec == TreeInit /\ [][TreeNext]_treeVars
=============================================================================
