----------------------------- MODULE OpenFiles ------------------------------
(***************************************************************************)
(* What open, close and lseek promise: a table from descriptors to open    *)
(* files, each with a position.  A file is opened once at a time, with the *)
(* smallest descriptor that is free.                                       *)
(***************************************************************************)
EXTENDS Integers

CONSTANTS Descriptors, Files

Closed == [isOpen |-> FALSE, file |-> 0, position |-> 0]
OpenAt(file, position) == [isOpen |-> TRUE, file |-> file, position |-> position]

VARIABLE table

TableInit == table = [d \in Descriptors |-> Closed]

OpenFile(d, file) ==
    /\ ~table[d].isOpen
    /\ \A e \in Descriptors : ~table[e].isOpen => d <= e
    /\ \A e \in Descriptors : table[e].isOpen => table[e].file # file
    /\ table' = [table EXCEPT ![d] = OpenAt(file, 0)]

CloseFile(d) == table[d].isOpen /\ table' = [table EXCEPT ![d] = Closed]

\* lseek, and what read and write do to the position.
Move(d, position) ==
    /\ table[d].isOpen
    /\ table' = [table EXCEPT ![d] = OpenAt(table[d].file, position)]

\* Formatting closes everything.
CloseAll == table' = [d \in Descriptors |-> Closed]

TableNext ==
    \/ \E d \in Descriptors, file \in Files : OpenFile(d, file)
    \/ \E d \in Descriptors : CloseFile(d) \/ Move(d, table'[d].position)
    \/ CloseAll

TableSpec == TableInit /\ [][TableNext]_table
=============================================================================
