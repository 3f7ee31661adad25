----------------------------- MODULE ExtFSTable -----------------------------
(***************************************************************************)
(* ExtFS implements OpenFiles as long as nothing interrupts it: the three  *)
(* writes of a table appear as one, at the first of them.                  *)
(***************************************************************************)
EXTENDS ExtFS

\* The table that a reader would find if the writes begun had come to their end.
CommittedTable == IF pc \in {"table_inode", "table_position"} THEN mem.table ELSE DiskTable

Abstract(t) == [f \in Fds |-> [isOpen   |-> t.reserved[f],
                                file     |-> t.inode[f],
                                position |-> t.position[f]]]

Files == INSTANCE OpenFiles
    WITH Descriptors <- Fds, Files <- InodeIds \ {RootInode},
         table <- Abstract(CommittedTable)

(* reserve_descriptor, free_descriptor and the handlers that call them: a  *)
(* descriptor given out was free and the smallest, its file was not open,  *)
(* and no descriptor but that of the command changes.                      *)
ImplementsOpenFiles == Files!TableSpec
=============================================================================
