-------------------------- MODULE DescriptorsTable --------------------------
(***************************************************************************)
(* core/descriptors_table.c: the table of open files.  It is stored in the *)
(* image as three arrays; an in-memory copy is the record of the three.    *)
(***************************************************************************)
EXTENDS Superblock

CONSTANT DescriptorsCount   \* fs_info.descriptors_count

ASSUME DescriptorsAssumption == DescriptorsCount \in Nat \ {0}

Fds == 0 .. (DescriptorsCount - 1)

Tables == [reserved : [Fds -> BOOLEAN],
           inode    : [Fds -> InodeIds],
           position : [Fds -> Nat]]

\* init_descriptors_table: the three arrays come from calloc.
EmptyTable == [reserved |-> [f \in Fds |-> FALSE],
               inode    |-> [f \in Fds |-> 0],
               position |-> [f \in Fds |-> 0]]

(* The two refusals of reserve_descriptor.  The first scan compares every  *)
(* entry of fd_to_inode, whether its descriptor is reserved or not: the    *)
(* zero of a free descriptor counts as an open root directory.             *)
OpenTwice_OfReserved(table, inode) == \E f \in Fds : table.reserved[f] /\ table.inode[f] = inode
OpenTwice(table, inode) == \E f \in Fds : table.inode[f] = inode
AllReserved(table) == \A f \in Fds : table.reserved[f]

FreeFd_Largest(table) ==
    CHOOSE f \in Fds : /\ ~table.reserved[f]
                       /\ \A g \in Fds : g > f => table.reserved[g]
FreeFd(table) ==
    CHOOSE f \in Fds : /\ ~table.reserved[f]
                       /\ \A g \in Fds : g < f => table.reserved[g]

ReserveDescriptor(table, inode) ==
    LET f == FreeFd(table)
    IN  [reserved |-> [table.reserved EXCEPT ![f] = TRUE],
         inode    |-> [table.inode EXCEPT ![f] = inode],
         position |-> [table.position EXCEPT ![f] = 0]]

\* A descriptor that is not reserved is left alone.
FreeDescriptor_KeepsInode(table, f) ==
    [table EXCEPT !.reserved = [@ EXCEPT ![f] = FALSE], !.position = [@ EXCEPT ![f] = 0]]

\* A loop over the positions in the place of one assignment.
FreeDescriptor_AllPositions(table, f) ==
    IF ~table.reserved[f]
    THEN table
    ELSE [reserved |-> [table.reserved EXCEPT ![f] = FALSE],
          inode    |-> [table.inode EXCEPT ![f] = 0],
          position |-> EmptyTable.position]

FreeDescriptor(table, f) ==
    IF ~table.reserved[f]
    THEN table
    ELSE [reserved |-> [table.reserved EXCEPT ![f] = FALSE],
          inode    |-> [table.inode EXCEPT ![f] = 0],
          position |-> [table.position EXCEPT ![f] = 0]]

SetPosition(table, f, pos) ==
    [table EXCEPT !.position = [@ EXCEPT ![f] = pos]]
=============================================================================
