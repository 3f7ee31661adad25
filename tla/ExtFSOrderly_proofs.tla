------------------------ MODULE ExtFSOrderly_proofs -------------------------
(***************************************************************************)
(* Theorems about ExtFS for every size of the file system: as long as      *)
(* nothing interrupts it, it implements OpenFiles and leaves its table of  *)
(* descriptors in order; interrupted or not, it accounts for its space.    *)
(***************************************************************************)
EXTENDS ExtFSTable, ExtFSTree_proofs

(***************************************************************************)
(* What a command does to a table, without the image.                      *)
(***************************************************************************)

\* A descriptor that is free has nothing left in the other two arrays.
Cleared(t) == \A f \in Fds : ~t.reserved[f] => t.inode[f] = RootInode /\ t.position[f] = 0

\* The table u that a command has built from t.
Change(t, u) ==
    \/ u = t
    \/ \E inode \in InodeIds : /\ ~OpenTwice(t, inode) /\ ~AllReserved(t)
                               /\ u = ReserveDescriptor(t, inode)
    \/ \E f \in Fds : u = FreeDescriptor(t, f)
    \/ \E f \in Fds, pos \in Nat : t.reserved[f] /\ u = SetPosition(t, f, pos)

\* reserve_descriptor takes the smallest descriptor that is free.
LEMMA FreeFdIsFirst ==
    ASSUME NEW t \in Tables, ~AllReserved(t)
    PROVE  \A f \in Fds : ~t.reserved[f] => FreeFd(t) <= f
<1> DEFINE S == {f \in Fds : ~t.reserved[f]}
<1>1. S \in SUBSET Nat /\ S # {}
  BY DEF AllReserved, Fds
<1>2. PICK f \in S : \A g \in S : f <= g
  BY <1>1, LeastNat
<1>3. \A g \in Fds : g < f => t.reserved[g]
  BY <1>2 DEF Fds
<1>4. /\ FreeFd(t) \in Fds /\ ~t.reserved[FreeFd(t)]
      /\ \A g \in Fds : g < FreeFd(t) => t.reserved[g]
  BY <1>2, <1>3 DEF FreeFd
<1> QED
  BY <1>4 DEF Fds

\* open: the file of no entry, so neither open already nor the root.
LEMMA ReserveOpens ==
    ASSUME NEW t \in Tables, Cleared(t), NEW inode \in InodeIds,
           ~OpenTwice(t, inode), ~AllReserved(t)
    PROVE  LET u == ReserveDescriptor(t, inode)
               d == FreeFd(t)
           IN  /\ Cleared(u)
               /\ d \in Fds /\ ~t.reserved[d]
               /\ \A e \in Fds : ~t.reserved[e] => d <= e
               /\ \A e \in Fds : t.reserved[e] => t.inode[e] # inode
               /\ inode # RootInode
               /\ Abstract(u) = [Abstract(t) EXCEPT ![d] =
                                    [isOpen |-> TRUE, file |-> inode, position |-> 0]]
<1> DEFINE u == ReserveDescriptor(t, inode)
           d == FreeFd(t)
<1>1. d \in Fds /\ ~t.reserved[d]
  BY FreeFdIsFree
<1>2. \A e \in Fds : ~t.reserved[e] => d <= e
  BY FreeFdIsFirst
<1>3. \A e \in Fds : t.inode[e] # inode
  BY DEF OpenTwice
<1>4. inode # RootInode
  BY <1>1, <1>3 DEF Cleared
<1>5. /\ t.reserved \in [Fds -> BOOLEAN]
      /\ t.inode \in [Fds -> InodeIds]
      /\ t.position \in [Fds -> Nat]
  BY DEF Tables
<1>6. /\ u.reserved = [t.reserved EXCEPT ![d] = TRUE]
      /\ u.inode = [t.inode EXCEPT ![d] = inode]
      /\ u.position = [t.position EXCEPT ![d] = 0]
  BY DEF ReserveDescriptor
<1> HIDE DEF u, d
<1>7. Cleared(u)
  BY <1>1, <1>5, <1>6 DEF Cleared
<1>8. Abstract(u) = [Abstract(t) EXCEPT ![d] =
                        [isOpen |-> TRUE, file |-> inode, position |-> 0]]
  BY <1>1, <1>5, <1>6 DEF Abstract
<1> QED
  BY <1>1, <1>2, <1>3, <1>4, <1>7, <1>8 DEF u, d

\* close: the entry is cleared, or was.
LEMMA FreeCloses ==
    ASSUME NEW t \in Tables, Cleared(t), NEW f \in Fds
    PROVE  LET u == FreeDescriptor(t, f)
           IN  /\ Cleared(u)
               /\ \/ u = t
                  \/ /\ t.reserved[f]
                     /\ Abstract(u) = [Abstract(t) EXCEPT ![f] =
                            [isOpen |-> FALSE, file |-> RootInode, position |-> 0]]
<1> DEFINE u == FreeDescriptor(t, f)
<1>1. CASE ~t.reserved[f]
  BY <1>1 DEF FreeDescriptor
<1>2. CASE t.reserved[f]
  <2>1. /\ t.reserved \in [Fds -> BOOLEAN]
        /\ t.inode \in [Fds -> InodeIds]
        /\ t.position \in [Fds -> Nat]
    BY DEF Tables
  <2>2. /\ u.reserved = [t.reserved EXCEPT ![f] = FALSE]
        /\ u.inode = [t.inode EXCEPT ![f] = RootInode]
        /\ u.position = [t.position EXCEPT ![f] = 0]
    BY <1>2 DEF FreeDescriptor, RootInode
  <2> HIDE DEF u
  <2>3. Cleared(u)
    BY <2>1, <2>2 DEF Cleared
  <2>4. Abstract(u) = [Abstract(t) EXCEPT ![f] =
                            [isOpen |-> FALSE, file |-> RootInode, position |-> 0]]
    BY <2>1, <2>2 DEF Abstract
  <2> QED
    BY <1>2, <2>3, <2>4 DEF u
<1> QED
  BY <1>1, <1>2

\* lseek, and the end of read and write: an open file's position.
LEMMA SetPositionMoves ==
    ASSUME NEW t \in Tables, Cleared(t), NEW f \in Fds, NEW pos \in Nat, t.reserved[f]
    PROVE  LET u == SetPosition(t, f, pos)
           IN  /\ Cleared(u)
               /\ Abstract(u) = [Abstract(t) EXCEPT ![f] =
                        [isOpen |-> TRUE, file |-> t.inode[f], position |-> pos]]
<1> DEFINE u == SetPosition(t, f, pos)
<1>1. /\ t.reserved \in [Fds -> BOOLEAN]
      /\ t.inode \in [Fds -> InodeIds]
      /\ t.position \in [Fds -> Nat]
  BY DEF Tables
<1>2. /\ u.reserved = t.reserved
      /\ u.inode = t.inode
      /\ u.position = [t.position EXCEPT ![f] = pos]
  BY DEF SetPosition, Tables
<1> HIDE DEF u
<1>3. Cleared(u)
  BY <1>1, <1>2 DEF Cleared
<1>4. Abstract(u) = [Abstract(t) EXCEPT ![f] =
                        [isOpen |-> TRUE, file |-> t.inode[f], position |-> pos]]
  BY <1>1, <1>2 DEF Abstract
<1> QED
  BY <1>3, <1>4 DEF u

(***************************************************************************)
(* The table on the image and the one about to be written.                 *)
(***************************************************************************)

TransferSteps == {"read_loop", "write_loop"} \cup WriteSteps

TableInv ==
    /\ Cleared(CommittedTable)
    /\ pc = "table_reserved" => Change(DiskTable, mem.table)
    /\ pc = "table_inode" => reservedFd = mem.table.reserved
    /\ pc = "table_position" => reservedFd = mem.table.reserved /\ fdToInode = mem.table.inode
    /\ pc \in TransferSteps => reservedFd[mem.fd]

LEMMA CommittedType == TypeOK => CommittedTable \in Tables /\ DiskTable \in Tables /\ mem \in Memory
BY DEF TypeOK, DiskTypeOK, ProcessTypeOK, CommittedTable, DiskTable, Tables, Memory

\* What is built from a table is a step of the abstract one.
LEMMA ChangeImplements ==
    ASSUME CommittedTable \in Tables, Cleared(CommittedTable),
           Change(CommittedTable, CommittedTable')
    PROVE  /\ Cleared(CommittedTable')
           /\ Files!TableNext \/ UNCHANGED Abstract(CommittedTable)
<1> DEFINE t == CommittedTable
           u == CommittedTable'
<1>1. CASE u = t
  BY <1>1 DEF Abstract
<1>2. ASSUME NEW inode \in InodeIds, ~OpenTwice(t, inode), ~AllReserved(t),
             u = ReserveDescriptor(t, inode)
      PROVE  Cleared(u) /\ Files!TableNext
  <2> DEFINE d == FreeFd(t)
  <2>1. /\ Cleared(u)
        /\ d \in Fds /\ ~t.reserved[d]
        /\ \A e \in Fds : ~t.reserved[e] => d <= e
        /\ \A e \in Fds : t.reserved[e] => t.inode[e] # inode
        /\ inode # RootInode
        /\ Abstract(u) = [Abstract(t) EXCEPT ![d] =
                            [isOpen |-> TRUE, file |-> inode, position |-> 0]]
    BY <1>2, ReserveOpens
  <2> HIDE DEF d
  <2>2. \A e \in Fds : /\ Abstract(t)[e].isOpen = t.reserved[e]
                       /\ Abstract(t)[e].file = t.inode[e]
    BY DEF Abstract
  <2>3. Files!OpenFile(d, inode)
    BY <2>1, <2>2 DEF Files!OpenFile, Files!OpenAt
  <2> QED
    BY <2>1, <2>3 DEF Files!TableNext
<1>3. ASSUME NEW f \in Fds, u = FreeDescriptor(t, f)
      PROVE  Cleared(u) /\ (u = t \/ Files!TableNext)
  <2>1. CASE u = t
    BY <2>1
  <2>2. CASE u # t
    <3>1. /\ Cleared(u) /\ t.reserved[f]
          /\ Abstract(u) = [Abstract(t) EXCEPT ![f] =
                              [isOpen |-> FALSE, file |-> RootInode, position |-> 0]]
      BY <1>3, <2>2, FreeCloses
    <3>2. Abstract(t)[f].isOpen = t.reserved[f]
      BY DEF Abstract
    <3>3. Files!CloseFile(f)
      BY <3>1, <3>2 DEF Files!CloseFile, Files!Closed, RootInode
    <3> QED
      BY <3>1, <3>3 DEF Files!TableNext
  <2> QED
    BY <2>1, <2>2
<1>4. ASSUME NEW f \in Fds, NEW pos \in Nat, t.reserved[f], u = SetPosition(t, f, pos)
      PROVE  Cleared(u) /\ Files!TableNext
  <2>1. /\ Cleared(u)
        /\ Abstract(u) = [Abstract(t) EXCEPT ![f] =
                            [isOpen |-> TRUE, file |-> t.inode[f], position |-> pos]]
    BY <1>4, SetPositionMoves
  <2>2. /\ Abstract(t)[f].isOpen = t.reserved[f]
        /\ Abstract(t)[f].file = t.inode[f]
        /\ f \in DOMAIN Abstract(t)
    BY DEF Abstract
  <2>3. Abstract(u)[f].position = pos
    BY <2>1, <2>2
  <2>4. Files!Move(f, Abstract(u)[f].position)
    BY <1>4, <2>1, <2>2, <2>3 DEF Files!Move, Files!OpenAt
  <2> QED
    BY <2>1, <2>4 DEF Files!TableNext
<1> QED
  BY <1>1, <1>2, <1>3, <1>4 DEF Change

Outside == pc \notin {"table_inode", "table_position"}
Simulated == TableInv' /\ (Files!TableNext \/ UNCHANGED Abstract(CommittedTable))

\* A step that leaves the table alone and is not about to write it.
LEMMA TableIdle ==
    ASSUME TableInv, UNCHANGED tableVars, Outside, pc' \notin TableSteps,
           pc' \in TransferSteps => reservedFd[mem'.fd]
    PROVE  Simulated
<1>1. CommittedTable = DiskTable /\ CommittedTable' = DiskTable /\ DiskTable' = DiskTable
  BY DEF CommittedTable, DiskTable, Outside, TableSteps, tableVars
<1>2. Cleared(CommittedTable')
  BY <1>1 DEF TableInv
<1>3. pc' \in TransferSteps => reservedFd'[mem'.fd]
  BY DEF tableVars
<1>4. TableInv'
  BY <1>2, <1>3 DEF TableInv, TableSteps
<1> QED
  BY <1>1, <1>4 DEF Simulated, Abstract

\* A step that has built a table and is about to write it.
LEMMA TableReady ==
    ASSUME TableInv, UNCHANGED tableVars, Outside, pc' = "table_reserved",
           Change(DiskTable, mem'.table)
    PROVE  Simulated
<1>1. CommittedTable = DiskTable /\ CommittedTable' = DiskTable /\ DiskTable' = DiskTable
  BY DEF CommittedTable, DiskTable, Outside, tableVars
<1>2. Cleared(CommittedTable')
  BY <1>1 DEF TableInv
<1>3. Change(DiskTable', mem'.table)
  BY <1>1
<1>4. TableInv'
  BY <1>2, <1>3 DEF TableInv, TransferSteps, WriteSteps
<1> QED
  BY <1>1, <1>4 DEF Simulated, Abstract

\* The end of a loop of read or write.
LEMMA LoopLeft ==
    ASSUME TypeOK, TableInv, UNCHANGED tableVars, Outside,
           NEW m \in Memory, reservedFd[m.fd], EndLoop(m)
    PROVE  Simulated
<1>1. m.fd \in Fds /\ m.pos \in Nat /\ DiskTable.reserved[m.fd]
  BY DEF Memory, DiskTable
<1>2. pc' = "table_reserved" /\ mem'.table = SetPosition(DiskTable, m.fd, m.pos)
  BY DEF EndLoop, Continue, Memory
<1>3. Change(DiskTable, mem'.table)
  BY <1>1, <1>2 DEF Change
<1> QED
  BY <1>2, <1>3, TableReady

\* init: whatever was open is closed.
LEMMA TableFormatted ==
    ASSUME TableInv, pc' \in {"format_superblock", "new_block"},
           reservedFd' = EmptyTable.reserved, fdToInode' = EmptyTable.inode,
           fdToPosition' = EmptyTable.position
    PROVE  Simulated
<1>1. CommittedTable' = EmptyTable
  BY DEF CommittedTable, DiskTable, EmptyTable
<1>2. Cleared(EmptyTable)
  BY DEF Cleared, EmptyTable, RootInode
<1>3. TableInv'
  BY <1>1, <1>2 DEF TableInv, TransferSteps, WriteSteps
<1>4. Abstract(EmptyTable) = [d \in Fds |-> Files!Closed]
  BY DEF Abstract, EmptyTable, Files!Closed
<1>5. Files!CloseAll
  BY <1>1, <1>4 DEF Files!CloseAll
<1> QED
  BY <1>3, <1>5 DEF Simulated, Files!TableNext

(***************************************************************************)
(* The steps.                                                              *)
(***************************************************************************)

LEMMA CommandSimulated ==
    ASSUME TypeOK, TableInv, Command
    PROVE  Simulated
<1>0. DiskTable \in Tables /\ DiskTable.reserved = reservedFd
  BY CommittedType DEF DiskTable
<1>1. CASE MountFails
  BY <1>1, TableIdle
     DEF MountFails, Spin, Die, End, Outside, TableSteps, TransferSteps, WriteSteps, diskVars
<1>2. CASE InitFs
  BY <1>2, TableFormatted DEF InitFs, Continue
<1>3. ASSUME NEW op, NEW path, NEW name, Resolve(op, path, name)
      PROVE  Simulated
  BY <1>3, TableIdle
     DEF Resolve, Continue, Outside, TableSteps, TransferSteps, WriteSteps, diskVars
<1>4. ASSUME NEW f \in Fds, Close(f)
      PROVE  Simulated
  <2>1. pc = "idle" /\ pc' = "table_reserved" /\ UNCHANGED tableVars
    BY <1>4 DEF Close, Continue, diskVars
  <2>2. mem'.table = FreeDescriptor(DiskTable, f)
    BY <1>4 DEF Close, Continue, NoMem
  <2>3. Change(DiskTable, mem'.table)
    BY <2>2 DEF Change
  <2> QED
    BY <2>1, <2>3, TableReady DEF Outside
<1>5. ASSUME NEW f \in Fds, NEW pos \in Positions, Lseek(f, pos)
      PROVE  Simulated
  <2>1. pc = "idle" /\ pc' = "table_reserved" /\ UNCHANGED tableVars /\ reservedFd[f]
    BY <1>5 DEF Lseek, Continue, diskVars
  <2>2. mem'.table = SetPosition(DiskTable, f, pos)
    BY <1>5 DEF Lseek, Continue, NoMem
  <2>3. pos \in Nat
    BY ExtFSAssumption
  <2>4. Change(DiskTable, mem'.table)
    BY <1>0, <2>1, <2>2, <2>3 DEF Change
  <2> QED
    BY <2>1, <2>4, TableReady DEF Outside
<1>6. ASSUME NEW op, NEW f \in Fds, NEW size, NEW step \in {"read_loop", "write_loop"},
             Transfer(op, step, f, size)
      PROVE  Simulated
  <2>1. pc = "idle" /\ pc' = step /\ UNCHANGED tableVars /\ reservedFd[f]
    BY <1>6 DEF Transfer, Continue, diskVars
  <2>2. mem'.fd = f
    BY <1>6 DEF Transfer, Continue, NoMem
  <2> QED
    BY <2>1, <2>2, TableIdle DEF Outside, TableSteps
<1> QED
  BY <1>1, <1>2, <1>3, <1>4, <1>5, <1>6 DEF Command

LEMMA WritingSimulated ==
    ASSUME TypeOK, TableInv, WriteTableReserved \/ WriteTableInode \/ WriteTablePosition
    PROVE  Simulated
<1>0. /\ CommittedTable \in Tables /\ DiskTable \in Tables /\ mem \in Memory
      /\ mem.table \in Tables
  BY CommittedType DEF Memory
<1>1. CASE WriteTableReserved
  <2>1. /\ pc = "table_reserved" /\ pc' = "table_inode" /\ mem' = mem
        /\ reservedFd' = mem.table.reserved
    BY <1>1 DEF WriteTableReserved, Continue
  <2>2. CommittedTable = DiskTable /\ CommittedTable' = mem.table
    BY <2>1 DEF CommittedTable
  <2>3. Change(CommittedTable, CommittedTable') /\ Cleared(CommittedTable)
    BY <2>1, <2>2 DEF TableInv
  <2>4. /\ Cleared(CommittedTable')
        /\ Files!TableNext \/ UNCHANGED Abstract(CommittedTable)
    BY <1>0, <2>3, ChangeImplements
  <2>5. TableInv'
    BY <2>1, <2>4 DEF TableInv, TransferSteps, WriteSteps
  <2> QED
    BY <2>4, <2>5 DEF Simulated
<1>2. CASE WriteTableInode
  <2>1. /\ pc = "table_inode" /\ pc' = "table_position" /\ mem' = mem
        /\ reservedFd' = reservedFd /\ fdToInode' = mem.table.inode
    BY <1>2 DEF WriteTableInode, Continue
  <2>2. CommittedTable = mem.table /\ CommittedTable' = mem.table
    BY <2>1 DEF CommittedTable
  <2>3. Cleared(CommittedTable')
    BY <2>2 DEF TableInv
  <2>4. TableInv'
    BY <2>1, <2>3 DEF TableInv, TransferSteps, WriteSteps
  <2> QED
    BY <2>2, <2>4 DEF Simulated, Abstract
<1>3. CASE WriteTablePosition
  <2>1. /\ pc = "table_position" /\ pc' \in {"inodes_mask", "idle"}
        /\ reservedFd' = reservedFd /\ fdToInode' = fdToInode
        /\ fdToPosition' = mem.table.position
    BY <1>3 DEF WriteTablePosition, Continue, Return, End
  <2>2. CommittedTable = mem.table
    BY <2>1 DEF CommittedTable
  <2>3. CommittedTable' = [reserved |-> mem.table.reserved, inode |-> mem.table.inode,
                           position |-> mem.table.position]
    BY <2>1 DEF CommittedTable, DiskTable, TableInv
  <2>4. CommittedTable' = CommittedTable
    BY <1>0, <2>2, <2>3 DEF Tables
  <2>5. TableInv'
    BY <2>1, <2>4 DEF TableInv, TransferSteps, WriteSteps
  <2> QED
    BY <2>4, <2>5 DEF Simulated, Abstract
<1> QED
  BY <1>1, <1>2, <1>3

LEMMA CreateSimulated ==
    ASSUME TypeOK, TableInv,
           \/ FormatSuperblock \/ DirUnreadable \/ Walk \/ List \/ Create
           \/ WriteNewBlock \/ WriteNewInode \/ WriteInodesMask \/ WriteBlocksMask
           \/ Link \/ LinkInfo \/ LinkInode \/ LinkName
    PROVE  Simulated
<1> USE DEF Outside, TableSteps, TransferSteps, WriteSteps
<1>1. CASE FormatSuperblock
  BY <1>1, TableIdle DEF FormatSuperblock, Continue
<1>2. CASE DirUnreadable \/ Walk \/ List
  BY <1>2, TableIdle
     DEF DirUnreadable, DirReadable, Walk, List, Return, Die, Spin, End, Continue, diskVars
<1>3. CASE Create
  <2>1. pc = "walk" /\ UNCHANGED tableVars /\ pc' \in {"idle", "dead", "new_block"}
    BY <1>3 DEF Create, DirReadable, UndefinedBehaviour, Register, Return, Die, End,
                Continue, diskVars
  <2> QED
    BY <2>1, TableIdle
<1>4. CASE WriteNewBlock \/ WriteNewInode \/ WriteInodesMask
  BY <1>4, TableIdle DEF WriteNewBlock, WriteNewInode, WriteInodesMask, Continue
<1>5. CASE WriteBlocksMask
  <2>1. pc = "blocks_mask" /\ UNCHANGED tableVars /\ pc' \in {"idle", "dead", "link"}
    BY <1>5, Zenon DEF WriteBlocksMask, Return, Die, End, Continue
  <2> QED
    BY <2>1, TableIdle
<1>6. CASE Link
  <2>1. pc = "link" /\ UNCHANGED tableVars /\ pc' \in {"idle", "dead", "stuck", "link_info"}
    BY <1>6 DEF Link, UndefinedBehaviour, Return, Die, Spin, End, Continue, diskVars
  <2> QED
    BY <2>1, TableIdle
<1>7. CASE LinkInfo \/ LinkInode \/ LinkName
  BY <1>7, TableIdle DEF LinkInfo, LinkInode, LinkName, Return, End, Continue
<1> QED
  BY <1>1, <1>2, <1>3, <1>4, <1>5, <1>6, <1>7

LEMMA OpenSimulated ==
    ASSUME TypeOK, TableInv, Open
    PROVE  Simulated
<1> DEFINE inode == Lookup(DirBlock(mem.dir), mem.name)
<1>1. pc = "walk" /\ UNCHANGED tableVars
  BY DEF Open, DirReadable, diskVars
<1>2. CASE Return
  BY <1>1, <1>2, TableIdle DEF Return, End, Outside, TableSteps, TransferSteps, WriteSteps
<1>3. CASE ~Return
  <2>1. /\ HasName(DirBlock(mem.dir), mem.name)
        /\ ~OpenTwice(DiskTable, inode) /\ ~AllReserved(DiskTable)
        /\ Continue("table_reserved", [mem EXCEPT !.table = ReserveDescriptor(DiskTable, inode)])
    BY <1>3 DEF Open
  <2>2. inode \in InodeIds
    <3>1. DirBlock(mem.dir) \in BlockContents
      BY DirBlockType DEF TypeOK, DiskTypeOK, ProcessTypeOK, Memory
    <3> QED
      BY <2>1, <3>1, LookupType
  <2>3. pc' = "table_reserved" /\ mem'.table = ReserveDescriptor(DiskTable, inode)
    BY <2>1 DEF Continue, TypeOK, ProcessTypeOK, Memory
  <2> HIDE DEF inode
  <2>4. Change(DiskTable, mem'.table)
    BY <2>1, <2>2, <2>3 DEF Change
  <2> QED
    BY <1>1, <2>3, <2>4, TableReady DEF Outside
<1> QED
  BY <1>2, <1>3

LEMMA ReadSimulated ==
    ASSUME TypeOK, TableInv, ReadTurn \/ ReadEnds
    PROVE  Simulated
<1>1. pc = "read_loop" /\ UNCHANGED tableVars /\ mem \in Memory
  BY DEF ReadTurn, ReadEnds, diskVars, TypeOK, ProcessTypeOK
<1>2. reservedFd[mem.fd]
  BY <1>1 DEF TableInv, TransferSteps
<1>3. CASE EndLoop(mem)
  BY <1>1, <1>2, <1>3, LoopLeft DEF Outside
<1>4. CASE ~EndLoop(mem)
  <2>1. \/ pc' \in {"dead", "stuck"}
        \/ \E pos, need : Continue("read_loop", [mem EXCEPT !.pos = pos, !.need = need])
    BY <1>4 DEF ReadTurn, ReadEnds, Die, Spin, End
  <2>2. pc' \in {"dead", "stuck"} \/ (pc' = "read_loop" /\ mem'.fd = mem.fd)
    BY <1>1, <2>1 DEF Continue, Memory
  <2> QED
    BY <1>1, <1>2, <2>2, TableIdle DEF Outside, TableSteps, TransferSteps, WriteSteps
<1> QED
  BY <1>3, <1>4

LEMMA WriteSimulated ==
    ASSUME TypeOK, TableInv,
           WriteTurn \/ WriteEnds \/ GrowInfo \/ GrowIds \/ WriteInfo \/ WriteData
    PROVE  Simulated
<1>1. /\ pc \in {"write_loop"} \cup WriteSteps /\ UNCHANGED tableVars /\ mem \in Memory
      /\ Outside
  BY DEF WriteTurn, WriteEnds, GrowInfo, GrowIds, WriteInfo, WriteData, diskVars, TypeOK,
         ProcessTypeOK, WriteSteps, Outside
<1>2. reservedFd[mem.fd]
  BY <1>1 DEF TableInv, TransferSteps
<1>3. ASSUME NEW step \in {"write_loop"} \cup WriteSteps, pc' = step, mem'.fd = mem.fd
      PROVE  Simulated
  BY <1>1, <1>2, <1>3, TableIdle DEF TableSteps, TransferSteps, WriteSteps
<1>4. CASE pc' \in {"dead", "stuck"}
  BY <1>1, <1>4, TableIdle DEF TableSteps, TransferSteps, WriteSteps
<1>5. CASE WriteTurn
  <2> DEFINE b == ReserveBlock(mem.blockMask)
             full == [mem EXCEPT !.blockMask = @ \cup {b}]
  <2>1. CASE EndLoop(mem)
    BY <1>1, <1>2, <2>1, LoopLeft
  <2>2. CASE b # BlocksCount /\ EndLoop(full)
    <3>1. b \in BlockIds
      BY <2>2, ReserveType
    <3>2. full \in Memory /\ full.fd = mem.fd
      BY <1>1, <3>1 DEF Memory
    <3> HIDE DEF full
    <3> QED
      BY <1>1, <1>2, <2>2, <3>2, LoopLeft
  <2>3. CASE pc' \in {"dead", "stuck"}
    BY <1>4, <2>3
  <2>4. CASE \E block : Continue("write_info", [mem EXCEPT !.block = block])
    <3>1. pc' = "write_info" /\ mem'.fd = mem.fd
      BY <1>1, <2>4 DEF Continue, Memory
    <3> QED
      BY <1>3, <3>1 DEF WriteSteps
  <2>5. CASE \E mask, inode, block :
                Continue("grow_info", [mem EXCEPT !.blockMask = mask, !.inode = inode,
                                                  !.block = block])
    <3>1. pc' = "grow_info" /\ mem'.fd = mem.fd
      BY <1>1, <2>5 DEF Continue, Memory
    <3> QED
      BY <1>3, <3>1 DEF WriteSteps
  <2> QED
    BY <1>5, <2>1, <2>2, <2>3, <2>4, <2>5 DEF WriteTurn, Die, Spin, End
<1>6. CASE WriteEnds
  BY <1>1, <1>2, <1>6, LoopLeft DEF WriteEnds
<1>7. CASE GrowInfo \/ GrowIds
  <2>1. pc' \in WriteSteps /\ mem' = mem
    BY <1>7 DEF GrowInfo, GrowIds, Continue, WriteSteps
  <2> QED
    BY <1>3, <2>1
<1>8. CASE WriteInfo
  <2>1. pc' = "dead" \/ (pc' = "write_data" /\ mem'.fd = mem.fd)
    BY <1>1, <1>8 DEF WriteInfo, Die, End, Continue, Memory
  <2> QED
    BY <1>3, <1>4, <2>1 DEF WriteSteps
<1>9. CASE WriteData
  <2>1. pc' = "write_loop" /\ mem'.fd = mem.fd
    BY <1>1, <1>9 DEF WriteData, Continue, Memory
  <2> QED
    BY <1>3, <2>1
<1> QED
  BY <1>5, <1>6, <1>7, <1>8, <1>9

LEMMA NextSimulated ==
    ASSUME Interruptions = FALSE, TypeOK, TableInv, Next
    PROVE  Simulated
<1>1. CASE Command
  BY <1>1, CommandSimulated
<1>2. CASE FormatTable
  BY <1>2, TableFormatted DEF FormatTable, Register, Continue
<1>3. CASE Step /\ ~FormatTable
  BY <1>3, CreateSimulated, OpenSimulated, WritingSimulated, ReadSimulated, WriteSimulated
     DEF Step
<1>4. CASE Crash \/ WriteFails
  BY <1>4 DEF Crash, WriteFails, MayInterrupt
<1>5. CASE Restart
  BY <1>5, TableIdle
     DEF Restart, Return, End, Outside, TableSteps, TransferSteps, WriteSteps, diskVars
<1> QED
  BY <1>1, <1>2, <1>3, <1>4, <1>5 DEF Next

(* open_file, close_file, lseek_pos, and the positions that read_file and  *)
(* write_to_file leave: without interruptions the three arrays are one     *)
(* table, of which each command changes one entry as OpenFiles allows.     *)
THEOREM TableImplemented ==
    ASSUME Interruptions = FALSE
    PROVE  Spec => ImplementsOpenFiles
<1>1. Init => TableInv /\ Files!TableInit
  <2> SUFFICES ASSUME Init PROVE TableInv /\ Files!TableInit
    OBVIOUS
  <2>1. CommittedTable = EmptyTable /\ pc = "idle"
    BY DEF Init, CommittedTable, DiskTable, EmptyTable
  <2>2. Cleared(EmptyTable)
    BY DEF Cleared, EmptyTable, RootInode
  <2>3. Abstract(EmptyTable) = [d \in Fds |-> Files!Closed]
    BY DEF Abstract, EmptyTable, Files!Closed
  <2> QED
    BY <2>1, <2>2, <2>3 DEF TableInv, TransferSteps, WriteSteps, Files!TableInit
<1>2. TypeOK /\ TableInv /\ [Next]_vars =>
        TableInv' /\ [Files!TableNext]_(Abstract(CommittedTable))
  <2> SUFFICES ASSUME TypeOK, TableInv, [Next]_vars
               PROVE  Simulated
    BY DEF Simulated
  <2>1. CASE Next
    BY <2>1, NextSimulated
  <2>2. CASE UNCHANGED vars
    <3>1. CommittedTable' = CommittedTable /\ DiskTable' = DiskTable
      BY <2>2 DEF vars, diskVars, tableVars, CommittedTable, DiskTable
    <3> QED
      BY <2>2, <3>1
         DEF Simulated, TableInv, Abstract, Cleared, vars, diskVars, tableVars
  <2> QED
    BY <2>1, <2>2
<1> QED
  BY <1>1, <1>2, TypeCorrect, PTL DEF Spec, ImplementsOpenFiles, Files!TableSpec

(***************************************************************************)
(* What is at the prompt: the table of descriptors.                        *)
(***************************************************************************)

\* An entry of the table is closed, or has a file that is not the root.
WellOpen(entry) == entry = Files!Closed \/ (entry.isOpen /\ entry.file # RootInode)

\* Whatever OpenFiles does to a table leaves its entries in order.
LEMMA StaysWellOpen ==
    ASSUME \A f \in Fds : WellOpen(Abstract(CommittedTable)[f]),
           [Files!TableNext]_(Abstract(CommittedTable))
    PROVE  \A f \in Fds : WellOpen(Abstract(CommittedTable')[f])
<1> DEFINE t == Abstract(CommittedTable)
           u == Abstract(CommittedTable')
<1>1. DOMAIN t = Fds
  BY DEF Abstract
<1> HIDE DEF t, u
<1>2. CASE u = t
  BY <1>2 DEF t, u
<1>3. ASSUME NEW d \in Fds, NEW entry, WellOpen(entry), u = [t EXCEPT ![d] = entry]
      PROVE  \A f \in Fds : WellOpen(u[f])
  BY <1>1, <1>3 DEF t
<1>4. ASSUME NEW d \in Fds, NEW file \in InodeIds \ {RootInode}, Files!OpenFile(d, file)
      PROVE  \A f \in Fds : WellOpen(u[f])
  <2>1. u = [t EXCEPT ![d] = Files!OpenAt(file, 0)]
    BY <1>4 DEF Files!OpenFile, t, u
  <2>2. WellOpen(Files!OpenAt(file, 0))
    BY DEF WellOpen, Files!OpenAt
  <2> QED
    BY <1>3, <2>1, <2>2
<1>5. ASSUME NEW d \in Fds, Files!CloseFile(d)
      PROVE  \A f \in Fds : WellOpen(u[f])
  <2>1. u = [t EXCEPT ![d] = Files!Closed]
    BY <1>5 DEF Files!CloseFile, t, u
  <2> QED
    BY <1>3, <2>1 DEF WellOpen
<1>6. ASSUME NEW d \in Fds, NEW pos, Files!Move(d, pos)
      PROVE  \A f \in Fds : WellOpen(u[f])
  <2>1. t[d].isOpen /\ u = [t EXCEPT ![d] = Files!OpenAt(t[d].file, pos)]
    BY <1>6 DEF Files!Move, t, u
  <2>2. t[d].file # RootInode
    BY <2>1 DEF WellOpen, Files!Closed, t
  <2>3. WellOpen(Files!OpenAt(t[d].file, pos))
    BY <2>2 DEF WellOpen, Files!OpenAt
  <2> QED
    BY <1>3, <2>1, <2>3
<1>7. ASSUME Files!CloseAll PROVE \A f \in Fds : WellOpen(u[f])
  BY <1>7 DEF Files!CloseAll, WellOpen, u
<1> QED
  BY <1>2, <1>4, <1>5, <1>6, <1>7 DEF Files!TableNext, t, u

(* open_file, close_file and lseek_pos: at the prompt the three arrays     *)
(* agree, a descriptor is reserved for an inode that a path leads to, and  *)
(* a free one has nothing left from its last use.                          *)
THEOREM TableIsRight == ASSUME Interruptions = FALSE PROVE Spec => []TableAgrees
<1> DEFINE Right == \A f \in Fds : WellOpen(Abstract(CommittedTable)[f])
<1>1. Files!TableInit => Right
  BY DEF Files!TableInit, WellOpen
<1>2. Right /\ [Files!TableNext]_(Abstract(CommittedTable)) => Right'
  BY StaysWellOpen
<1>3. Right /\ TypeOK /\ TreeInv => TableAgrees
  <2> SUFFICES ASSUME Right, TypeOK, TreeInv, pc = "idle", NEW f \in Fds
               PROVE  IF reservedFd[f] THEN fdToInode[f] \in Linked \ {RootInode}
                                       ELSE fdToInode[f] = 0 /\ fdToPosition[f] = 0
    BY DEF TableAgrees
  <2>1. fdToInode[f] \in Linked
    BY DEF TreeInv, DiskInv, OpenedInv
  <2>2. Abstract(CommittedTable)[f] = [isOpen |-> reservedFd[f], file |-> fdToInode[f],
                                       position |-> fdToPosition[f]]
    BY DEF Abstract, CommittedTable, DiskTable
  <2>3. WellOpen(Abstract(CommittedTable)[f])
    OBVIOUS
  <2>4. reservedFd[f] \in BOOLEAN
    BY DEF TypeOK, DiskTypeOK
  <2>5. \/ ~reservedFd[f] /\ fdToInode[f] = 0 /\ fdToPosition[f] = 0
        \/ reservedFd[f] /\ fdToInode[f] # RootInode
    BY <2>2, <2>3, <2>4 DEF WellOpen, Files!Closed
  <2> QED
    BY <2>1, <2>5
<1>4. ~(Interruptions /\ WindowCrashes)
  OBVIOUS
<1> HIDE DEF Right
<1>5. Spec => []TreeInv
  BY <1>4, TreeInvariant
<1>6. Spec => ImplementsOpenFiles
  BY TableImplemented
<1> QED
  BY <1>1, <1>2, <1>3, <1>5, <1>6, TypeCorrect, PTL DEF ImplementsOpenFiles, Files!TableSpec

----------------------------------------------------------------------------
(* The space.  From here on the process may be interrupted, but not within *)
(* the windows.                                                            *)

\* The step loses these inodes and these blocks.
Loses(ns, bs) == LostInodes' = LostInodes \cup ns /\ LostBlocks' = LostBlocks \cup bs
Kept == Loses({}, {})

\* What a step may lose that is not an interruption.
Accounted ==
    Loses(IF ParentFull THEN NewInodes ELSE {},
          (IF ParentFull THEN NewBlocks ELSE {})
              \cup (IF FileFull THEN {ReserveBlock(mem.blockMask)} ELSE {}))

Spaced == Accounted /\ SpaceInv'

LEMMA FullWhere ==
    /\ pc # "link" => ~ParentFull
    /\ pc # "write_loop" => ~FileFull
BY DEF ParentFull, FileFull, MakerAt

LEMMA KeptAccounted ==
    ASSUME Kept, ~ParentFull, ~FileFull
    PROVE  Accounted
BY DEF Kept, Accounted

\* The same files own the same blocks.
LEMMA OwnedSame ==
    ASSUME KeepsTree,
           \A i \in Linked : BlocksOf(InodeOf(i))' = BlocksOf(InodeOf(i))
    PROVE  Linked' = Linked /\ Owned' = Owned
<1>1. Linked' = Linked
  BY LinksKept DEF KeepsTree
<1>2. Owned' = UNION {BlocksOf(InodeOf(i))' : i \in Linked'}
  BY DEF Owned
<1> QED
  BY <1>1, <1>2 DEF Owned

\* No node is made.
LEMMA NothingNew ==
    ASSUME mem.op \notin MakeOps \/ pc \notin {"blocks_mask", "link"} \cup LinkSteps
    PROVE  NewInodes = {} /\ NewBlocks = {}
BY DEF NewInodes, NewBlocks, MakerAt, MakeOps

LEMMA NothingNewNext ==
    ASSUME mem'.op \notin MakeOps \/ pc' \notin {"blocks_mask", "link"} \cup LinkSteps
    PROVE  NewInodes' = {} /\ NewBlocks' = {}
BY DEF NewInodes, NewBlocks, MakerAt, MakeOps

LEMMA SameKept ==
    ASSUME Linked' = Linked, Owned' = Owned, inodeMask' = inodeMask, Mask' = Mask,
           NewInodes' = NewInodes, NewBlocks' = NewBlocks
    PROVE  Kept
BY DEF Kept, Loses, LostInodes, LostBlocks

\* A step that neither reserves nor writes an inode.
LEMMA QuietKept ==
    ASSUME KeepsTree, inodeMask' = inodeMask, inodes' = inodes, Mask' = Mask,
           pc \notin {"grow_info", "grow_ids"}, pc' \notin {"grow_info", "grow_ids"},
           NewInodes' = NewInodes, NewBlocks' = NewBlocks
    PROVE  Kept
<1>1. \A i : InodeOf(i)' = InodeOf(i)
  BY DEF InodeOf
<1>2. \A i \in Linked : BlocksOf(InodeOf(i))' = BlocksOf(InodeOf(i))
  BY <1>1 DEF BlocksOf
<1>3. Linked' = Linked /\ Owned' = Owned
  BY <1>2, OwnedSame
<1> QED
  BY <1>3, SameKept

\* The command ends outside the windows: the node it has reserved, if any, is lost.
LEMMA EndLosesNew ==
    ASSUME TypeOK, TreeInv, Mounted, KeepsTree, ~Window,
           inodeMask' = inodeMask, blockMask' = blockMask, inodes' = inodes,
           mem'.op = "none", pc' \in {"idle", "dead", "stuck"}
    PROVE  Loses(NewInodes, NewBlocks)
<1>1. Settled /\ DiskInv
  BY SettledOutside DEF TreeInv
<1>2. Mask = blockMask /\ Mask' = blockMask
  BY <1>1 DEF Settled, Mask
<1>3. \A i \in Linked : InodeOf(i) = inodes[i]
  BY <1>1 DEF Settled
<1>4. \A i : InodeOf(i)' = inodes[i]
  BY DEF InodeOf
<1>5. \A i \in Linked : BlocksOf(InodeOf(i))' = BlocksOf(InodeOf(i))
  BY <1>3, <1>4 DEF BlocksOf
<1>6. Linked' = Linked /\ Owned' = Owned
  BY <1>5, OwnedSame
<1>7. NewInodes' = {} /\ NewBlocks' = {}
  BY NothingNewNext DEF MakeOps
<1>8. NewInodes \subseteq inodeMask \ Linked
  <2>1. CASE MakerAt({"blocks_mask", "link"} \cup LinkSteps)
    <3>1. mem.op \in MakeOps /\ pc \in CreateSteps /\ pc \notin {"new_block", "new_inode", "inodes_mask"}
      BY <2>1 DEF MakerAt, MakeOps, LinkSteps, CreateSteps
    <3>2. mem.inode.id \in inodeMask /\ mem.inode.id \notin Linked
      BY <3>1, MakerSettled DEF ProgressInv, NodeInv
    <3> QED
      BY <2>1, <3>2 DEF NewInodes
  <2>2. CASE ~MakerAt({"blocks_mask", "link"} \cup LinkSteps)
    BY <2>2 DEF NewInodes
  <2> QED
    BY <2>1, <2>2
<1>9. NewBlocks \subseteq Mask \ Owned
  <2>1. CASE MakerAt({"link"} \cup LinkSteps)
    <3>1. mem.op \in MakeOps /\ pc \in CreateSteps /\ pc \notin ReserveSteps
      BY <2>1 DEF MakerAt, MakeOps, LinkSteps, CreateSteps, ReserveSteps
    <3>2. /\ mem.inode.ids[0] \in blockMask
          /\ \A i \in Linked : mem.inode.ids[0] \notin BlocksOf(inodes[i])
      BY <3>1, MakerSettled DEF ProgressInv, NodeInv
    <3>3. mem.inode.ids[0] \notin Owned
      BY <1>3, <3>2 DEF Owned
    <3> QED
      BY <1>2, <2>1, <3>2, <3>3 DEF NewBlocks
  <2>2. CASE ~MakerAt({"link"} \cup LinkSteps)
    BY <2>2 DEF NewBlocks
  <2> QED
    BY <2>1, <2>2
<1>10. LostInodes' = LostInodes \cup NewInodes
  BY <1>6, <1>7, <1>8 DEF LostInodes
<1>11. LostBlocks' = LostBlocks \cup NewBlocks
  BY <1>2, <1>6, <1>7, <1>9 DEF LostBlocks
<1> QED
  BY <1>10, <1>11 DEF Loses

----------------------------------------------------------------------------
(* The steps that leave the account as it is.                              *)

LEMMA NoMakerNext ==
    ASSUME mem'.op \notin MakeOps \/ pc' \notin ReserveSteps \cup {"link"}
    PROVE  SpaceInv'
BY DEF SpaceInv, ParentInv, FreshInv, MakerAt, MakeOps, ReserveSteps

LEMMA QuietSpaced ==
    ASSUME KeepsTree, inodeMask' = inodeMask, inodes' = inodes, Mask' = Mask,
           pc \notin {"link", "write_loop"},
           pc \notin {"grow_info", "grow_ids"}, pc' \notin {"grow_info", "grow_ids"},
           mem.op \notin MakeOps \/ pc \notin {"blocks_mask", "link"} \cup LinkSteps,
           mem'.op \notin MakeOps \/ pc' \notin {"blocks_mask", "link"} \cup LinkSteps,
           SpaceInv'
    PROVE  Spaced
<1>1. NewInodes' = NewInodes /\ NewBlocks' = NewBlocks
  BY NothingNew, NothingNewNext
<1>2. Kept
  BY <1>1, QuietKept
<1> QED
  BY <1>2, KeptAccounted, FullWhere DEF Spaced

\* A command is given, or the program started again.
LEMMA PromptSpaced ==
    ASSUME TypeOK, TreeInv, Mounted, KeepsTree, Command \/ Restart, ~InitFs
    PROVE  Spaced
<1>1. pc \in {"idle", "dead", "stuck"} /\ UNCHANGED diskVars
  BY DEF Command, Restart, MountFails, Resolve, Close, Lseek, Transfer
<1>2. mem.op = "none"
  BY <1>1 DEF TreeInv, ProcessInv, RestInv, Busy
<1>3. /\ mem'.op \in {"none"} \cup PathCommands \cup FdCommands
      /\ mem'.op = "write" => mem'.blockMask = blockMask
      /\ pc' \in {"idle", "dead", "stuck", "walk", "table_reserved", "read_loop", "write_loop"}
  <2>1. CASE MountFails \/ Restart
    BY <2>1 DEF MountFails, Restart, Return, Die, Spin, End, NoMem
  <2>2. ASSUME NEW op \in PathCommands, NEW path, NEW name, Resolve(op, path, name)
        PROVE  <1>3!:
    BY <2>2 DEF Resolve, Continue, NoMem, PathCommands
  <2>3. ASSUME NEW f \in Fds, Close(f)
        PROVE  <1>3!:
    BY <2>3 DEF Close, Continue, NoMem, FdCommands
  <2>4. ASSUME NEW f \in Fds, NEW pos, Lseek(f, pos)
        PROVE  <1>3!:
    BY <2>4 DEF Lseek, Continue, NoMem, FdCommands
  <2>5. ASSUME NEW f \in Fds, NEW size,
               Transfer("read", "read_loop", f, size) \/ Transfer("write", "write_loop", f, size)
        PROVE  <1>3!:
    BY <2>5 DEF Transfer, Continue, NoMem, FdCommands
  <2> QED
    BY <2>1, <2>2, <2>3, <2>4, <2>5 DEF Command, PathCommands
<1>4. /\ image' = image /\ inodeMask' = inodeMask /\ blockMask' = blockMask
      /\ inodes' = inodes /\ blocks' = blocks
  BY <1>1 DEF diskVars, maskVars
<1>5. Mask' = Mask
  BY <1>2, <1>3, <1>4 DEF Mask, PathCommands, FdCommands
<1> QED
  BY <1>1, <1>2, <1>3, <1>4, <1>5, QuietSpaced, NoMakerNext
     DEF MakeOps, LinkSteps, ReserveSteps

\* The path is walked, the directory listed, the file opened, or the node found wanting.
LEMMA WalkSpaced ==
    ASSUME TypeOK, TreeInv, Mounted, KeepsTree,
           DirUnreadable \/ Walk \/ List \/ Open \/ Create
    PROVE  Spaced
<1>1. pc = "walk" /\ UNCHANGED diskVars
  BY DEF DirUnreadable, Walk, List, Open, Create, DirReadable
<1>2. mem.op \in PathCommands /\ mem \in Memory
  BY <1>1 DEF TreeInv, ProcessInv, WalkInv, TypeOK, ProcessTypeOK
<1>3. /\ image' = image /\ inodeMask' = inodeMask /\ blockMask' = blockMask
      /\ inodes' = inodes /\ blocks' = blocks
  BY <1>1 DEF diskVars, maskVars
<1>4. /\ mem'.op \in {"none", mem.op}
      /\ pc' \in {"idle", "dead", "stuck", "walk", "table_reserved"} \/ (Create /\ pc' = "new_block")
  <2>1. CASE Return \/ Die \/ Spin
    BY <2>1 DEF Return, Die, Spin, End, NoMem
  <2>2. CASE Walk
    BY <1>2, <2>1, <2>2 DEF Walk, Continue, Memory
  <2>3. CASE Open
    BY <1>2, <2>1, <2>3 DEF Open, Continue, Memory
  <2>4. CASE Create
    <3>1. CASE ~(Return \/ Die)
      <4>1. pc' = "new_block" /\ mem'.op = mem.op
        BY <1>2, <2>4, <3>1 DEF Create, UndefinedBehaviour, Register, Continue, Memory
      <4> QED
        BY <2>4, <4>1
    <3> QED
      BY <2>1, <3>1
  <2> QED
    BY <2>1, <2>2, <2>3, <2>4 DEF DirUnreadable, List
<1>5. Mask' = Mask
  BY <1>2, <1>3, <1>4 DEF Mask, PathCommands
<1>6. SpaceInv'
  <2>1. CASE pc' # "new_block"
    BY <1>4, <2>1, NoMakerNext DEF ReserveSteps
  <2>2. CASE Create /\ pc' = "new_block"
    <3> DEFINE i == ReserveInode(inodeMask)
               b == ReserveBlock(blockMask)
               isFile == mem.op = "touch"
    <3>1. mem'.dir = mem.dir /\ mem'.inode.id = i
      <4>1. mem'.dir = mem.dir /\ mem'.inode = NewInode(i, isFile, b)
        BY <1>2, <2>2 DEF Create, Register, Continue, Return, Die, End, UndefinedBehaviour, Memory
      <4> QED
        BY <4>1, NewInodeParts
    <3>2. Readable(inodes[mem.dir].ids[0]) /\ ~Mixed(DirBlock(mem.dir))
      BY <2>2 DEF Create, DirReadable
    <3>3. Readable(inodes[mem.dir].ids[0])' /\ ~Mixed(DirBlock(mem.dir))'
      BY <1>3, <3>1, <3>2 DEF Readable, Mixed, DirBlock
    <3>4. ReserveInode(inodeMask) # InodesCount
      BY <2>2 DEF Create, UndefinedBehaviour, Return, Die, End
    <3>5. mem'.inode.id \notin inodeMask'
      BY <1>3, <3>1, <3>4, ReserveType
    <3> QED
      BY <3>3, <3>5 DEF SpaceInv, ParentInv, FreshInv
  <2> QED
    BY <1>4, <2>1, <2>2
<1> QED
  BY <1>1, <1>3, <1>4, <1>5, <1>6, QuietSpaced DEF LinkSteps

\* The table is written; read comes to its next turn.
LEMMA TableSpaced ==
    ASSUME TypeOK, TreeInv, Mounted, KeepsTree,
           \/ WriteTableReserved \/ WriteTableInode \/ WriteTablePosition
           \/ ReadTurn \/ ReadEnds
    PROVE  Spaced
<1>1. /\ pc \in TableSteps \cup {"read_loop"}
      /\ inodeMask' = inodeMask /\ blockMask' = blockMask /\ inodes' = inodes /\ blocks' = blocks
  BY DEF WriteTableReserved, WriteTableInode, WriteTablePosition, ReadTurn, ReadEnds,
         diskVars, maskVars, TableSteps
<1>2. mem.op \in TableOps \/ (mem.op = "write" /\ pc # "read_loop")
  BY <1>1, TableParts
<1>3. mem \in Memory
  BY MemoryParts
<1>4. /\ pc' \in {"idle", "dead", "stuck", "read_loop", "inodes_mask"} \cup TableSteps
      /\ \/ mem'.op = mem.op /\ mem'.blockMask = mem.blockMask
         \/ mem.op # "write" /\ mem'.op = "none"
  <2>1. CASE WriteTableReserved \/ WriteTableInode
    BY <2>1 DEF WriteTableReserved, WriteTableInode, Continue, TableSteps
  <2>2. CASE WriteTablePosition
    BY <2>2 DEF WriteTablePosition, Continue, Return, End, NoMem
  <2>3. CASE ReadTurn \/ ReadEnds
    <3>1. mem.op # "write"
      BY <1>2, <2>3 DEF ReadTurn, ReadEnds, TableOps
    <3>2. CASE Spin \/ Die
      BY <3>1, <3>2 DEF Spin, Die, End, NoMem
    <3>3. CASE EndLoop(mem)
      BY <1>3, <3>3 DEF EndLoop, Continue, TableSteps, Memory
    <3>4. CASE \E pos, need : Continue("read_loop", [mem EXCEPT !.pos = pos, !.need = need])
      BY <1>3, <3>4 DEF Continue, Memory
    <3> QED
      BY <2>3, <3>2, <3>3, <3>4 DEF ReadTurn, ReadEnds
  <2> QED
    BY <2>1, <2>2, <2>3
<1>5. Mask' = Mask
  BY <1>1, <1>2, <1>4 DEF Mask, TableOps
<1>6. /\ pc \notin {"grow_info", "grow_ids"} /\ pc' \notin {"grow_info", "grow_ids"}
      /\ mem.op \notin MakeOps /\ mem'.op \notin MakeOps
  BY <1>1, <1>2, <1>4 DEF TableSteps, TableOps, MakeOps
<1>7. SpaceInv'
  BY <1>6, NoMakerNext
<1> QED
  BY <1>1, <1>5, <1>6, <1>7, QuietSpaced DEF TableSteps

\* write_super_block at the end of init and of write, whose masks were decided before.
LEMMA MasksSpaced ==
    ASSUME TypeOK, TreeInv, Mounted, KeepsTree, mem.op \in {"init", "write"},
           WriteInodesMask \/ WriteBlocksMask
    PROVE  Spaced
<1>1. /\ pc \in {"inodes_mask", "blocks_mask"} /\ inodes' = inodes /\ blocks' = blocks
      /\ pc = "inodes_mask" => /\ inodeMask' = mem.inodeMask /\ blockMask' = blockMask
                               /\ pc' = "blocks_mask" /\ mem' = mem
      /\ pc = "blocks_mask" => /\ inodeMask' = inodeMask /\ blockMask' = mem.blockMask
                               /\ pc' \in {"idle", "dead"} /\ mem'.op = "none"
  BY DEF WriteInodesMask, WriteBlocksMask, Continue, Return, Die, End, NoMem
<1>2. inodeMask' = inodeMask
  <2>1. CASE mem.op = "init"
    BY <1>1, <2>1, MountedInit
  <2>2. CASE mem.op = "write"
    BY <1>1, <2>2, WriterParts
  <2> QED
    BY <2>1, <2>2
<1>3. Mask' = Mask
  BY <1>1 DEF Mask
<1>4. mem.op \notin MakeOps /\ mem'.op \notin MakeOps
  BY <1>1 DEF MakeOps
<1>5. SpaceInv'
  BY <1>4, NoMakerNext
<1> QED
  BY <1>1, <1>2, <1>3, <1>4, <1>5, QuietSpaced

----------------------------------------------------------------------------
(* mkdir and touch.                                                        *)

\* The directory can still be read.
LEMMA ParentKept ==
    ASSUME ParentInv, MakerAt(ReserveSteps \cup {"link"}),
           mem'.dir = mem.dir, inodes'[mem.dir].ids[0] = inodes[mem.dir].ids[0],
           DirBlock(mem.dir)' = DirBlock(mem.dir),
           \A c \in BlockIds : blocks[c] # ZeroBlock => blocks'[c] # ZeroBlock
    PROVE  ParentInv'
<1>1. PICK b : b = inodes[mem.dir].ids[0]
  OBVIOUS
<1>2. inodes'[mem'.dir].ids[0] = b /\ blocks'[b] = blocks[b]
  BY <1>1 DEF DirBlock
<1>3. Readable(b) /\ ~Mixed(DirBlock(mem.dir))
  BY <1>1 DEF ParentInv
<1>4. Readable(b)'
  BY <1>2, <1>3 DEF Readable
<1>5. Readable(inodes[mem.dir].ids[0])' /\ ~Mixed(DirBlock(mem.dir))'
  BY <1>2, <1>3, <1>4 DEF Readable, Mixed
<1> QED
  BY <1>5 DEF ParentInv

LEMMA MakerBlockSpaced ==
    ASSUME TypeOK, TreeInv, SpaceInv, Mounted, KeepsTree, mem.op \in MakeOps, WriteNewBlock
    PROVE  Spaced
<1>1. PICK b : b = mem.inode.ids[0]
  OBVIOUS
<1>2. /\ pc = "new_block" /\ pc' = "new_inode" /\ mem' = mem
      /\ inodeMask' = inodeMask /\ blockMask' = blockMask /\ inodes' = inodes
      /\ blocks' = [blocks EXCEPT ![mem.block.id] = mem.block]
  BY DEF WriteNewBlock, Continue, maskVars
<1>3. /\ Mask = blockMask /\ NodeInv /\ ProgressInv /\ b \in BlockIds
      /\ \A i \in Linked : inodes[i].ids[0] # b
  BY <1>1, <1>2, MakerSettled DEF CreateSteps
<1>4. mem.block = NodeBlock /\ mem.dir \in Linked /\ mem.dir < mem.inode.id
  BY <1>2, <1>3 DEF ProgressInv, NodeInv, ReserveSteps
<1>5. mem.block.id = b /\ mem.block.owner = mem.inode.id
  BY <1>1, <1>4, NodeBlockParts
<1>6. mem.block # ZeroBlock
  BY <1>4, <1>5, MemoryParts DEF ZeroBlock, InodeIds
<1>7. blocks'[b] = mem.block /\ \A c \in BlockIds : c # b => blocks'[c] = blocks[c]
  BY <1>2, <1>3, <1>5 DEF TypeOK, DiskTypeOK
<1>8. \A i \in Linked : inodes[i].ids[0] \in BlockIds
  BY LinkedType, DiskParts, InodeParts
<1>9. \A i \in Linked : blocks'[inodes[i].ids[0]] = blocks[inodes[i].ids[0]]
  BY <1>3, <1>7, <1>8
<1>10. Mask' = Mask
  BY <1>2 DEF Mask
<1>11. NewInodes' = NewInodes /\ NewBlocks' = NewBlocks
  BY <1>2, NothingNew, NothingNewNext DEF LinkSteps
<1>12. Accounted
  BY <1>2, <1>10, <1>11, QuietKept, KeptAccounted, FullWhere
<1>13. FreshInv'
  BY <1>2 DEF SpaceInv, FreshInv, MakerAt
<1>14. ParentInv'
  <2>1. MakerAt(ReserveSteps \cup {"link"}) /\ ParentInv
    BY <1>2 DEF MakerAt, MakeOps, ReserveSteps, SpaceInv
  <2>2. DirBlock(mem.dir)' = DirBlock(mem.dir)
    BY <1>2, <1>4, <1>9 DEF DirBlock
  <2>3. \A c \in BlockIds : blocks[c] # ZeroBlock => blocks'[c] # ZeroBlock
    BY <1>6, <1>7
  <2> QED
    BY <1>2, <2>1, <2>2, <2>3, ParentKept
<1> QED
  BY <1>12, <1>13, <1>14 DEF Spaced, SpaceInv

LEMMA MakerInodeSpaced ==
    ASSUME TypeOK, TreeInv, SpaceInv, Mounted, KeepsTree, mem.op \in MakeOps, WriteNewInode
    PROVE  Spaced
<1>1. PICK n : n = mem.inode.id
  OBVIOUS
<1>2. /\ pc = "new_inode" /\ pc' = "inodes_mask" /\ mem' = mem
      /\ inodeMask' = inodeMask /\ blockMask' = blockMask /\ blocks' = blocks
      /\ inodes' = [inodes EXCEPT ![n] = mem.inode]
  BY <1>1 DEF WriteNewInode, Continue, maskVars
<1>3. n \notin Linked /\ mem.dir \in Linked
  BY <1>1, <1>2, MakerSettled DEF NodeInv, CreateSteps
<1>4. \A i \in Linked : inodes'[i] = inodes[i]
  BY <1>2, <1>3, LinkedType DEF TypeOK, DiskTypeOK
<1>5. Mask' = Mask /\ NewInodes' = NewInodes /\ NewBlocks' = NewBlocks
  BY <1>2, NothingNew, NothingNewNext DEF LinkSteps, Mask
<1>6. \A i \in Linked : BlocksOf(InodeOf(i))' = BlocksOf(InodeOf(i))
  BY <1>2, <1>4 DEF InodeOf, BlocksOf
<1>7. Accounted
  BY <1>2, <1>5, <1>6, OwnedSame, SameKept, KeptAccounted, FullWhere
<1>8. FreshInv'
  BY <1>2 DEF SpaceInv, FreshInv, MakerAt
<1>9. ParentInv'
  <2>1. MakerAt(ReserveSteps \cup {"link"}) /\ ParentInv
    BY <1>2 DEF MakerAt, MakeOps, ReserveSteps, SpaceInv
  <2>2. inodes'[mem.dir].ids[0] = inodes[mem.dir].ids[0] /\ DirBlock(mem.dir)' = DirBlock(mem.dir)
    BY <1>2, <1>3, <1>4 DEF DirBlock
  <2> QED
    BY <1>2, <2>1, <2>2, ParentKept
<1> QED
  BY <1>7, <1>8, <1>9 DEF Spaced, SpaceInv

LEMMA MakerMasksSpaced ==
    ASSUME TypeOK, TreeInv, SpaceInv, Mounted, KeepsTree, mem.op \in MakeOps,
           WriteInodesMask \/ WriteBlocksMask
    PROVE  Spaced
<1>1. PICK n, b : n = mem.inode.id /\ b = mem.inode.ids[0]
  OBVIOUS
<1>2. /\ pc \in {"inodes_mask", "blocks_mask"} /\ mem' = mem
      /\ pc' = IF pc = "inodes_mask" THEN "blocks_mask" ELSE "link"
      /\ inodeMask' = IF pc = "inodes_mask" THEN mem.inodeMask ELSE inodeMask
      /\ blockMask' = IF pc = "inodes_mask" THEN blockMask ELSE mem.blockMask
      /\ blocks' = blocks /\ inodes' = inodes
  BY DEF WriteInodesMask, WriteBlocksMask, Continue, MakeOps
<1>3. mem.inodeMask = inodeMask \cup {n} /\ mem.blockMask = blockMask \cup {b}
  BY <1>1, <1>2, MakerSettled DEF ProgressInv, ReserveSteps, CreateSteps
<1>4. Mask = blockMask /\ Mask' = blockMask'
  BY <1>2 DEF Mask, MakeOps
<1>5. /\ NewInodes = IF pc = "inodes_mask" THEN {} ELSE {n}
      /\ NewInodes' = {n}
      /\ NewBlocks = {} /\ NewBlocks' = IF pc = "inodes_mask" THEN {} ELSE {b}
  BY <1>1, <1>2 DEF NewInodes, NewBlocks, MakerAt, MakeOps, LinkSteps
<1>6. Linked' = Linked /\ Owned' = Owned
  <2>1. \A i \in Linked : BlocksOf(InodeOf(i))' = BlocksOf(InodeOf(i))
    BY <1>2 DEF InodeOf, BlocksOf
  <2> QED
    BY <2>1, OwnedSame
<1>7. Kept
  <2>1. CASE pc = "inodes_mask"
    <3>1. n \notin inodeMask
      BY <1>1, <2>1 DEF SpaceInv, FreshInv, MakerAt, MakeOps
    <3>2. n \notin Linked /\ Linked \subseteq inodeMask
      BY <1>1, <1>2, <3>1, LinkedReserved DEF TreeInv, DiskInv
    <3>3. inodeMask' = inodeMask \cup {n} /\ Mask' = Mask
      BY <1>2, <1>3, <1>4, <2>1
    <3> QED
      BY <1>5, <1>6, <2>1, <3>1, <3>2, <3>3 DEF Kept, Loses, LostInodes, LostBlocks
  <2>2. CASE pc = "blocks_mask"
    <3>1. b \notin blockMask
      BY <1>1, <1>2, MakerSettled DEF ProgressInv, ReserveSteps, CreateSteps
    <3>2. inodeMask' = inodeMask /\ Mask' = Mask \cup {b}
      BY <1>2, <1>3, <1>4, <2>2
    <3> QED
      BY <1>4, <1>5, <1>6, <2>2, <3>1, <3>2 DEF Kept, Loses, LostInodes, LostBlocks
  <2> QED
    BY <1>2, <2>1, <2>2
<1>8. Accounted /\ FreshInv'
  BY <1>2, <1>7, KeptAccounted, FullWhere DEF FreshInv, MakerAt
<1>9. ParentInv'
  <2>1. MakerAt(ReserveSteps \cup {"link"}) /\ ParentInv
    BY <1>2 DEF MakerAt, MakeOps, ReserveSteps, SpaceInv
  <2> QED
    BY <1>2, <2>1, ParentKept DEF DirBlock
<1> QED
  BY <1>8, <1>9 DEF Spaced, SpaceInv

\* The parent is read again: it is full, or the record goes there.
LEMMA LinkSpaced ==
    ASSUME TypeOK, TreeInv, SpaceInv, Mounted, KeepsTree, Link
    PROVE  Spaced
<1>1. /\ pc = "link"
      /\ inodeMask' = inodeMask /\ blockMask' = blockMask /\ inodes' = inodes /\ blocks' = blocks
  BY DEF Link, diskVars, maskVars
<1>2. mem.op \in MakeOps /\ mem \in Memory
  BY <1>1, MakerOp, MemoryParts DEF TreeInv, CreateSteps
<1>3. mem.dir \in Linked /\ ~inodes[mem.dir].isFile
  BY <1>1, <1>2, MakerSettled DEF NodeInv, CreateSteps
<1>4. Readable(inodes[mem.dir].ids[0]) /\ ~Mixed(DirBlock(mem.dir))
  BY <1>1, <1>2 DEF SpaceInv, ParentInv, MakerAt, MakeOps
<1>5. ~FileFull /\ (ParentFull <=> DirectoryFull(DirBlock(mem.dir)))
  BY <1>1, <1>2, FullWhere DEF ParentFull, MakerAt, MakeOps, DirectoryFull
<1>6. CASE DirectoryFull(DirBlock(mem.dir))
  <2>1. pc' \in {"idle", "dead"} /\ mem'.op = "none"
    BY <1>4, <1>6 DEF Link, UndefinedBehaviour, Return, Die, End, NoMem
  <2>2. SpaceInv'
    BY <2>1, NoMakerNext DEF ReserveSteps
  <2>3. ~Window
    BY <1>1, <1>2 DEF Window, MakeOps
  <2>4. Loses(NewInodes, NewBlocks)
    BY <1>1, <2>1, <2>3, EndLosesNew
  <2> QED
    BY <1>5, <1>6, <2>2, <2>4 DEF Spaced, Accounted
<1>7. CASE ~DirectoryFull(DirBlock(mem.dir))
  <2>1. Continue("link_info", [mem EXCEPT !.block = DirBlock(mem.dir)])
    BY <1>4, <1>7 DEF Link
  <2>2. pc' = "link_info" /\ mem'.op = mem.op /\ mem'.inode = mem.inode
    BY <1>2, <2>1 DEF Continue, Memory
  <2>3. Mask' = Mask
    BY <1>1, <1>2, <2>2 DEF Mask, MakeOps
  <2>4. NewInodes' = NewInodes /\ NewBlocks' = NewBlocks
    BY <1>1, <2>2 DEF NewInodes, NewBlocks, MakerAt, LinkSteps
  <2>5. Accounted
    BY <1>1, <1>5, <1>7, <2>2, <2>3, <2>4, QuietKept, KeptAccounted
  <2>6. SpaceInv'
    BY <2>2, NoMakerNext DEF ReserveSteps
  <2> QED
    BY <2>5, <2>6 DEF Spaced
<1> QED
  BY <1>6, <1>7

\* The parent's block gets a record that has no name yet.
LEMMA RecordSpaced ==
    ASSUME TypeOK, TreeInv, Mounted, KeepsTree, LinkInfo \/ LinkInode
    PROVE  Spaced
<1>1. /\ pc \in {"link_info", "link_inode"} /\ pc' \in {"link_inode", "link_name"} /\ mem' = mem
      /\ inodeMask' = inodeMask /\ blockMask' = blockMask /\ inodes' = inodes
  BY DEF LinkInfo, LinkInode, Continue, maskVars
<1>2. Mask' = Mask
  BY <1>1 DEF Mask
<1>3. NewInodes' = NewInodes /\ NewBlocks' = NewBlocks
  BY <1>1 DEF NewInodes, NewBlocks, MakerAt, LinkSteps
<1>4. Accounted
  BY <1>1, <1>2, <1>3, QuietKept, KeptAccounted, FullWhere
<1>5. SpaceInv'
  BY <1>1, NoMakerNext DEF ReserveSteps
<1> QED
  BY <1>4, <1>5 DEF Spaced

\* The record gets its name: the new node is linked, and its block is owned.
LEMMA LinkNameSpaced ==
    ASSUME TypeOK, TreeInv, LinkName
    PROVE  Spaced
<1>1. PICK n, first : n = mem.inode.id /\ first = mem.inode.ids[0]
  OBVIOUS
<1>2. /\ pc = "link_name" /\ pc' = "idle" /\ mem' = NoMem
      /\ inodeMask' = inodeMask /\ blockMask' = blockMask /\ inodes' = inodes
  BY DEF LinkName, Return, End, maskVars
<1>3. mem.op \in MakeOps
  BY <1>2, ParentParts DEF LinkSteps
<1>4. NodeInv /\ ProgressInv /\ Mask = blockMask
  BY <1>2, <1>3, MakerSettled DEF CreateSteps
<1>5. Linked' = Linked \cup {n}
  BY <1>1, LinkNameLinks DEF LinkAdded
<1>6. NewInodes = {n} /\ NewBlocks = {first} /\ NewInodes' = {} /\ NewBlocks' = {}
  <2>1. NewInodes = {n} /\ NewBlocks = {first}
    BY <1>1, <1>2, <1>3 DEF NewInodes, NewBlocks, MakerAt, MakeOps, LinkSteps
  <2> QED
    BY <1>2, <2>1, NothingNewNext DEF LinkSteps
<1>7. Mask' = Mask
  BY <1>2, <1>4 DEF Mask, NoMem
<1>8. BlocksOf(inodes[n]) = {first}
  <2>1. inodes[n] = NewInode(n, mem.op = "touch", first)
    BY <1>1, <1>2, <1>4 DEF ProgressInv, NodeInv, ReserveSteps
  <2>2. inodes[n].count = 1 /\ inodes[n].ids[0] = first
    BY <2>1, NewInodeParts
  <2> QED
    BY <2>2 DEF BlocksOf
<1>9. Owned' = Owned \cup {first}
  <2>1. Owned = UNION {BlocksOf(inodes[i]) : i \in Linked}
    BY <1>2 DEF Owned, InodeOf
  <2>2. Owned' = UNION {BlocksOf(inodes[i]) : i \in Linked'}
    BY <1>2 DEF Owned, InodeOf, BlocksOf
  <2> QED
    BY <1>5, <1>8, <2>1, <2>2
<1>10. Kept
  BY <1>2, <1>5, <1>6, <1>7, <1>9 DEF Kept, Loses, LostInodes, LostBlocks
<1>11. SpaceInv'
  BY <1>2, NoMakerNext DEF ReserveSteps
<1> QED
  BY <1>2, <1>10, <1>11, KeptAccounted, FullWhere DEF Spaced

----------------------------------------------------------------------------
(* write.                                                                  *)

\* The turn appends a block: it is reserved, and the file's.
LEMMA GrowthSpaced ==
    ASSUME TypeOK, TreeInv, Mounted, KeepsTree, pc = "write_loop", UNCHANGED diskVars,
           NEW b \in BlockIds \ mem.blockMask, mem.inode.count # BlocksCountInInode,
           Continue("grow_info", [mem EXCEPT !.blockMask = @ \cup {b},
                                             !.inode = WithBlock(mem.inode, b),
                                             !.block = NewBlock(b, fdToInode[mem.fd])])
    PROVE  Spaced
<1>1. PICK i, inode : i = mem.inode.id /\ inode = mem.inode
  OBVIOUS
<1>2. /\ mem.op = "write" /\ Mask = mem.blockMask /\ mem \in Memory
      /\ CopyInv /\ i \in Linked /\ inode \in Inodes
  BY <1>1, LoopParts DEF LoopSteps
<1>3. inode = inodes[i]
  BY <1>1, <1>2 DEF CopyInv
<1>4. /\ inodeMask' = inodeMask /\ inodes' = inodes /\ blocks' = blocks
  BY DEF diskVars, maskVars
<1>5. /\ pc' = "grow_info" /\ mem'.op = "write" /\ mem'.blockMask = mem.blockMask \cup {b}
      /\ mem'.inode = WithBlock(inode, b)
  BY <1>1, <1>2 DEF Continue, Memory
<1>6. /\ WithBlock(inode, b).id = i /\ WithBlock(inode, b).count = inode.count + 1
      /\ WithBlock(inode, b).ids[inode.count] = b /\ inode.count \in Nat
      /\ \A s \in 0 .. (inode.count - 1) : WithBlock(inode, b).ids[s] = inode.ids[s]
  BY <1>1, <1>2, WithBlockParts
<1>7. PICK grown : grown = WithBlock(inode, b)
  OBVIOUS
<1>8. BlocksOf(grown) = BlocksOf(inode) \cup {b}
  <2>1. 0 .. (grown.count - 1) = (0 .. (inode.count - 1)) \cup {inode.count}
    BY <1>6, <1>7
  <2>2. BlocksOf(grown) = {grown.ids[s] : s \in (0 .. (inode.count - 1)) \cup {inode.count}}
    BY <2>1 DEF BlocksOf
  <2> QED
    BY <1>6, <1>7, <2>2 DEF BlocksOf
<1>9. /\ InodeOf(i) = inode /\ InodeOf(i)' = grown
      /\ \A x : x # i => InodeOf(x)' = InodeOf(x)
  BY <1>3, <1>4, <1>5, <1>6, <1>7 DEF InodeOf
<1>10. Linked' = Linked /\ Owned' = Owned \cup {b}
  <2>1. Linked' = Linked
    BY LinksKept DEF KeepsTree
  <2>2. Owned' = UNION {BlocksOf(InodeOf(x))' : x \in Linked}
    BY <2>1 DEF Owned
  <2>3. /\ BlocksOf(InodeOf(i))' = BlocksOf(InodeOf(i)) \cup {b}
        /\ \A x : x # i => BlocksOf(InodeOf(x))' = BlocksOf(InodeOf(x))
    BY <1>8, <1>9 DEF BlocksOf
  <2> QED
    BY <1>2, <2>1, <2>2, <2>3 DEF Owned
<1>11. Mask' = Mask \cup {b}
  BY <1>2, <1>5 DEF Mask
<1>12. NewInodes = {} /\ NewBlocks = {} /\ NewInodes' = {} /\ NewBlocks' = {}
  BY <1>2, <1>5, NothingNew, NothingNewNext DEF MakeOps
<1>13. Kept
  <2>1. b \in BlockIds /\ b \notin Mask
    BY <1>2
  <2> QED
    BY <1>4, <1>10, <1>11, <1>12, <2>1 DEF Kept, Loses, LostInodes, LostBlocks
<1>14. ~ParentFull /\ ~FileFull
  BY FullWhere DEF FileFull
<1>15. SpaceInv'
  BY <1>5, NoMakerNext DEF MakeOps
<1> QED
  BY <1>13, <1>14, <1>15, KeptAccounted DEF Spaced

LEMMA WriteLoopSpaced ==
    ASSUME TypeOK, TreeInv, Mounted, KeepsTree, WriteTurn \/ WriteEnds
    PROVE  Spaced
<1> DEFINE b == ReserveBlock(mem.blockMask)
<1>1. pc = "write_loop" /\ UNCHANGED diskVars
  BY DEF WriteTurn, WriteEnds
<1>2. /\ mem.op = "write" /\ mem \in Memory /\ CopyInv /\ GrownInv
      /\ Mask = mem.blockMask /\ mem.inode \in Inodes /\ mem.inode.id \in Linked
  BY <1>1, LoopParts DEF LoopSteps
<1>3. /\ inodeMask' = inodeMask /\ blockMask' = blockMask /\ inodes' = inodes /\ blocks' = blocks
  BY <1>1 DEF diskVars, maskVars
<1>4. ASSUME mem'.op \in {"write", "none"}, Mask' = Mask, ~FileFull,
             pc' \notin {"grow_info", "grow_ids"}
      PROVE  Spaced
  <2>1. mem.op \notin MakeOps /\ mem'.op \notin MakeOps
    BY <1>2, <1>4 DEF MakeOps
  <2>2. NewInodes' = NewInodes /\ NewBlocks' = NewBlocks
    BY <2>1, NothingNew, NothingNewNext
  <2>3. Kept /\ SpaceInv'
    BY <1>1, <1>3, <1>4, <2>1, <2>2, QuietKept, NoMakerNext
  <2> QED
    BY <1>1, <1>4, <2>3, KeptAccounted, FullWhere DEF Spaced
<1>5. CASE EndLoop(mem) /\ ~FileFull
  <2>1. pc' = "table_reserved" /\ mem'.op = "write" /\ mem'.blockMask = mem.blockMask
    BY <1>2, <1>5 DEF EndLoop, Continue, Memory
  <2>2. Mask' = Mask
    BY <1>2, <2>1 DEF Mask
  <2> QED
    BY <1>4, <1>5, <2>1, <2>2
<1>6. CASE WriteTurn
  <2> DEFINE block == mem.inode.ids[BlockIndex]
  <2>1. BlockIndex \in Nat /\ mem.inode.count \in Nat
    BY <1>2, ChunkFits, InodeParts
  <2>2. CASE BlockIndex < mem.inode.count
    <3>1. ~FileFull
      BY <2>1, <2>2 DEF FileFull
    <3>2. Spin \/ Die \/ Continue("write_info", [mem EXCEPT !.block = blocks[block]])
      BY <1>6, <2>1, <2>2 DEF WriteTurn
    <3>3. mem.blockMask = blockMask
      BY <1>1, <1>2, <1>6, <2>1, <2>2 DEF GrownInv, WriteTurn
    <3>4. CASE Spin \/ Die
      <4>1. mem'.op = "none" /\ pc' \in {"stuck", "dead"}
        BY <3>4 DEF Spin, Die, End, NoMem
      <4>2. Mask' = Mask
        BY <1>2, <1>3, <3>3, <4>1 DEF Mask
      <4> QED
        BY <1>4, <3>1, <4>1, <4>2
    <3>5. CASE Continue("write_info", [mem EXCEPT !.block = blocks[block]])
      <4>1. pc' = "write_info" /\ mem'.op = "write" /\ mem'.blockMask = mem.blockMask
        BY <1>2, <3>5 DEF Continue, Memory
      <4>2. Mask' = Mask
        BY <1>2, <4>1 DEF Mask
      <4> QED
        BY <1>4, <3>1, <4>1, <4>2
    <3> QED
      BY <3>2, <3>4, <3>5
  <2>3. CASE BlockIndex >= mem.inode.count /\ b = BlocksCount
    <3>1. EndLoop(mem)
      BY <1>6, <2>1, <2>3 DEF WriteTurn
    <3>2. ~FileFull
      BY <2>3 DEF FileFull
    <3> QED
      BY <1>5, <3>1, <3>2
  <2>4. CASE /\ BlockIndex >= mem.inode.count /\ b # BlocksCount
             /\ mem.inode.count = BlocksCountInInode
    <3>1. EndLoop([mem EXCEPT !.blockMask = @ \cup {b}])
      BY <1>6, <2>1, <2>4 DEF WriteTurn
    <3>2. b \in BlockIds /\ b \notin mem.blockMask
      BY <2>4, ReserveType
    <3>3. FileFull /\ ~ParentFull
      BY <1>1, <1>6, <2>4, FullWhere DEF FileFull, WriteTurn
    <3>4. Loses({}, {b}) /\ SpaceInv'
      <4> HIDE DEF b
      <4>1. /\ pc' = "table_reserved" /\ mem'.op = "write"
            /\ mem'.blockMask = mem.blockMask \cup {b}
        BY <1>2, <3>1 DEF EndLoop, Continue, Memory
      <4>2. Mask' = Mask \cup {b} /\ b \notin Mask
        BY <1>2, <3>2, <4>1 DEF Mask
      <4>3. \A i : InodeOf(i)' = InodeOf(i)
        BY <1>1, <1>3, <4>1 DEF InodeOf
      <4>4. \A i \in Linked : BlocksOf(InodeOf(i))' = BlocksOf(InodeOf(i))
        BY <4>3 DEF BlocksOf
      <4>5. Linked' = Linked /\ Owned' = Owned
        BY <4>4, OwnedSame
      <4>6. b \notin Owned
        BY <4>2 DEF TreeInv, DiskInv, OwnedInv, Owns, Owned, BlocksOf
      <4>7. NewInodes = {} /\ NewBlocks = {} /\ NewInodes' = {} /\ NewBlocks' = {}
        BY <1>2, <4>1, NothingNew, NothingNewNext DEF MakeOps
      <4>8. LostInodes' = LostInodes /\ LostBlocks' = LostBlocks \cup {b}
        BY <1>3, <4>2, <4>5, <4>6, <4>7 DEF LostInodes, LostBlocks
      <4> QED
        BY <4>1, <4>8, NoMakerNext DEF Loses, MakeOps
    <3> QED
      BY <3>3, <3>4 DEF Spaced, Accounted
  <2>5. CASE /\ BlockIndex >= mem.inode.count /\ b # BlocksCount
             /\ mem.inode.count # BlocksCountInInode
    <3>1. Continue("grow_info", [mem EXCEPT !.blockMask = @ \cup {b},
                                            !.inode = WithBlock(mem.inode, b),
                                            !.block = NewBlock(b, fdToInode[mem.fd])])
      BY <1>6, <2>1, <2>5 DEF WriteTurn
    <3>2. b \in BlockIds \ mem.blockMask
      BY <2>5, ReserveType
    <3> HIDE DEF b
    <3> QED
      BY <1>1, <2>5, <3>1, <3>2, GrowthSpaced
  <2> QED
    BY <2>1, <2>2, <2>3, <2>4, <2>5
<1>7. CASE WriteEnds
  BY <1>5, <1>7 DEF WriteEnds, FileFull
<1> QED
  BY <1>6, <1>7

\* The grown inode is written: first its count, then its list.
LEMMA GrowSpaced ==
    ASSUME TypeOK, TreeInv, Mounted, KeepsTree, GrowInfo \/ GrowIds
    PROVE  Spaced
<1>1. PICK i, inode : i = mem.inode.id /\ inode = mem.inode
  OBVIOUS
<1>2. /\ pc \in {"grow_info", "grow_ids"} /\ mem' = mem
      /\ pc' = IF pc = "grow_info" THEN "grow_ids" ELSE "write_info"
      /\ inodeMask' = inodeMask /\ blockMask' = blockMask /\ blocks' = blocks
      /\ inodes' = IF pc = "grow_info"
                   THEN [inodes EXCEPT ![i] = [inode EXCEPT !.ids = inodes[i].ids]]
                   ELSE [inodes EXCEPT ![i].ids = inode.ids]
  BY <1>1 DEF GrowInfo, GrowIds, Continue, maskVars
<1>3. /\ mem.op = "write" /\ CopyInv /\ i \in InodeIds /\ inode \in Inodes
  BY <1>1, <1>2, LoopParts DEF LoopSteps, WriteSteps
<1>4. inodes \in [InodeIds -> Inodes]
  BY DEF TypeOK, DiskTypeOK
<1>5. \A x \in InodeIds : x # i => inodes'[x] = inodes[x]
  BY <1>2, <1>4
<1>6. pc = "grow_ids" => inodes'[i].count = inode.count /\ inodes'[i].ids = inode.ids
  <2> SUFFICES ASSUME pc = "grow_ids"
               PROVE  inodes'[i].count = inode.count /\ inodes'[i].ids = inode.ids
    OBVIOUS
  <2>1. inode.count = inodes[i].count
    BY <1>1, <1>3 DEF CopyInv
  <2>2. inodes' = [inodes EXCEPT ![i].ids = inode.ids]
    BY <1>2
  <2> QED
    BY <1>3, <1>4, <2>1, <2>2 DEF Inodes
<1>7. ASSUME NEW x \in Linked
      PROVE  BlocksOf(InodeOf(x))' = BlocksOf(InodeOf(x))
  <2>1. x \in InodeIds
    BY LinkedType
  <2>2. CASE x # i
    <3>1. InodeOf(x) = inodes[x] /\ InodeOf(x)' = inodes[x]
      BY <1>1, <1>2, <1>5, <2>1, <2>2 DEF InodeOf
    <3> QED
      BY <3>1 DEF BlocksOf
  <2>3. CASE x = i
    <3>1. InodeOf(x) = inode /\ InodeOf(x)' = IF pc = "grow_info" THEN inode ELSE inodes'[i]
      BY <1>1, <1>2, <2>3 DEF InodeOf
    <3>2. InodeOf(x)'.count = inode.count /\ InodeOf(x)'.ids = inode.ids
      BY <1>2, <1>6, <3>1
    <3> QED
      BY <3>1, <3>2 DEF BlocksOf
  <2> QED
    BY <2>2, <2>3
<1>8. Linked' = Linked /\ Owned' = Owned
  BY <1>7, OwnedSame
<1>9. Mask' = Mask
  BY <1>2 DEF Mask
<1>10. NewInodes = {} /\ NewBlocks = {} /\ NewInodes' = {} /\ NewBlocks' = {}
  BY <1>2, <1>3, NothingNew, NothingNewNext DEF MakeOps
<1>11. Accounted
  BY <1>2, <1>8, <1>9, <1>10, SameKept, KeptAccounted, FullWhere
<1>12. SpaceInv'
  BY <1>2, <1>3, NoMakerNext DEF MakeOps
<1> QED
  BY <1>11, <1>12 DEF Spaced

\* block_info and the data of the turn: no record is touched.
LEMMA WriteInfoSpaced ==
    ASSUME TypeOK, TreeInv, Mounted, KeepsTree, WriteInfo
    PROVE  Spaced
<1>1. PICK b, block :
          /\ b = mem.block.id /\ block.records = mem.block.records
          /\ blocks' = [blocks EXCEPT ![b] = block]
          /\ IF Mixed(block) THEN Die ELSE Continue("write_data", [mem EXCEPT !.block = block])
  <2> DEFINE block == [mem.block EXCEPT !.size = Offset + Chunk, !.torn = @ \/ mem.block.size = 0]
  <2>1. /\ blocks' = [blocks EXCEPT ![block.id] = block]
        /\ IF Mixed(block) THEN Die ELSE Continue("write_data", [mem EXCEPT !.block = block])
    BY DEF WriteInfo
  <2>2. block.id = mem.block.id /\ block.records = mem.block.records
    BY MemoryParts DEF BlockContents
  <2> QED
    BY <2>1, <2>2
<1>2. /\ pc = "write_info"
      /\ inodeMask' = inodeMask /\ blockMask' = blockMask /\ inodes' = inodes
  BY DEF WriteInfo, maskVars
<1>3. /\ mem.op = "write" /\ Mask = mem.blockMask /\ CopyInv /\ BlockInv /\ GrownInv
      /\ mem \in Memory /\ mem.block \in BlockContents /\ mem.inode.id \in InodeIds
  BY <1>2, LoopParts DEF LoopSteps, WriteSteps
<1>4. /\ mem'.op \in {"write", "none"} /\ pc' \in {"dead", "write_data"}
      /\ Mask' = Mask
  <2>1. CASE Mixed(block)
    <3>1. mem.block.records # <<>>
      BY <1>1, <2>1 DEF Mixed
    <3>2. mem.blockMask = blockMask
      BY <1>2, <1>3, <3>1 DEF GrownInv, WriteSteps
    <3>3. pc' = "dead" /\ mem'.op = "none"
      BY <1>1, <2>1 DEF Die, End, NoMem
    <3> QED
      BY <1>2, <1>3, <3>2, <3>3 DEF Mask
  <2>2. CASE ~Mixed(block)
    <3>1. pc' = "write_data" /\ mem'.op = "write" /\ mem'.blockMask = mem.blockMask
      BY <1>1, <1>3, <2>2 DEF Continue, Memory
    <3> QED
      BY <1>3, <3>1 DEF Mask
  <2> QED
    BY <2>1, <2>2
<1>5. mem.op \notin MakeOps /\ mem'.op \notin MakeOps
  BY <1>3, <1>4 DEF MakeOps
<1>6. NewInodes' = NewInodes /\ NewBlocks' = NewBlocks
  BY <1>5, NothingNew, NothingNewNext
<1>7. Accounted
  BY <1>2, <1>4, <1>6, QuietKept, KeptAccounted, FullWhere
<1>8. SpaceInv'
  BY <1>5, NoMakerNext
<1> QED
  BY <1>7, <1>8 DEF Spaced

LEMMA WriteDataSpaced ==
    ASSUME TypeOK, TreeInv, Mounted, KeepsTree, WriteData
    PROVE  Spaced
<1>1. PICK chunk : chunk = Chunk
  OBVIOUS
<1>2. /\ pc = "write_data"
      /\ inodeMask' = inodeMask /\ blockMask' = blockMask /\ inodes' = inodes
      /\ blocks' = [blocks EXCEPT ![mem.block.id].torn = FALSE]
      /\ Continue("write_loop", [mem EXCEPT !.pos = @ + chunk, !.need = @ - chunk])
  BY <1>1 DEF WriteData, maskVars
<1>3. mem.op = "write" /\ Mask = mem.blockMask /\ mem \in Memory
  BY <1>2, LoopParts DEF LoopSteps, WriteSteps
<1>4. pc' = "write_loop" /\ mem'.op = "write" /\ mem'.blockMask = mem.blockMask
  BY <1>2, <1>3 DEF Continue, Memory
<1>5. Mask' = Mask
  BY <1>3, <1>4 DEF Mask
<1>6. NewInodes' = NewInodes /\ NewBlocks' = NewBlocks
  BY <1>3, <1>4, NothingNew, NothingNewNext DEF MakeOps
<1>7. Accounted
  BY <1>2, <1>4, <1>5, <1>6, QuietKept, KeptAccounted, FullWhere
<1>8. SpaceInv'
  BY <1>4, NoMakerNext DEF MakeOps
<1> QED
  BY <1>7, <1>8 DEF Spaced

----------------------------------------------------------------------------
(* The account is kept.                                                    *)

\* The root directory appears: it is all there is.
LEMMA MountSpaced ==
    ASSUME TypeOK, TreeInv, TreeInv', Next, ~Mounted, Mounted'
    PROVE  /\ LostInodes' = {} /\ LostBlocks' = {} /\ NewInodes = {} /\ NewBlocks = {}
           /\ ~FileFull /\ SpaceInv'
<1>1. WriteInodesMask /\ mem.op = "init"
  <2>1. inodeMask = {}
    BY DEF TreeInv, DiskInv, UnmountedInv
  <2>2. WriteInodesMask
    BY MountWrites
  <2>3. Busy
    BY <2>2 DEF WriteInodesMask, Busy
  <2> QED
    BY <2>2, <2>3 DEF TreeInv, DiskInv, UnmountedInv
<1>2. /\ pc = "inodes_mask" /\ pc' = "blocks_mask" /\ mem' = mem /\ inodeMask' = mem.inodeMask
      /\ inodes' = inodes /\ blocks' = blocks
  BY <1>1 DEF WriteInodesMask, Continue
<1>3. /\ Links = {} /\ mem.inodeMask = {RootInode} /\ mem.blockMask = {RootBlock}
      /\ inodes[RootInode] = NewInode(RootInode, FALSE, RootBlock)
  BY <1>1, <1>2, InitParts DEF ReserveSteps
<1>4. Linked' = {RootInode}
  <2>1. Links' = {}
    BY <1>2, <1>3 DEF Links
  <2> QED
    BY <2>1 DEF Linked
<1>5. BlocksOf(inodes[RootInode]) = {RootBlock}
  <2>1. /\ NewInode(RootInode, FALSE, RootBlock).count = 1
        /\ NewInode(RootInode, FALSE, RootBlock).ids[0] = RootBlock
    <3>1. PICK isFile : isFile = FALSE
      OBVIOUS
    <3>2. NewInode(RootInode, isFile, RootBlock).count = 1 /\ NewInode(RootInode, isFile, RootBlock).ids[0] = RootBlock
      BY NewInodeParts
    <3> QED
      BY <3>1, <3>2
  <2>2. inodes[RootInode].count = 1 /\ inodes[RootInode].ids[0] = RootBlock
    BY <1>3, <2>1
  <2> QED
    BY <2>2 DEF BlocksOf
<1>6. Owned' = {RootBlock}
  <2>1. Owned' = UNION {BlocksOf(inodes[i]) : i \in Linked'}
    BY <1>2 DEF Owned, InodeOf, BlocksOf
  <2> QED
    BY <1>4, <1>5, <2>1
<1>7. Mask' = {RootBlock}
  BY <1>1, <1>2, <1>3 DEF Mask
<1>8. NewInodes' = {} /\ NewBlocks' = {}
  BY <1>1, <1>2, NothingNewNext DEF MakeOps
<1>9. LostInodes' = {} /\ LostBlocks' = {}
  BY <1>2, <1>3, <1>4, <1>6, <1>7, <1>8 DEF LostInodes, LostBlocks
<1>10. NewInodes = {} /\ NewBlocks = {}
  BY <1>1, NothingNew DEF MakeOps
<1>11. SpaceInv'
  BY <1>1, <1>2, NoMakerNext DEF MakeOps
<1> QED
  BY <1>2, <1>9, <1>10, <1>11, FullWhere

\* Every step that finds a root directory and is no interruption.
LEMMA MountedSpaced ==
    ASSUME TypeOK, TreeInv, SpaceInv, Mounted, KeepsTree, Next, ~InitFs, ~LinkName,
           ~Interrupted
    PROVE  Spaced
<1>1. CASE Command \/ Restart
  BY <1>1, PromptSpaced
<1>2. CASE DirUnreadable \/ Walk \/ List \/ Open \/ Create
  BY <1>2, WalkSpaced
<1>3. CASE FormatSuperblock \/ FormatTable
  <2>1. pc \in {"format_superblock", "format_table"}
    BY <1>3 DEF FormatSuperblock, FormatTable
  <2> QED
    BY <2>1, FormatOp, MountedInit DEF TreeInv
<1>4. CASE WriteNewBlock \/ WriteNewInode
  <2>1. pc \in {"new_block", "new_inode"}
    BY <1>4 DEF WriteNewBlock, WriteNewInode
  <2>2. mem.op \in MakeOps
    BY <2>1, MakerOp, MountedInit DEF TreeInv, CreateSteps
  <2> QED
    BY <1>4, <2>2, MakerBlockSpaced, MakerInodeSpaced
<1>5. CASE WriteInodesMask \/ WriteBlocksMask
  <2>1. pc \in {"inodes_mask", "blocks_mask"}
    BY <1>5 DEF WriteInodesMask, WriteBlocksMask
  <2>2. mem.op \in MakeOps \cup {"init", "write"}
    BY <2>1, MakerOp DEF TreeInv, CreateSteps
  <2> QED
    BY <1>5, <2>2, MakerMasksSpaced, MasksSpaced
<1>6. CASE Link \/ LinkInfo \/ LinkInode
  BY <1>6, LinkSpaced, RecordSpaced
<1>7. CASE \/ WriteTableReserved \/ WriteTableInode \/ WriteTablePosition
           \/ ReadTurn \/ ReadEnds
  BY <1>7, TableSpaced
<1>8. CASE WriteTurn \/ WriteEnds \/ GrowInfo \/ GrowIds \/ WriteInfo \/ WriteData
  BY <1>8, WriteLoopSpaced, GrowSpaced, WriteInfoSpaced, WriteDataSpaced
<1> QED
  BY <1>1, <1>2, <1>3, <1>4, <1>5, <1>6, <1>7, <1>8 DEF Next, Step, Interrupted

\* An interruption.
LEMMA InterruptedLoses ==
    ASSUME ~(Interruptions /\ WindowCrashes), TypeOK, TreeInv, Mounted, Interrupted
    PROVE  Loses(NewInodes, NewBlocks) /\ SpaceInv'
<1>1. UNCHANGED diskVars /\ ~Window
  BY DEF Interrupted, Crash, WriteFails, MayInterrupt
<1>2. pc' \in {"idle", "dead"} /\ mem'.op = "none"
  BY DEF Interrupted, Crash, WriteFails, UndefinedBehaviour, Return, Die, End, NoMem
<1>3. /\ KeepsTree /\ inodeMask' = inodeMask /\ blockMask' = blockMask /\ inodes' = inodes
  BY <1>1, SameDiskKeepsTree
<1>4. Loses(NewInodes, NewBlocks)
  BY <1>1, <1>2, <1>3, EndLosesNew
<1> QED
  BY <1>2, <1>4, NoMakerNext DEF MakeOps

\* What SpaceAccounted says of a step.
AccountedStep ==
    Mounted' =>
        /\ LostInodes' = (IF Mounted THEN LostInodes ELSE {})
                            \cup (IF ParentFull \/ Interrupted THEN NewInodes ELSE {})
        /\ LostBlocks' = (IF Mounted THEN LostBlocks ELSE {})
                            \cup (IF ParentFull \/ Interrupted THEN NewBlocks ELSE {})
                            \cup (IF FileFull /\ ~Interrupted
                                  THEN {ReserveBlock(mem.blockMask)} ELSE {})

LEMMA SpaceStep ==
    ASSUME ~(Interruptions /\ WindowCrashes), TypeOK, TreeInv, TreeInv', SpaceInv, Next
    PROVE  AccountedStep /\ SpaceInv'
<1>1. CASE ~Mounted /\ Mounted'
  <2>1. /\ LostInodes' = {} /\ LostBlocks' = {} /\ NewInodes = {} /\ NewBlocks = {}
        /\ ~FileFull /\ SpaceInv'
    BY <1>1, MountSpaced
  <2> QED
    BY <1>1, <2>1 DEF AccountedStep
<1>2. CASE ~Mounted'
  <2>1. mem'.op \notin MakeOps \/ pc' \notin CreateSteps
    BY <1>2 DEF TreeInv, DiskInv, UnmountedInv, Busy, MakeOps, CreateSteps
  <2>2. SpaceInv'
    BY <2>1, NoMakerNext DEF ReserveSteps, CreateSteps
  <2> QED
    BY <1>2, <2>2 DEF AccountedStep
<1>3. CASE Mounted /\ Mounted' /\ Interrupted
  <2>1. Loses(NewInodes, NewBlocks) /\ SpaceInv'
    BY <1>3, InterruptedLoses
  <2> QED
    BY <1>3, <2>1 DEF AccountedStep, Loses
<1>4. CASE Mounted /\ Mounted' /\ ~Interrupted
  <2>1. ~InitFs
    BY <1>4 DEF InitFs, Mounted
  <2>2. KeepsTree \/ LinkName
    BY <1>4, <2>1, MountedStep
  <2>3. Spaced
    BY <1>4, <2>1, <2>2, MountedSpaced, LinkNameSpaced
  <2>4. /\ LostInodes' = LostInodes \cup (IF ParentFull THEN NewInodes ELSE {})
        /\ LostBlocks' = LostBlocks \cup (IF ParentFull THEN NewBlocks ELSE {})
                            \cup (IF FileFull THEN {ReserveBlock(mem.blockMask)} ELSE {})
    BY <2>3 DEF Spaced, Accounted, Loses
  <2>5. AccountedStep
    BY <1>4, <2>4 DEF AccountedStep
  <2> QED
    BY <2>3, <2>5 DEF Spaced
<1> QED
  BY <1>1, <1>2, <1>3, <1>4

LEMMA SpaceKept ==
    ASSUME ~(Interruptions /\ WindowCrashes), TypeOK, TreeInv, TreeInv', SpaceInv, [Next]_vars
    PROVE  SpaceInv'
<1>1. CASE UNCHANGED vars
  BY <1>1 DEF vars, diskVars, maskVars, SpaceInv, ParentInv, FreshInv, MakerAt, Readable, Mixed, DirBlock
<1>2. CASE Next
  BY <1>2, SpaceStep
<1> QED
  BY <1>1, <1>2

(* create_dir and create_file: the directory that was readable when the    *)
(* name was looked up is readable when the record is to be appended, and   *)
(* the inode they take is free until they mark it.                         *)
THEOREM SpaceInvariant == ASSUME ~(Interruptions /\ WindowCrashes) PROVE Spec => []SpaceInv
<1>1. Init => SpaceInv
  BY DEF Init, SpaceInv, ParentInv, FreshInv, MakerAt, ReserveSteps
<1>2. TypeOK /\ TreeInv /\ TreeInv' /\ SpaceInv /\ [Next]_vars => SpaceInv'
  BY SpaceKept
<1>3. Spec => []TreeInv
  BY TreeInvariant
<1> QED
  BY <1>1, <1>2, <1>3, TypeCorrect, PTL DEF Spec

(* reserve_inode, reserve_block, and the commands that call them, however  *)
(* often they run out of space and interrupted anywhere outside the        *)
(* windows: a step loses the node at work when it is interrupted or finds  *)
(* its directory full, one block when it finds its file full, and nothing  *)
(* else; whatever else is reserved, a link leads to it.                    *)
THEOREM SpaceIsAccounted == ASSUME ~(Interruptions /\ WindowCrashes) PROVE Spec => SpaceAccounted
<1>1. TypeOK /\ TreeInv /\ TreeInv' /\ SpaceInv /\ [Next]_vars => [AccountedStep]_vars
  BY SpaceStep
<1>2. Spec => []TreeInv
  BY TreeInvariant
<1>3. Spec => [][AccountedStep]_vars
  BY <1>1, <1>2, SpaceInvariant, TypeCorrect, PTL DEF Spec
<1> QED
  BY <1>3 DEF SpaceAccounted, AccountedStep

=============================================================================
