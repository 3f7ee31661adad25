---------------------------- MODULE ExtFS_proofs ----------------------------
(***************************************************************************)
(* Theorems about ExtFS for every size of the file system, every set of    *)
(* names and every choice of commands and interruptions.                   *)
(***************************************************************************)
EXTENDS ExtFS, TLAPS, WellFoundedInduction

USE MaskSizesAssumption, DescriptorsAssumption, BlocksAssumption, ExtFSAssumption

(***************************************************************************)
(* The scans: each CHOOSE for "the first" has something to choose.         *)
(***************************************************************************)

\* A non-empty set of naturals has a least element.
LEMMA LeastNat ==
    ASSUME NEW S \in SUBSET Nat, S # {}
    PROVE  \E x \in S : \A y \in S : x <= y
<1>1. \E x \in S : \A y \in S : ~(<<y, x>> \in OpToRel(<, Nat))
  BY NatLessThanWellFounded, WFMin, Zenon
<1>2. PICK x \in S : \A y \in S : ~(<<y, x>> \in OpToRel(<, Nat))
  BY <1>1
<1>3. \A y \in S : x <= y
  <2> SUFFICES ASSUME NEW y \in S PROVE x <= y
    OBVIOUS
  <2>1. ~(y < x)
    BY <1>2 DEF OpToRel
  <2> QED
    BY <2>1
<1> QED
  BY <1>3

\* reserve_inode and reserve_block return an id that is free, or the count.
LEMMA FirstFreeIsFree ==
    ASSUME NEW count \in Nat, NEW mask
    PROVE  \/ FirstFree(count, mask) = count
           \/ FirstFree(count, mask) \in (0 .. (count - 1)) \ mask
<1> DEFINE S == (0 .. (count - 1)) \ mask
<1>1. CASE S = {}
  BY <1>1 DEF FirstFree
<1>2. CASE S # {}
  <2>1. S \in SUBSET Nat
    OBVIOUS
  <2>2. PICK x \in S : \A y \in S : x <= y
    BY <1>2, <2>1, LeastNat
  <2>3. FirstFree(count, mask) = CHOOSE id \in S : \A other \in S : id <= other
    BY <1>2 DEF FirstFree
  <2>4. FirstFree(count, mask) \in S
    BY <2>2, <2>3
  <2> QED
    BY <2>4
<1> QED
  BY <1>1, <1>2

\* reserve_descriptor finds the first descriptor that is free, if one is.
LEMMA FreeFdIsFree ==
    ASSUME NEW table \in Tables, ~AllReserved(table)
    PROVE  FreeFd(table) \in Fds /\ ~table.reserved[FreeFd(table)]
<1> DEFINE S == {f \in Fds : ~table.reserved[f]}
<1>1. S \in SUBSET Nat /\ S # {}
  BY DEF AllReserved, Fds
<1>2. PICK f \in S : \A g \in S : f <= g
  BY <1>1, LeastNat
<1>3. \A g \in Fds : g < f => table.reserved[g]
  BY <1>2 DEF Fds
<1> QED
  BY <1>2, <1>3 DEF FreeFd

\* The search for a name returns the inode of one of the block's records.
LEMMA LookupFinds ==
    ASSUME NEW block \in BlockContents, NEW name, HasName(block, name)
    PROVE  \E k \in DOMAIN block.records : /\ block.records[k].name = name
                                           /\ Lookup(block, name) = block.records[k].inode
<1> DEFINE S == {k \in DOMAIN block.records : block.records[k].name = name}
<1>1. DOMAIN block.records \subseteq Nat
  BY DEF BlockContents
<1>2. S \in SUBSET Nat /\ S # {}
  BY <1>1 DEF HasName
<1>3. PICK k \in S : \A j \in S : k <= j
  BY <1>2, LeastNat
<1>4. DOMAIN block.records = 1 .. Len(block.records)
  BY DEF BlockContents
<1>5. \A j \in 1 .. (k - 1) : block.records[j].name # name
  BY <1>3, <1>4
<1> DEFINE First(x) == /\ block.records[x].name = name
                       /\ \A j \in 1 .. (x - 1) : block.records[j].name # name
           first == CHOOSE x \in DOMAIN block.records : First(x)
<1>6. first \in DOMAIN block.records /\ First(first)
  <2>1. k \in DOMAIN block.records /\ First(k)
    BY <1>3, <1>5
  <2> HIDE DEF First
  <2> QED
    BY <2>1
<1> QED
  BY <1>6 DEF Lookup

LEMMA LookupType ==
    ASSUME NEW block \in BlockContents, NEW name, HasName(block, name)
    PROVE  Lookup(block, name) \in InodeIds
<1>1. PICK k \in DOMAIN block.records : Lookup(block, name) = block.records[k].inode
  BY LookupFinds
<1>2. block.records \in Seq(Records)
  BY DEF BlockContents
<1>3. block.records[k] \in Records
  BY <1>2
<1> QED
  BY <1>1, <1>3 DEF Records

(***************************************************************************)
(* Types of what the commands build.                                       *)
(***************************************************************************)

LEMMA SmallIds == 0 \in InodeIds /\ 0 \in BlockIds /\ 0 \in Fds
BY DEF InodeIds, BlockIds, Fds

LEMMA ReserveType ==
    /\ \A mask : ReserveInode(mask) # InodesCount => ReserveInode(mask) \in InodeIds \ mask
    /\ \A mask : ReserveBlock(mask) # BlocksCount => ReserveBlock(mask) \in BlockIds \ mask
<1>1. InodesCount \in Nat /\ BlocksCount \in Nat
  OBVIOUS
<1> QED
  BY <1>1, FirstFreeIsFree DEF ReserveInode, ReserveBlock, InodeIds, BlockIds

LEMMA TableTypes ==
    /\ EmptyTable \in Tables
    /\ \A table \in Tables, inode \in InodeIds :
          ~AllReserved(table) => ReserveDescriptor(table, inode) \in Tables
    /\ \A table \in Tables, f \in Fds : FreeDescriptor(table, f) \in Tables
    /\ \A table \in Tables, f \in Fds, pos \in Nat : SetPosition(table, f, pos) \in Tables
<1>1. EmptyTable \in Tables
  BY SmallIds DEF EmptyTable, Tables
<1>2. ASSUME NEW table \in Tables, NEW inode \in InodeIds, ~AllReserved(table)
      PROVE  ReserveDescriptor(table, inode) \in Tables
  BY <1>2, FreeFdIsFree DEF ReserveDescriptor, Tables
<1>3. ASSUME NEW table \in Tables, NEW f \in Fds
      PROVE  FreeDescriptor(table, f) \in Tables
  BY SmallIds DEF FreeDescriptor, Tables
<1>4. ASSUME NEW table \in Tables, NEW f \in Fds, NEW pos \in Nat
      PROVE  SetPosition(table, f, pos) \in Tables
  BY DEF SetPosition, Tables
<1> QED
  BY <1>1, <1>2, <1>3, <1>4

LEMMA ZeroTypes == ZeroInode \in Inodes /\ ZeroBlock \in BlockContents
BY SmallIds DEF ZeroInode, Inodes, ZeroBlock, BlockContents, Slots

LEMMA InodeTypes ==
    /\ \A i \in InodeIds, isFile \in BOOLEAN, b \in BlockIds : NewInode(i, isFile, b) \in Inodes
    /\ \A inode \in Inodes, b \in BlockIds :
          inode.count # BlocksCountInInode => WithBlock(inode, b) \in Inodes
<1>1. ASSUME NEW i \in InodeIds, NEW isFile \in BOOLEAN, NEW b \in BlockIds
      PROVE  NewInode(i, isFile, b) \in Inodes
  BY SmallIds DEF NewInode, Inodes, Slots
<1>2. ASSUME NEW inode \in Inodes, NEW b \in BlockIds, inode.count # BlocksCountInInode
      PROVE  WithBlock(inode, b) \in Inodes
  <2>1. [inode.ids EXCEPT ![inode.count] = b] \in [Slots -> BlockIds]
    BY DEF Inodes
  <2>2. inode.count + 1 \in 0 .. BlocksCountInInode
    BY <1>2 DEF Inodes
  <2>3. inode \in [id : InodeIds, isFile : BOOLEAN, count : 0 .. BlocksCountInInode,
                   ids : [Slots -> BlockIds]]
    BY DEF Inodes
  <2> DEFINE ids == [inode.ids EXCEPT ![inode.count] = b]
             count == inode.count + 1
  <2>4. WithBlock(inode, b) = [inode EXCEPT !.ids = ids, !.count = count]
    BY <2>3 DEF WithBlock
  <2> HIDE DEF ids, count
  <2>5. [inode EXCEPT !.ids = ids, !.count = count]
            \in [id : InodeIds, isFile : BOOLEAN, count : 0 .. BlocksCountInInode,
                ids : [Slots -> BlockIds]]
    BY <2>1, <2>2, <2>3 DEF ids, count
  <2> QED
    BY <2>4, <2>5 DEF Inodes
<1> QED
  BY <1>1, <1>2

LEMMA BlockTypes ==
    /\ \A b \in BlockIds, i \in InodeIds : NewBlock(b, i) \in BlockContents
    /\ \A b \in BlockIds, i \in InodeIds, p \in InodeIds : DotsBlock(b, i, p) \in BlockContents
    /\ \A block \in BlockContents, record \in Records : WithRecord(block, record) \in BlockContents
<1>1. ASSUME NEW b \in BlockIds, NEW i \in InodeIds
      PROVE  NewBlock(b, i) \in BlockContents
  BY ZeroTypes DEF NewBlock, BlockContents
<1>2. ASSUME NEW b \in BlockIds, NEW i \in InodeIds, NEW p \in InodeIds
      PROVE  DotsBlock(b, i, p) \in BlockContents
  <2>1. [name |-> Dot, inode |-> i] \in Records /\ [name |-> DotDot, inode |-> p] \in Records
    BY DEF Records, AllNames
  <2>2. <<[name |-> Dot, inode |-> i], [name |-> DotDot, inode |-> p]>> \in Seq(Records)
    BY <2>1
  <2> DEFINE dots == <<[name |-> Dot, inode |-> i], [name |-> DotDot, inode |-> p]>>
  <2>3. DotsBlock(b, i, p) = [NewBlock(b, i) EXCEPT !.records = dots]
    BY DEF DotsBlock
  <2>4. NewBlock(b, i) \in BlockContents
    BY <1>1
  <2> HIDE DEF dots
  <2> QED
    BY <2>2, <2>3, <2>4 DEF BlockContents, dots
<1>3. ASSUME NEW block \in BlockContents, NEW record \in Records
      PROVE  WithRecord(block, record) \in BlockContents
  <2>1. Append(block.records, record) \in Seq(Records)
    BY DEF BlockContents
  <2> QED
    BY <2>1 DEF WithRecord, BlockContents
<1> QED
  BY <1>1, <1>2, <1>3

LEMMA NoMemType == NoMem \in Memory
<1>1. <<>> \in Seq(AllNames)
  OBVIOUS
<1> QED
  BY <1>1, SmallIds, TableTypes, ZeroTypes
     DEF NoMem, Memory, AllNames, RootInode

(***************************************************************************)
(* Type correctness.                                                       *)
(***************************************************************************)

LEMMA EndType ==
    ASSUME NEW status \in {"idle", "dead", "stuck"}, End(status)
    PROVE  ProcessTypeOK'
BY NoMemType DEF End, ProcessTypeOK, Pcs, Memory

LEMMA ContinueType ==
    ASSUME NEW step \in Pcs, NEW m \in Memory, Continue(step, m)
    PROVE  ProcessTypeOK'
BY DEF Continue, ProcessTypeOK, Pcs, Memory

\* A step that leaves the image alone keeps its types.
LEMMA SameDisk == DiskTypeOK /\ UNCHANGED diskVars => DiskTypeOK'
BY DEF DiskTypeOK, diskVars, maskVars, tableVars

LEMMA RegisterType ==
    ASSUME NEW m \in Memory, NEW i \in InodeIds, NEW b \in BlockIds, NEW isFile \in BOOLEAN,
           NEW newBlock \in BlockContents, Register(m, i, b, isFile, newBlock)
    PROVE  ProcessTypeOK'
<1> DEFINE inode == NewInode(i, isFile, b)
           n == [m EXCEPT !.inodeMask = @ \cup {i}, !.blockMask = @ \cup {b},
                          !.inode = inode, !.block = newBlock]
<1>1. inode \in Inodes
  BY InodeTypes
<1>2. n \in Memory
  <2> HIDE DEF inode
  <2> QED
    BY <1>1 DEF Memory
<1>3. Continue("new_block", n)
  BY DEF Register
<1>4. "new_block" \in Pcs
  BY DEF Pcs, CreateSteps
<1> HIDE DEF n
<1> QED
  BY <1>2, <1>3, <1>4, ContinueType

LEMMA EndLoopType ==
    ASSUME DiskTypeOK, NEW m \in Memory, EndLoop(m)
    PROVE  ProcessTypeOK'
<1>1. DiskTable \in Tables
  BY DEF DiskTypeOK, DiskTable, Tables
<1>2. m.fd \in Fds /\ m.pos \in Nat
  BY DEF Memory
<1> DEFINE table == SetPosition(DiskTable, m.fd, m.pos)
<1>3. table \in Tables
  BY <1>1, <1>2, TableTypes
<1>4. [m EXCEPT !.table = table] \in Memory
  <2> HIDE DEF table
  <2> QED
    BY <1>3 DEF Memory
<1>5. "table_reserved" \in Pcs
  BY DEF Pcs, TableSteps
<1>6. Continue("table_reserved", [m EXCEPT !.table = table])
  BY DEF EndLoop
<1> HIDE DEF table
<1> QED
  BY <1>4, <1>5, <1>6, ContinueType

\* The numbers of one turn of the loop of write_to_file.
LEMMA ChunkFits ==
    ASSUME mem \in Memory
    PROVE  /\ Offset \in 0 .. (MaxData - 1)
           /\ BlockIndex \in Nat
           /\ Chunk \in Nat
           /\ Chunk <= mem.need
           /\ Offset + Chunk <= MaxData
<1>1. mem.pos \in Nat /\ mem.need \in Nat
  BY DEF Memory
<1>2. MaxData \in Nat \ {0}
  OBVIOUS
<1>3. Offset \in 0 .. (MaxData - 1) /\ BlockIndex \in Nat
  BY <1>1, <1>2 DEF Offset, BlockIndex
<1> QED
  BY <1>1, <1>2, <1>3 DEF Chunk, Smaller

\* What a turn of read_file takes is not more than it was asked for.
LEMMA SmallerType ==
    ASSUME NEW m \in Nat, NEW n \in Int, n > 0
    PROVE  Smaller(m, n) \in Nat /\ Smaller(m, n) <= m
BY DEF Smaller

LEMMA InitType == Init => TypeOK
BY SmallIds, TableTypes, ZeroTypes, NoMemType
   DEF Init, TypeOK, DiskTypeOK, ProcessTypeOK, Pcs, Tables

\* Commands given at the prompt.
LEMMA CommandType == TypeOK /\ Command => TypeOK'
<1> SUFFICES ASSUME TypeOK, Command PROVE TypeOK'
  OBVIOUS
<1> USE DEF TypeOK
<1>0. /\ "walk" \in Pcs /\ "read_loop" \in Pcs /\ "write_loop" \in Pcs
      /\ "format_superblock" \in Pcs /\ "table_reserved" \in Pcs
  BY DEF Pcs, TableSteps
<1>1. DiskTable \in Tables
  BY DEF DiskTypeOK, DiskTable, Tables
<1>2. CASE MountFails
  BY <1>2, EndType, SameDisk DEF MountFails, Spin, Die
<1>3. CASE InitFs
  <2>1. DiskTypeOK'
    BY <1>3, TableTypes, ZeroTypes DEF InitFs, DiskTypeOK, Tables
  <2>2. [NoMem EXCEPT !.op = "init"] \in Memory
    BY NoMemType DEF Memory
  <2> QED
    BY <1>0, <1>3, <2>1, <2>2, ContinueType DEF InitFs
<1>4. ASSUME NEW op \in PathCommands, NEW path \in Paths, NEW name \in AllNames,
             Resolve(op, path, name)
      PROVE  TypeOK'
  <2>1. path \in Seq(AllNames)
    BY DEF ExtFSAssumption
  <2>2. [NoMem EXCEPT !.op = op, !.path = path, !.name = name] \in Memory
    BY <2>1, NoMemType DEF Memory
  <2> QED
    BY <1>0, <1>4, <2>2, ContinueType, SameDisk DEF Resolve
<1>5. ASSUME NEW f \in Fds, Close(f)
      PROVE  TypeOK'
  <2>1. FreeDescriptor(DiskTable, f) \in Tables
    BY <1>1, TableTypes
  <2>2. [NoMem EXCEPT !.op = "close", !.table = FreeDescriptor(DiskTable, f)] \in Memory
    BY <2>1, NoMemType DEF Memory, FdCommands
  <2> QED
    BY <1>0, <1>5, <2>2, ContinueType, SameDisk DEF Close
<1>6. ASSUME NEW f \in Fds, NEW pos \in Positions, Lseek(f, pos)
      PROVE  TypeOK'
  <2>1. SetPosition(DiskTable, f, pos) \in Tables
    BY <1>1, TableTypes DEF ExtFSAssumption
  <2>2. [NoMem EXCEPT !.op = "lseek", !.table = SetPosition(DiskTable, f, pos)] \in Memory
    BY <2>1, NoMemType DEF Memory, FdCommands
  <2> QED
    BY <1>0, <1>6, <2>2, ContinueType, SameDisk DEF Lseek
<1>7. ASSUME NEW op \in {"read", "write"}, NEW step \in {"read_loop", "write_loop"},
             NEW f \in Fds, NEW size \in Sizes, Transfer(op, step, f, size)
      PROVE  TypeOK'
  <2>1. MaxFile \in Nat
    BY DEF MaxFile
  <2>2. Clipped(size) \in Nat
    BY <2>1 DEF Clipped, ExtFSAssumption
  <2>3. /\ fdToPosition[f] \in Nat /\ inodes[fdToInode[f]] \in Inodes
        /\ inodeMask \in SUBSET InodeIds /\ blockMask \in SUBSET BlockIds
    BY DEF DiskTypeOK
  <2> DEFINE m == [NoMem EXCEPT !.op = op, !.fd = f, !.need = Clipped(size),
                                !.pos = fdToPosition[f],
                                !.inodeMask = inodeMask, !.blockMask = blockMask,
                                !.inode = inodes[fdToInode[f]]]
  <2>4. m \in Memory
    BY <2>2, <2>3, NoMemType DEF Memory, FdCommands
  <2>5. Continue(step, m) /\ UNCHANGED diskVars
    BY <1>7 DEF Transfer
  <2> HIDE DEF m
  <2> QED
    BY <1>0, <2>4, <2>5, ContinueType, SameDisk
<1>8. NoName \in AllNames /\ AllNames \ {NoName} \subseteq AllNames /\ "ls" \in PathCommands
  BY DEF AllNames, PathCommands
<1> QED
  BY <1>2, <1>3, <1>4, <1>5, <1>6, <1>7, <1>8 DEF Command, SplitPaths

\* The directory a path command stands in, as its block is read.
LEMMA DirBlockType ==
    ASSUME TypeOK
    PROVE  /\ mem.dir \in InodeIds
           /\ inodes[mem.dir].ids[0] \in BlockIds
           /\ DirBlock(mem.dir) \in BlockContents
<1>1. mem.dir \in InodeIds
  BY DEF TypeOK, ProcessTypeOK, Memory
<1>2. inodes[mem.dir] \in Inodes
  BY <1>1 DEF TypeOK, DiskTypeOK
<1>3. 0 \in Slots
  BY DEF Slots
<1>4. inodes[mem.dir].ids[0] \in BlockIds
  BY <1>2, <1>3 DEF Inodes
<1> QED
  BY <1>1, <1>4 DEF TypeOK, DiskTypeOK, DirBlock

\* init, the walk, and what mkdir and touch do before their first write.
LEMMA PathType ==
    ASSUME TypeOK,
           FormatSuperblock \/ FormatTable \/ DirUnreadable \/ Walk \/ List \/ Create \/ Open
    PROVE  TypeOK'
<1> USE DEF TypeOK
<1>0. mem \in Memory
  BY DEF ProcessTypeOK
<1>1. CASE FormatSuperblock
  <2>1. DiskTypeOK'
    BY <1>1 DEF FormatSuperblock, DiskTypeOK, maskVars, tableVars
  <2>2. "format_table" \in Pcs
    BY DEF Pcs
  <2> QED
    BY <1>0, <1>1, <2>1, <2>2, ContinueType DEF FormatSuperblock
<1>2. CASE FormatTable
  <2> DEFINE i == ReserveInode({})
             b == ReserveBlock({})
  <2>1. i \in InodeIds /\ b \in BlockIds
    <3>1. InodeIds # {} /\ BlockIds # {}
      BY SmallIds
    <3>2. i # InodesCount /\ b # BlocksCount
      <4>1. ASSUME NEW count \in Nat \ {0}
            PROVE  FirstFree(count, {}) # count
        <5> DEFINE S == (0 .. (count - 1)) \ {}
        <5>1. S \in SUBSET Nat /\ 0 \in S
          OBVIOUS
        <5>2. PICK x \in S : \A y \in S : x <= y
          BY <5>1, LeastNat
        <5>3. ~(0 .. (count - 1) \subseteq {})
          BY <5>1
        <5>4. FirstFree(count, {}) = CHOOSE id \in S : \A other \in S : id <= other
          BY <5>3 DEF FirstFree
        <5>5. FirstFree(count, {}) \in S
          BY <5>2, <5>4
        <5> QED
          BY <5>5
      <4> QED
        BY <4>1 DEF ReserveInode, ReserveBlock
    <3> QED
      BY <3>2, ReserveType
  <2>2. DotsBlock(b, i, i) \in BlockContents
    BY <2>1, BlockTypes
  <2>3. Register(mem, i, b, FALSE, DotsBlock(b, i, i))
    BY <1>2 DEF FormatTable
  <2>4. ProcessTypeOK'
    <3> HIDE DEF i, b
    <3> QED
      BY <1>0, <2>1, <2>2, <2>3, RegisterType
  <2>5. DiskTypeOK'
    BY <1>2, TableTypes DEF FormatTable, DiskTypeOK, maskVars, Tables
  <2> QED
    BY <2>4, <2>5
<1>3. CASE DirUnreadable
  BY <1>3, EndType, SameDisk DEF DirUnreadable, Return, Die, Spin
<1>4. CASE Walk
  <2>1. CASE HasName(DirBlock(mem.dir), Head(mem.path))
    <3> DEFINE dir == Lookup(DirBlock(mem.dir), Head(mem.path))
               path == Tail(mem.path)
    <3>1. dir \in InodeIds
      BY <2>1, DirBlockType, LookupType
    <3>2. path \in Seq(AllNames)
      BY <1>0, <1>4 DEF Walk, Memory
    <3>3. "walk" \in Pcs
      BY DEF Pcs
    <3>4. [mem EXCEPT !.path = path, !.dir = dir] \in Memory
      <4> HIDE DEF path, dir
      <4> QED
        BY <1>0, <3>1, <3>2 DEF Memory
    <3>5. Continue("walk", [mem EXCEPT !.path = path, !.dir = dir])
      BY <1>4, <2>1 DEF Walk, Memory
    <3> HIDE DEF path, dir
    <3>6. ProcessTypeOK'
      BY <3>3, <3>4, <3>5, ContinueType
    <3> QED
      BY <1>4, <3>6, SameDisk DEF Walk
  <2>2. CASE ~HasName(DirBlock(mem.dir), Head(mem.path))
    BY <1>4, <2>2, EndType, SameDisk DEF Walk, Return
  <2> QED
    BY <2>1, <2>2
<1>5. CASE List
  BY <1>5, EndType, SameDisk DEF List, Return
<1>6. CASE Create
  <2> DEFINE i == ReserveInode(inodeMask)
             b == ReserveBlock(blockMask)
             isFile == mem.op = "touch"
             newBlock == IF isFile THEN NewBlock(b, i) ELSE DotsBlock(b, i, mem.dir)
             m == [mem EXCEPT !.inodeMask = inodeMask, !.blockMask = blockMask]
  <2>1. CASE Return \/ UndefinedBehaviour
    BY <1>6, <2>1, EndType, SameDisk DEF Create, Return, UndefinedBehaviour, Die
  <2>2. CASE i # InodesCount /\ b # BlocksCount /\ Register(m, i, b, isFile, newBlock)
    <3>1. i \in InodeIds /\ b \in BlockIds
      BY <2>2, ReserveType
    <3>2. newBlock \in BlockContents
      BY <3>1, BlockTypes, DirBlockType
    <3>3. m \in Memory
      BY <1>0 DEF Memory, DiskTypeOK
    <3>4. isFile \in BOOLEAN
      OBVIOUS
    <3>5. ProcessTypeOK'
      <4> HIDE DEF i, b, isFile, newBlock, m
      <4> QED
        BY <2>2, <3>1, <3>2, <3>3, <3>4, RegisterType
    <3> QED
      BY <1>6, <3>5, SameDisk DEF Create
  <2> QED
    BY <1>6, <2>1, <2>2 DEF Create
<1>7. CASE Open
  <2> DEFINE inode == Lookup(DirBlock(mem.dir), mem.name)
             table == ReserveDescriptor(DiskTable, inode)
  <2>1. CASE Return
    BY <1>7, <2>1, EndType, SameDisk DEF Open, Return
  <2>2. CASE /\ HasName(DirBlock(mem.dir), mem.name) /\ ~AllReserved(DiskTable)
             /\ Continue("table_reserved", [mem EXCEPT !.table = table])
    <3>1. inode \in InodeIds
      BY <2>2, DirBlockType, LookupType
    <3>2. DiskTable \in Tables
      BY DEF DiskTypeOK, DiskTable, Tables
    <3>3. table \in Tables
      BY <2>2, <3>1, <3>2, TableTypes
    <3>4. [mem EXCEPT !.table = table] \in Memory
      <4> HIDE DEF table
      <4> QED
        BY <1>0, <3>3 DEF Memory
    <3>5. "table_reserved" \in Pcs
      BY DEF Pcs, TableSteps
    <3>6. ProcessTypeOK'
      <4> HIDE DEF table
      <4> QED
        BY <2>2, <3>4, <3>5, ContinueType
    <3> QED
      BY <1>7, <3>6, SameDisk DEF Open
  <2> QED
    BY <1>7, <2>1, <2>2 DEF Open
<1> QED
  BY <1>1, <1>2, <1>3, <1>4, <1>5, <1>6, <1>7

\* The writes of a new node and of its link.
LEMMA CreateType ==
    ASSUME TypeOK,
           \/ WriteNewBlock \/ WriteNewInode \/ WriteInodesMask \/ WriteBlocksMask
           \/ Link \/ LinkInfo \/ LinkInode \/ LinkName
    PROVE  TypeOK'
<1> USE DEF TypeOK
<1>0. /\ mem \in Memory
      /\ mem.block \in BlockContents /\ mem.block.id \in BlockIds
      /\ mem.inode \in Inodes /\ mem.inode.id \in InodeIds
      /\ mem.name \in AllNames
  BY DEF ProcessTypeOK, Memory, BlockContents, Inodes
<1>1. \A step \in CreateSteps : step \in Pcs
  BY DEF Pcs
<1>2. CASE WriteNewBlock
  <2>1. DiskTypeOK'
    BY <1>0, <1>2 DEF WriteNewBlock, DiskTypeOK, maskVars, tableVars
  <2> QED
    BY <1>0, <1>1, <1>2, <2>1, ContinueType DEF WriteNewBlock, CreateSteps
<1>3. CASE WriteNewInode
  <2>1. DiskTypeOK'
    BY <1>0, <1>3 DEF WriteNewInode, DiskTypeOK, maskVars, tableVars
  <2> QED
    BY <1>0, <1>1, <1>3, <2>1, ContinueType DEF WriteNewInode, CreateSteps
<1>4. CASE WriteInodesMask
  <2>1. DiskTypeOK'
    BY <1>0, <1>4 DEF WriteInodesMask, DiskTypeOK, tableVars, Memory
  <2> QED
    BY <1>0, <1>1, <1>4, <2>1, ContinueType DEF WriteInodesMask, CreateSteps
<1>5. CASE WriteBlocksMask
  <2>1. DiskTypeOK'
    BY <1>0, <1>5 DEF WriteBlocksMask, DiskTypeOK, tableVars, Memory
  <2>2. Return \/ Die \/ Continue("link", mem)
    BY <1>5 DEF WriteBlocksMask
  <2>3. ProcessTypeOK'
    BY <1>0, <1>1, <2>2, ContinueType, EndType DEF CreateSteps, Return, Die
  <2> QED
    BY <2>1, <2>3
<1>6. CASE Link
  <2>1. DirBlock(mem.dir) \in BlockContents
    BY DirBlockType
  <2>2. [mem EXCEPT !.block = DirBlock(mem.dir)] \in Memory
    BY <1>0, <2>1 DEF Memory
  <2>3. CASE Continue("link_info", [mem EXCEPT !.block = DirBlock(mem.dir)])
    BY <1>1, <1>6, <2>2, <2>3, ContinueType, SameDisk DEF Link, CreateSteps
  <2>4. CASE Spin \/ Die \/ Return \/ UndefinedBehaviour
    BY <1>6, <2>4, EndType, SameDisk DEF Link, Spin, Die, Return, UndefinedBehaviour
  <2> QED
    BY <1>6, <2>3, <2>4 DEF Link
<1>7. ASSUME NEW record \in Records, NEW torn \in BOOLEAN
      PROVE  [WithRecord(mem.block, record) EXCEPT !.torn = torn] \in BlockContents
  <2>1. WithRecord(mem.block, record) \in BlockContents
    BY <1>0, BlockTypes
  <2> QED
    BY <2>1 DEF BlockContents
<1>8. /\ BlankRecord \in Records
      /\ [BlankRecord EXCEPT !.inode = mem.inode.id] \in Records
      /\ [name |-> mem.name, inode |-> mem.inode.id] \in Records
  BY <1>0, SmallIds DEF BlankRecord, Records, AllNames
<1>9. CASE LinkInfo
  <2>1. [WithRecord(mem.block, BlankRecord) EXCEPT !.torn = TRUE] \in BlockContents
    BY <1>7, <1>8
  <2>2. DiskTypeOK'
    BY <1>0, <1>9, <2>1 DEF LinkInfo, DiskTypeOK, maskVars, tableVars
  <2> QED
    BY <1>0, <1>1, <1>9, <2>2, ContinueType DEF LinkInfo, CreateSteps
<1>10. CASE LinkInode
  <2>1. [WithRecord(mem.block, [BlankRecord EXCEPT !.inode = mem.inode.id])
            EXCEPT !.torn = TRUE] \in BlockContents
    BY <1>7, <1>8
  <2>2. DiskTypeOK'
    BY <1>0, <1>10, <2>1 DEF LinkInode, DiskTypeOK, maskVars, tableVars
  <2> QED
    BY <1>0, <1>1, <1>10, <2>2, ContinueType DEF LinkInode, CreateSteps
<1>11. CASE LinkName
  <2>1. [WithRecord(mem.block, [name |-> mem.name, inode |-> mem.inode.id])
            EXCEPT !.torn = FALSE] \in BlockContents
    BY <1>7, <1>8
  <2>2. DiskTypeOK'
    BY <1>0, <1>11, <2>1 DEF LinkName, DiskTypeOK, maskVars, tableVars
  <2> QED
    BY <1>11, <2>2, EndType DEF LinkName, Return
<1> QED
  BY <1>2, <1>3, <1>4, <1>5, <1>6, <1>9, <1>10, <1>11

\* The three writes of the descriptor table.
LEMMA TableType ==
    ASSUME TypeOK, WriteTableReserved \/ WriteTableInode \/ WriteTablePosition
    PROVE  TypeOK'
<1> USE DEF TypeOK
<1>1. /\ mem \in Memory
      /\ mem.table.reserved \in [Fds -> BOOLEAN]
      /\ mem.table.inode \in [Fds -> InodeIds]
      /\ mem.table.position \in [Fds -> Nat]
  BY DEF ProcessTypeOK, Memory, Tables
<1>2. DiskTypeOK'
  BY <1>1 DEF DiskTypeOK, maskVars, WriteTableReserved, WriteTableInode, WriteTablePosition
<1>3. "table_inode" \in Pcs /\ "table_position" \in Pcs /\ "inodes_mask" \in Pcs
  BY DEF Pcs, TableSteps, CreateSteps
<1>4. \/ \E step \in Pcs : Continue(step, mem)
      \/ Return
  BY <1>3 DEF WriteTableReserved, WriteTableInode, WriteTablePosition
<1> QED
  BY <1>1, <1>2, <1>4, ContinueType, EndType DEF Return

LEMMA Moved ==
    ASSUME NEW pos \in Nat, NEW need \in Nat, NEW size \in Nat, size <= need
    PROVE  pos + size \in Nat /\ need - size \in Nat
OBVIOUS

\* The loop of read_file: a turn changes the position and what is left to read.
LEMMA ReadType ==
    ASSUME TypeOK, ReadTurn \/ ReadEnds
    PROVE  TypeOK'
<1> USE DEF TypeOK
<1>0. mem \in Memory /\ mem.pos \in Nat /\ mem.need \in Nat /\ "read_loop" \in Pcs
  BY DEF ProcessTypeOK, Memory, Pcs
<1>1. CASE ReadEnds
  BY <1>0, <1>1, EndLoopType, SameDisk DEF ReadEnds
<1>2. CASE ReadTurn
  <2>1. CASE Spin \/ Die
    BY <1>2, <2>1, EndType, SameDisk DEF ReadTurn, Spin, Die
  <2>2. CASE EndLoop(mem)
    BY <1>0, <1>2, <2>2, EndLoopType, SameDisk DEF ReadTurn
  <2>3. ASSUME NEW size \in Nat, size <= mem.need,
               Continue("read_loop", [mem EXCEPT !.pos = @ + size, !.need = @ - size])
        PROVE  ProcessTypeOK'
    <3>1. mem.pos + size \in Nat /\ mem.need - size \in Nat
      <4>1. size <= mem.need
        BY <2>3
      <4> QED
        BY <1>0, <4>1, Moved
    <3>2. [mem EXCEPT !.pos = @ + size, !.need = @ - size] \in Memory
      BY <1>0, <3>1 DEF Memory
    <3> QED
      BY <1>0, <2>3, <3>2, ContinueType
  <2>4. CASE Continue("read_loop", [mem EXCEPT !.pos = @ + mem.need, !.need = 0])
    <3> DEFINE pos == mem.pos + mem.need
    <3>1. [mem EXCEPT !.pos = pos, !.need = 0] \in Memory
      <4>1. pos \in Nat /\ 0 \in Nat
        BY <1>0
      <4> HIDE DEF pos
      <4> QED
        BY <1>0, <4>1 DEF Memory
    <3> QED
      BY <1>0, <1>2, <2>4, <3>1, ContinueType, SameDisk DEF ReadTurn
  <2>5. ASSUME NEW block \in BlockIds, blocks[block].size > Offset,
               Continue("read_loop",
                        [mem EXCEPT !.pos = @ + Smaller(mem.need, blocks[block].size - Offset),
                                    !.need = @ - Smaller(mem.need, blocks[block].size - Offset)])
        PROVE  TypeOK'
    <3>1. blocks[block].size \in Nat
      BY DEF DiskTypeOK, BlockContents
    <3>2. Offset \in Nat
      BY <1>0, ChunkFits
    <3> DEFINE size == Smaller(mem.need, blocks[block].size - Offset)
    <3>3. size \in Nat /\ size <= mem.need
      <4>1. blocks[block].size - Offset \in Int /\ blocks[block].size - Offset > 0
        BY <2>5, <3>1, <3>2
      <4>2. mem.need \in Nat
        BY <1>0
      <4> QED
        BY <4>1, <4>2, SmallerType
    <3> QED
      BY <1>2, <2>3, <2>5, <3>3, SameDisk DEF ReadTurn
  <2>6. mem.pos \in Nat /\ BlockIndex \in Nat
    BY <1>0, ChunkFits
  <2>7. BlockIndex < BlocksCountInInode => mem.inode.ids[BlockIndex] \in BlockIds
    <3>1. BlockIndex < BlocksCountInInode => BlockIndex \in Slots
      BY <2>6 DEF Slots
    <3> QED
      BY <1>0, <3>1 DEF Memory, Inodes
  <2> QED
    BY <1>2, <2>1, <2>2, <2>4, <2>5, <2>7 DEF ReadTurn
<1> QED
  BY <1>1, <1>2

\* The loop of write_to_file.
LEMMA WriteType ==
    ASSUME TypeOK,
           WriteTurn \/ WriteEnds \/ GrowInfo \/ GrowIds \/ WriteInfo \/ WriteData
    PROVE  TypeOK'
<1> USE DEF TypeOK
<1>0. /\ mem \in Memory
      /\ mem.inode \in Inodes /\ mem.inode.id \in InodeIds
      /\ mem.block \in BlockContents /\ mem.block.id \in BlockIds
  BY DEF ProcessTypeOK, Memory, Inodes, BlockContents
<1>1. /\ \A step \in WriteSteps : step \in Pcs
      /\ "write_loop" \in Pcs
  BY DEF Pcs
<1>2. CASE WriteEnds
  BY <1>0, <1>2, EndLoopType, SameDisk DEF WriteEnds
<1>3. CASE WriteTurn
  <2> DEFINE b == ReserveBlock(mem.blockMask)
             grown == WithBlock(mem.inode, b)
             block == mem.inode.ids[BlockIndex]
  <2>1. CASE Spin \/ Die
    BY <1>3, <2>1, EndType, SameDisk DEF WriteTurn, Spin, Die
  <2>2. CASE EndLoop(mem)
    BY <1>0, <1>3, <2>2, EndLoopType, SameDisk DEF WriteTurn
  <2>3. b # BlocksCount => b \in BlockIds
    BY ReserveType
  <2>4. CASE b # BlocksCount /\ EndLoop([mem EXCEPT !.blockMask = @ \cup {b}])
    <3>1. [mem EXCEPT !.blockMask = @ \cup {b}] \in Memory
      BY <1>0, <2>3, <2>4 DEF Memory
    <3> QED
      BY <1>3, <2>4, <3>1, EndLoopType, SameDisk DEF WriteTurn
  <2>5. CASE /\ BlockIndex < mem.inode.count
             /\ Continue("write_info", [mem EXCEPT !.block = blocks[block]])
    <3>1. BlockIndex \in Slots
      BY <1>0, <2>5, ChunkFits DEF Slots, Inodes
    <3>2. blocks[block] \in BlockContents
      BY <1>0, <3>1 DEF Inodes, DiskTypeOK
    <3>3. [mem EXCEPT !.block = blocks[block]] \in Memory
      BY <1>0, <3>2 DEF Memory
    <3> QED
      BY <1>1, <1>3, <2>5, <3>3, ContinueType, SameDisk DEF WriteTurn, WriteSteps
  <2>6. CASE /\ b # BlocksCount /\ mem.inode.count # BlocksCountInInode
             /\ Continue("grow_info", [mem EXCEPT !.blockMask = @ \cup {b},
                                                  !.inode = grown,
                                                  !.block = NewBlock(b, fdToInode[mem.fd])])
    <3>1. grown \in Inodes
      BY <1>0, <2>3, <2>6, InodeTypes
    <3>2. fdToInode[mem.fd] \in InodeIds
      BY <1>0 DEF Memory, DiskTypeOK
    <3>3. NewBlock(b, fdToInode[mem.fd]) \in BlockContents
      BY <2>3, <2>6, <3>2, BlockTypes
    <3> DEFINE m == [mem EXCEPT !.blockMask = @ \cup {b}, !.inode = grown,
                                !.block = NewBlock(b, fdToInode[mem.fd])]
    <3>4. m \in Memory
      <4> HIDE DEF b, grown
      <4> QED
        BY <1>0, <2>3, <2>6, <3>1, <3>3 DEF Memory
    <3>5. Continue("grow_info", m)
      BY <2>6
    <3> HIDE DEF m
    <3> QED
      BY <1>1, <1>3, <3>4, <3>5, ContinueType, SameDisk DEF WriteTurn, WriteSteps
  <2> QED
    BY <1>3, <2>1, <2>2, <2>4, <2>5, <2>6 DEF WriteTurn
<1>4. CASE GrowInfo
  <2>1. [mem.inode EXCEPT !.ids = inodes[mem.inode.id].ids] \in Inodes
    BY <1>0 DEF Inodes, DiskTypeOK
  <2>2. DiskTypeOK'
    BY <1>0, <1>4, <2>1 DEF GrowInfo, DiskTypeOK, maskVars, tableVars
  <2> QED
    BY <1>0, <1>1, <1>4, <2>2, ContinueType DEF GrowInfo, WriteSteps
<1>5. CASE GrowIds
  <2> DEFINE inode == [inodes[mem.inode.id] EXCEPT !.ids = mem.inode.ids]
  <2>1. inode \in Inodes
    BY <1>0 DEF Inodes, DiskTypeOK
  <2>2. inodes' = [inodes EXCEPT ![mem.inode.id] = inode]
    BY <1>5 DEF GrowIds
  <2>3. DiskTypeOK'
    <3> HIDE DEF inode
    <3> QED
      BY <1>0, <1>5, <2>1, <2>2 DEF GrowIds, DiskTypeOK, maskVars, tableVars
  <2> QED
    BY <1>0, <1>1, <1>5, <2>3, ContinueType DEF GrowIds, WriteSteps
<1>6. CASE WriteInfo
  <2> DEFINE block == [mem.block EXCEPT !.size = Offset + Chunk,
                                        !.torn = @ \/ mem.block.size = 0]
  <2>1. Offset + Chunk \in 0 .. MaxData
    BY <1>0, ChunkFits
  <2>2. block \in BlockContents /\ block.id = mem.block.id
    BY <1>0, <2>1 DEF BlockContents
  <2>3. [mem EXCEPT !.block = block] \in Memory
    <3> HIDE DEF block
    <3> QED
      BY <1>0, <2>2 DEF Memory
  <2>4. DiskTypeOK'
    <3>1. blocks' = [blocks EXCEPT ![block.id] = block]
      BY <1>6 DEF WriteInfo
    <3> HIDE DEF block
    <3> QED
      BY <1>0, <1>6, <2>2, <3>1 DEF WriteInfo, DiskTypeOK, maskVars, tableVars
  <2>5. Die \/ Continue("write_data", [mem EXCEPT !.block = block])
    BY <1>6 DEF WriteInfo
  <2> HIDE DEF block
  <2> QED
    BY <1>1, <2>3, <2>4, <2>5, ContinueType, EndType DEF Die, WriteSteps
<1>7. CASE WriteData
  <2> DEFINE block == [blocks[mem.block.id] EXCEPT !.torn = FALSE]
             m == [mem EXCEPT !.pos = @ + Chunk, !.need = @ - Chunk]
  <2>1. block \in BlockContents
    BY <1>0 DEF BlockContents, DiskTypeOK
  <2>2. blocks' = [blocks EXCEPT ![mem.block.id] = block]
    BY <1>7 DEF WriteData
  <2>3. DiskTypeOK'
    <3> HIDE DEF block
    <3> QED
      BY <1>0, <1>7, <2>1, <2>2 DEF WriteData, DiskTypeOK, maskVars, tableVars
  <2>4. mem.pos + Chunk \in Nat /\ mem.need - Chunk \in Nat
    BY <1>0, ChunkFits DEF Memory
  <2>5. m \in Memory
    BY <1>0, <2>4 DEF Memory
  <2>6. Continue("write_loop", m)
    BY <1>7 DEF WriteData
  <2> HIDE DEF m
  <2> QED
    BY <1>1, <2>3, <2>5, <2>6, ContinueType
<1> QED
  BY <1>2, <1>3, <1>4, <1>5, <1>6, <1>7

\* Interruptions and restarts.
LEMMA EndingType ==
    ASSUME TypeOK, Crash \/ WriteFails \/ Restart
    PROVE  TypeOK'
<1>1. UNCHANGED diskVars
  BY DEF Crash, WriteFails, Restart
<1>2. Die \/ Return
  BY DEF Crash, WriteFails, Restart, UndefinedBehaviour
<1> QED
  BY <1>1, <1>2, EndType, SameDisk DEF TypeOK, Die, Return

(* Every array of the image and every local stays within its type: no id   *)
(* past the end of a mask or a table, no data_size past the block, and no  *)
(* turn of read_file or write_to_file takes more than is left to do.       *)
THEOREM TypeCorrect == Spec => []TypeOK
<1>1. Init => TypeOK
  BY InitType
<1>2. TypeOK /\ [Next]_vars => TypeOK'
  <2> SUFFICES ASSUME TypeOK, [Next]_vars PROVE TypeOK'
    OBVIOUS
  <2>1. CASE Command
    BY <2>1, CommandType
  <2>2. CASE Step
    BY <2>2, PathType, CreateType, TableType, ReadType, WriteType DEF Step
  <2>3. CASE Crash \/ WriteFails \/ Restart
    BY <2>3, EndingType
  <2>4. CASE UNCHANGED vars
    BY <2>4, SameDisk DEF vars, TypeOK, ProcessTypeOK
  <2> QED
    BY <2>1, <2>2, <2>3, <2>4 DEF Next
<1> QED
  BY <1>1, <1>2, PTL DEF Spec

(***************************************************************************)
(* The descriptor table.  On the image the table is exclusive because the  *)
(* table that is being written is: the second conjunct is what makes the   *)
(* invariant inductive.                                                    *)
(***************************************************************************)
DescriptorInv ==
    /\ DescriptorExclusive
    /\ pc \in TableSteps => Exclusive(mem.table.inode)

LEMMA ExclusiveTables ==
    /\ Exclusive(EmptyTable.inode)
    /\ \A table \in Tables, inode \in InodeIds :
          Exclusive(table.inode) /\ ~OpenTwice(table, inode) /\ ~AllReserved(table)
          => Exclusive(ReserveDescriptor(table, inode).inode)
    /\ \A table \in Tables, f \in Fds :
          Exclusive(table.inode) => Exclusive(FreeDescriptor(table, f).inode)
    /\ \A table \in Tables, f \in Fds, pos \in Nat :
          Exclusive(table.inode) => Exclusive(SetPosition(table, f, pos).inode)
<1>1. Exclusive(EmptyTable.inode)
  BY DEF Exclusive, EmptyTable, RootInode
<1>2. ASSUME NEW table \in Tables, NEW inode \in InodeIds,
             Exclusive(table.inode), ~OpenTwice(table, inode), ~AllReserved(table)
      PROVE  Exclusive(ReserveDescriptor(table, inode).inode)
  <2>1. FreeFd(table) \in Fds
    BY <1>2, FreeFdIsFree
  <2>2. ReserveDescriptor(table, inode).inode = [table.inode EXCEPT ![FreeFd(table)] = inode]
    BY DEF ReserveDescriptor
  <2>3. \A f \in Fds : table.inode[f] # inode
    BY <1>2 DEF OpenTwice
  <2>4. table.inode \in [Fds -> InodeIds]
    BY DEF Tables
  <2> QED
    BY <1>2, <2>1, <2>2, <2>3, <2>4 DEF Exclusive
<1>3. ASSUME NEW table \in Tables, NEW f \in Fds, Exclusive(table.inode)
      PROVE  Exclusive(FreeDescriptor(table, f).inode)
  <2>1. CASE ~table.reserved[f]
    BY <1>3, <2>1 DEF FreeDescriptor
  <2>2. CASE table.reserved[f]
    <3>1. FreeDescriptor(table, f).inode = [table.inode EXCEPT ![f] = 0]
      BY <2>2 DEF FreeDescriptor
    <3>2. table.inode \in [Fds -> InodeIds]
      BY DEF Tables
    <3> QED
      BY <1>3, <3>1, <3>2 DEF Exclusive, RootInode
  <2> QED
    BY <2>1, <2>2
<1>4. ASSUME NEW table \in Tables, NEW f \in Fds, NEW pos \in Nat, Exclusive(table.inode)
      PROVE  Exclusive(SetPosition(table, f, pos).inode)
  <2>1. SetPosition(table, f, pos).inode = table.inode
    BY DEF SetPosition, Tables
  <2> QED
    BY <1>4, <2>1
<1> QED
  BY <1>1, <1>2, <1>3, <1>4

\* A command that leaves the table alone and is not about to write it.
LEMMA TableUntouched ==
    ASSUME DescriptorExclusive, fdToInode' = fdToInode, pc' \notin TableSteps
    PROVE  DescriptorInv'
BY DEF DescriptorInv, DescriptorExclusive, Exclusive

\* A command that has built a table and is about to write it.
LEMMA TableBuilt ==
    ASSUME TypeOK, DescriptorExclusive, fdToInode' = fdToInode,
           NEW m \in Memory, NEW table \in Tables, Exclusive(table.inode),
           Continue("table_reserved", [m EXCEPT !.table = table])
    PROVE  DescriptorInv'
<1>1. mem'.table = table
  BY DEF Continue, Memory
<1> QED
  BY <1>1 DEF DescriptorInv, DescriptorExclusive, Exclusive

LEMMA LoopEnded ==
    ASSUME TypeOK, DescriptorExclusive, fdToInode' = fdToInode, NEW m \in Memory, EndLoop(m)
    PROVE  DescriptorInv'
<1>1. DiskTable \in Tables /\ DiskTable.inode = fdToInode
  BY DEF TypeOK, DiskTypeOK, DiskTable, Tables
<1>2. m.fd \in Fds /\ m.pos \in Nat
  BY DEF Memory
<1>3. Exclusive(SetPosition(DiskTable, m.fd, m.pos).inode)
  BY <1>1, <1>2, ExclusiveTables DEF DescriptorExclusive
<1>4. SetPosition(DiskTable, m.fd, m.pos) \in Tables
  BY <1>1, <1>2, TableTypes
<1> QED
  BY <1>3, <1>4, TableBuilt DEF EndLoop
LEMMA DescriptorCommand ==
    ASSUME TypeOK, DescriptorInv, Command
    PROVE  DescriptorInv'
<1>0. DescriptorExclusive /\ DiskTable \in Tables /\ DiskTable.inode = fdToInode
  BY DEF DescriptorInv, TypeOK, DiskTypeOK, DiskTable, Tables
<1>1. CASE MountFails
  BY <1>0, <1>1, TableUntouched
     DEF MountFails, Spin, Die, End, TableSteps, diskVars, tableVars
<1>2. CASE InitFs
  BY <1>2, ExclusiveTables
     DEF InitFs, Continue, DescriptorInv, DescriptorExclusive, Exclusive, TableSteps
<1>3. ASSUME NEW op, NEW path, NEW name, Resolve(op, path, name)
      PROVE  DescriptorInv'
  BY <1>0, <1>3, TableUntouched DEF Resolve, Continue, TableSteps, diskVars, tableVars
<1>4. ASSUME NEW f \in Fds, Close(f)
      PROVE  DescriptorInv'
  <2> DEFINE table == FreeDescriptor(DiskTable, f)
             m == [NoMem EXCEPT !.op = "close"]
  <2>1. table \in Tables /\ Exclusive(table.inode)
    BY <1>0, TableTypes, ExclusiveTables DEF DescriptorExclusive
  <2>2. m \in Memory
    BY NoMemType DEF Memory, FdCommands
  <2>3. Continue("table_reserved", [m EXCEPT !.table = table]) /\ fdToInode' = fdToInode
    BY <1>4 DEF Close, diskVars, tableVars
  <2> HIDE DEF table, m
  <2> QED
    BY <1>0, <2>1, <2>2, <2>3, TableBuilt
<1>5. ASSUME NEW f \in Fds, NEW pos \in Positions, Lseek(f, pos)
      PROVE  DescriptorInv'
  <2> DEFINE table == SetPosition(DiskTable, f, pos)
             m == [NoMem EXCEPT !.op = "lseek"]
  <2>0. pos \in Nat
    OBVIOUS
  <2>1. table \in Tables /\ Exclusive(table.inode)
    BY <1>0, <2>0, TableTypes, ExclusiveTables DEF DescriptorExclusive
  <2>2. m \in Memory
    BY NoMemType DEF Memory, FdCommands
  <2>3. Continue("table_reserved", [m EXCEPT !.table = table]) /\ fdToInode' = fdToInode
    BY <1>5 DEF Lseek, diskVars, tableVars
  <2> HIDE DEF table, m
  <2> QED
    BY <1>0, <2>1, <2>2, <2>3, TableBuilt
<1>6. ASSUME NEW op, NEW f, NEW size, NEW step \in {"read_loop", "write_loop"},
             Transfer(op, step, f, size)
      PROVE  DescriptorInv'
  BY <1>0, <1>6, TableUntouched DEF Transfer, Continue, TableSteps, diskVars, tableVars
<1> QED
  BY <1>1, <1>2, <1>3, <1>4, <1>5, <1>6 DEF Command

LEMMA DescriptorStep ==
    ASSUME TypeOK, DescriptorInv, Step
    PROVE  DescriptorInv'
<1>0. DescriptorExclusive /\ DiskTable \in Tables /\ DiskTable.inode = fdToInode /\ mem \in Memory
  BY DEF DescriptorInv, TypeOK, ProcessTypeOK, DiskTypeOK, DiskTable, Tables
<1>1. CASE FormatTable
  BY <1>1, ExclusiveTables
     DEF FormatTable, Register, Continue, DescriptorInv, DescriptorExclusive, Exclusive, TableSteps
<1>2. CASE DirUnreadable \/ Walk \/ List \/ Create
  BY <1>0, <1>2, TableUntouched
     DEF DirUnreadable, Walk, List, Create, UndefinedBehaviour, Register,
         Return, Die, Spin, End, Continue, TableSteps, diskVars, tableVars
<1>3. CASE Open
  <2> DEFINE inode == Lookup(DirBlock(mem.dir), mem.name)
             table == ReserveDescriptor(DiskTable, inode)
  <2>0. fdToInode' = fdToInode /\ DirReadable
    BY <1>3 DEF Open, diskVars, tableVars
  <2>1. CASE Return
    BY <1>0, <2>0, <2>1, TableUntouched DEF Return, End, TableSteps
  <2>2. CASE ~Return
    <3>1. /\ HasName(DirBlock(mem.dir), mem.name)
          /\ ~OpenTwice(DiskTable, inode) /\ ~AllReserved(DiskTable)
          /\ Continue("table_reserved", [mem EXCEPT !.table = table])
      BY <1>3, <2>2 DEF Open
    <3>2. inode \in InodeIds
      BY <1>0, <2>0, <3>1, DirBlockType, LookupType DEF DirReadable
    <3>3. table \in Tables
      BY <1>0, <3>1, <3>2, TableTypes
    <3>4. Exclusive(table.inode)
      BY <1>0, <3>1, <3>2, ExclusiveTables DEF DescriptorExclusive
    <3> HIDE DEF table, inode
    <3> QED
      BY <1>0, <2>0, <3>1, <3>3, <3>4, TableBuilt
  <2> QED
    BY <2>1, <2>2
<1>4. CASE \/ FormatSuperblock \/ WriteNewBlock \/ WriteNewInode
           \/ WriteInodesMask \/ WriteBlocksMask
  BY <1>0, <1>4, TableUntouched
     DEF FormatSuperblock, WriteNewBlock, WriteNewInode, WriteInodesMask, WriteBlocksMask,
         Return, Die, End, Continue, TableSteps, tableVars
<1>5. CASE Link \/ LinkInfo \/ LinkInode \/ LinkName
  BY <1>0, <1>5, TableUntouched
     DEF Link, LinkInfo, LinkInode, LinkName, UndefinedBehaviour,
         Return, Die, Spin, End, Continue, TableSteps, diskVars, tableVars
<1>6. CASE WriteTableReserved
  BY <1>6 DEF WriteTableReserved, Continue, DescriptorInv, DescriptorExclusive, Exclusive, TableSteps
<1>7. CASE WriteTableInode
  BY <1>7 DEF WriteTableInode, Continue, DescriptorInv, DescriptorExclusive, Exclusive, TableSteps
<1>8. CASE WriteTablePosition
  BY <1>0, <1>8, TableUntouched DEF WriteTablePosition, Return, End, Continue, TableSteps
<1>9. CASE ReadTurn
  BY <1>0, <1>9, LoopEnded, TableUntouched
     DEF ReadTurn, Die, Spin, End, Continue, TableSteps, diskVars, tableVars
<1>10. CASE ReadEnds \/ WriteEnds
  BY <1>0, <1>10, LoopEnded DEF ReadEnds, WriteEnds, diskVars, tableVars
<1>11. CASE WriteTurn
  <2> DEFINE b == ReserveBlock(mem.blockMask)
             m == [mem EXCEPT !.blockMask = @ \cup {b}]
  <2>0. fdToInode' = fdToInode
    BY <1>11 DEF WriteTurn, diskVars, tableVars
  <2>1. CASE EndLoop(mem)
    BY <1>0, <2>0, <2>1, LoopEnded
  <2>2. CASE b # BlocksCount /\ EndLoop(m)
    <3>1. b \in BlockIds
      BY <1>0, <2>2, ReserveType DEF Memory
    <3>2. m \in Memory
      BY <1>0, <3>1 DEF Memory
    <3> HIDE DEF m
    <3> QED
      BY <1>0, <2>0, <2>2, <3>2, LoopEnded
  <2>3. CASE pc' \notin TableSteps
    BY <1>0, <2>0, <2>3, TableUntouched
  <2> QED
    BY <1>11, <2>1, <2>2, <2>3 DEF WriteTurn, Spin, Die, End, Continue, TableSteps
<1>12. CASE GrowInfo \/ GrowIds \/ WriteInfo \/ WriteData
  BY <1>0, <1>12, TableUntouched
     DEF GrowInfo, GrowIds, WriteInfo, WriteData, Die, End, Continue, TableSteps, tableVars
<1> QED
  BY <1>1, <1>2, <1>3, <1>4, <1>5, <1>6, <1>7, <1>8, <1>9, <1>10, <1>11, <1>12 DEF Step

(* However open, close, lseek, read and write are interrupted, also inside *)
(* the two windows: no file stands in two entries of fd_to_inode, so that  *)
(* no file is ever open under two descriptors.                             *)
THEOREM DescriptorsExclusive == Spec => []DescriptorExclusive
<1>1. Init => DescriptorInv
  BY ExclusiveTables DEF Init, DescriptorInv, DescriptorExclusive, TableSteps
<1>2. TypeOK /\ DescriptorInv /\ [Next]_vars => DescriptorInv'
  <2> SUFFICES ASSUME TypeOK, DescriptorInv, [Next]_vars PROVE DescriptorInv'
    OBVIOUS
  <2>1. CASE Command
    BY <2>1, DescriptorCommand
  <2>2. CASE Step
    BY <2>2, DescriptorStep
  <2>3. CASE Crash \/ WriteFails \/ Restart
    <3>1. fdToInode' = fdToInode /\ (Die \/ Return)
      BY <2>3 DEF Crash, WriteFails, Restart, UndefinedBehaviour, diskVars, tableVars
    <3> QED
      BY <3>1, TableUntouched DEF DescriptorInv, Die, Return, End, TableSteps
  <2>4. CASE UNCHANGED vars
    BY <2>4 DEF vars, diskVars, tableVars, DescriptorInv, DescriptorExclusive, Exclusive
  <2> QED
    BY <2>1, <2>2, <2>3, <2>4 DEF Next
<1>3. DescriptorInv => DescriptorExclusive
  BY DEF DescriptorInv
<1> QED
  BY <1>1, <1>2, <1>3, TypeCorrect, PTL DEF Spec

(***************************************************************************)
(* The table in memory and the one on the image differ in one entry.       *)
(***************************************************************************)
Differs(table, f) ==
    \E g \in Fds \ {f} : \/ table.reserved[g] # reservedFd[g]
                         \/ table.inode[g] # fdToInode[g]
                         \/ table.position[g] # fdToPosition[g]

\* The three operators of the table touch the entry they are asked for.
LEMMA OneEntryChanges ==
    ASSUME DiskTable \in Tables
    PROVE  /\ \A inode \in InodeIds :
                ~AllReserved(DiskTable) =>
                    ~Differs(ReserveDescriptor(DiskTable, inode), FreeFd(DiskTable))
           /\ \A f \in Fds : ~Differs(FreeDescriptor(DiskTable, f), f)
           /\ \A f \in Fds, pos \in Nat : ~Differs(SetPosition(DiskTable, f, pos), f)
<1>1. /\ reservedFd \in [Fds -> BOOLEAN] /\ fdToInode \in [Fds -> InodeIds]
      /\ fdToPosition \in [Fds -> Nat]
  BY DEF DiskTable, Tables
<1>2. \A inode \in InodeIds :
          ~AllReserved(DiskTable) =>
              ~Differs(ReserveDescriptor(DiskTable, inode), FreeFd(DiskTable))
  BY <1>1 DEF Differs, ReserveDescriptor, DiskTable
<1>3. \A f \in Fds : ~Differs(FreeDescriptor(DiskTable, f), f)
  BY <1>1 DEF Differs, FreeDescriptor, DiskTable
<1>4. \A f \in Fds, pos \in Nat : ~Differs(SetPosition(DiskTable, f, pos), f)
  BY <1>1 DEF Differs, SetPosition, DiskTable
<1> QED
  BY <1>2, <1>3, <1>4

LEMMA DescriptorAtWork ==
    ASSUME NEW f \in Fds, NEW table \in Tables, NEW m \in Memory, ~Differs(table, f),
           Continue("table_reserved", [m EXCEPT !.table = table]), UNCHANGED diskVars
    PROVE  OneDescriptorAtWork'
<1>1. mem'.table = table
  BY DEF Continue, Memory
<1>2. UNCHANGED <<reservedFd, fdToInode, fdToPosition>>
  BY DEF diskVars, tableVars
<1> QED
  BY <1>1, <1>2 DEF OneDescriptorAtWork, Differs

LEMMA LoopAtWork ==
    ASSUME NEW m \in Memory, DiskTable \in Tables, EndLoop(m), UNCHANGED diskVars
    PROVE  OneDescriptorAtWork'
<1> DEFINE table == SetPosition(DiskTable, m.fd, m.pos)
<1>1. m.fd \in Fds /\ m.pos \in Nat
  BY DEF Memory
<1>2. table \in Tables /\ ~Differs(table, m.fd)
  BY <1>1, TableTypes, OneEntryChanges
<1>3. Continue("table_reserved", [m EXCEPT !.table = table])
  BY DEF EndLoop
<1> HIDE DEF table
<1> QED
  BY <1>1, <1>2, <1>3, DescriptorAtWork

LEMMA CommandAtWork ==
    ASSUME TypeOK, Command
    PROVE  OneDescriptorAtWork'
<1>0. DiskTable \in Tables
  BY DEF TypeOK, DiskTypeOK, DiskTable, Tables
<1>1. CASE pc' \notin TableSteps
  BY <1>1 DEF OneDescriptorAtWork
<1>2. ASSUME NEW f \in Fds, Close(f)
      PROVE  OneDescriptorAtWork'
  <2> DEFINE table == FreeDescriptor(DiskTable, f)
             m == [NoMem EXCEPT !.op = "close"]
  <2>1. table \in Tables /\ ~Differs(table, f)
    BY <1>0, TableTypes, OneEntryChanges
  <2>2. m \in Memory
    BY NoMemType DEF Memory, FdCommands
  <2>3. Continue("table_reserved", [m EXCEPT !.table = table]) /\ UNCHANGED diskVars
    BY <1>2 DEF Close
  <2> HIDE DEF table, m
  <2> QED
    BY <2>1, <2>2, <2>3, DescriptorAtWork
<1>3. ASSUME NEW f \in Fds, NEW pos \in Positions, Lseek(f, pos)
      PROVE  OneDescriptorAtWork'
  <2> DEFINE table == SetPosition(DiskTable, f, pos)
             m == [NoMem EXCEPT !.op = "lseek"]
  <2>1. table \in Tables /\ ~Differs(table, f)
    BY <1>0, TableTypes, OneEntryChanges
  <2>2. m \in Memory
    BY NoMemType DEF Memory, FdCommands
  <2>3. Continue("table_reserved", [m EXCEPT !.table = table]) /\ UNCHANGED diskVars
    BY <1>3 DEF Lseek
  <2> HIDE DEF table, m
  <2> QED
    BY <2>1, <2>2, <2>3, DescriptorAtWork
<1>4. CASE MountFails \/ InitFs
  BY <1>1, <1>4 DEF MountFails, InitFs, Spin, Die, End, Continue, TableSteps
<1>5. ASSUME NEW op, NEW path, NEW name, Resolve(op, path, name)
      PROVE  OneDescriptorAtWork'
  BY <1>1, <1>5 DEF Resolve, Continue, TableSteps
<1>6. ASSUME NEW op, NEW f, NEW size, NEW step \in {"read_loop", "write_loop"},
             Transfer(op, step, f, size)
      PROVE  OneDescriptorAtWork'
  BY <1>1, <1>6 DEF Transfer, Continue, TableSteps
<1> QED
  BY <1>2, <1>3, <1>4, <1>5, <1>6 DEF Command

LEMMA StepAtWork ==
    ASSUME TypeOK, OneDescriptorAtWork, Step
    PROVE  OneDescriptorAtWork'
<1>0. DiskTable \in Tables /\ mem \in Memory
  BY DEF TypeOK, ProcessTypeOK, DiskTypeOK, DiskTable, Tables
<1>1. CASE pc' \notin TableSteps
  BY <1>1 DEF OneDescriptorAtWork
<1>2. CASE WriteTableReserved \/ WriteTableInode
  <2>1. PICK f \in Fds : ~Differs(mem.table, f)
    BY <1>2 DEF OneDescriptorAtWork, Differs, WriteTableReserved, WriteTableInode, TableSteps
  <2>2. ~Differs(mem.table, f)' /\ mem' = mem
    BY <1>2, <2>1 DEF WriteTableReserved, WriteTableInode, Continue, Differs
  <2> QED
    BY <2>2 DEF OneDescriptorAtWork, Differs
<1>3. CASE Open /\ ~Return
  <2> DEFINE inode == Lookup(DirBlock(mem.dir), mem.name)
             table == ReserveDescriptor(DiskTable, inode)
  <2>1. /\ HasName(DirBlock(mem.dir), mem.name)
        /\ ~AllReserved(DiskTable) /\ DirReadable
        /\ Continue("table_reserved", [mem EXCEPT !.table = table]) /\ UNCHANGED diskVars
    BY <1>3 DEF Open
  <2>2. inode \in InodeIds
    BY <1>0, <2>1, DirBlockType, LookupType DEF DirReadable
  <2>3. table \in Tables /\ ~Differs(table, FreeFd(DiskTable)) /\ FreeFd(DiskTable) \in Fds
    BY <1>0, <2>1, <2>2, TableTypes, OneEntryChanges, FreeFdIsFree
  <2> HIDE DEF table, inode
  <2> QED
    BY <1>0, <2>1, <2>3, DescriptorAtWork
<1>4. CASE (\E m \in Memory : EndLoop(m)) /\ UNCHANGED diskVars
  BY <1>0, <1>4, LoopAtWork
<1>5. CASE ReadTurn \/ ReadEnds \/ WriteEnds
  BY <1>0, <1>1, <1>4, <1>5 DEF ReadTurn, ReadEnds, WriteEnds, Die, Spin, End, Continue, TableSteps
<1>6. CASE WriteTurn
  <2> DEFINE b == ReserveBlock(mem.blockMask)
             m == [mem EXCEPT !.blockMask = @ \cup {b}]
  <2>0. UNCHANGED diskVars
    BY <1>6 DEF WriteTurn
  <2>1. CASE EndLoop(mem)
    BY <1>0, <1>4, <2>0, <2>1
  <2>2. CASE b # BlocksCount /\ EndLoop(m)
    <3>1. b \in BlockIds
      BY <1>0, <2>2, ReserveType DEF Memory
    <3>2. m \in Memory
      BY <1>0, <3>1 DEF Memory
    <3> HIDE DEF m
    <3> QED
      BY <1>4, <2>0, <2>2, <3>2
  <2>3. CASE pc' \notin TableSteps
    BY <1>1, <2>3
  <2> QED
    BY <1>6, <2>1, <2>2, <2>3 DEF WriteTurn, Spin, Die, End, Continue, TableSteps
<1>7. CASE \/ FormatSuperblock \/ FormatTable \/ DirUnreadable \/ Walk \/ List \/ Create
           \/ Open /\ Return
           \/ WriteNewBlock \/ WriteNewInode \/ WriteInodesMask \/ WriteBlocksMask
           \/ Link \/ LinkInfo \/ LinkInode \/ LinkName \/ WriteTablePosition
           \/ GrowInfo \/ GrowIds \/ WriteInfo \/ WriteData
  <2>1. pc' \notin TableSteps
    BY <1>7
       DEF FormatSuperblock, FormatTable, DirUnreadable, Walk, List, Create, Register,
           WriteNewBlock, WriteNewInode, WriteInodesMask, WriteBlocksMask,
           Link, LinkInfo, LinkInode, LinkName, WriteTablePosition,
           GrowInfo, GrowIds, WriteInfo, WriteData,
           UndefinedBehaviour, Return, Die, Spin, End, Continue, TableSteps
  <2> QED
    BY <1>1, <2>1
<1> QED
  BY <1>2, <1>3, <1>5, <1>6, <1>7 DEF Step

(* open, close, lseek, read and write, however they are interrupted, also  *)
(* inside the two windows: what a command leaves unwritten of the table    *)
(* concerns one descriptor, and the entries of all others are what they    *)
(* were.                                                                   *)
THEOREM OneDescriptorChanges == Spec => []OneDescriptorAtWork
<1>1. Init => OneDescriptorAtWork
  BY DEF Init, OneDescriptorAtWork, TableSteps
<1>2. TypeOK /\ OneDescriptorAtWork /\ [Next]_vars => OneDescriptorAtWork'
  <2> SUFFICES ASSUME TypeOK, OneDescriptorAtWork, [Next]_vars PROVE OneDescriptorAtWork'
    OBVIOUS
  <2>1. CASE Command
    BY <2>1, CommandAtWork
  <2>2. CASE Step
    BY <2>2, StepAtWork
  <2>3. CASE Crash \/ WriteFails \/ Restart
    BY <2>3 DEF Crash, WriteFails, Restart, UndefinedBehaviour, Die, Return, End,
                OneDescriptorAtWork, TableSteps
  <2>4. CASE UNCHANGED vars
    BY <2>4 DEF vars, diskVars, tableVars, OneDescriptorAtWork
  <2> QED
    BY <2>1, <2>2, <2>3, <2>4 DEF Next
<1> QED
  BY <1>1, <1>2, TypeCorrect, PTL DEF Spec

(***************************************************************************)
(* Every step of a command brings it nearer to its end.                    *)
(***************************************************************************)
Advances == 0 <= StepsLeft' /\ StepsLeft' < StepsLeft

\* A turn of the loop of write_to_file has something to write.
NeedInv == pc \in WriteSteps => mem.need # 0

LEMMA StepsCounted == ASSUME mem \in Memory PROVE StepsLeft \in Nat /\ (Busy /\ pc \in Pcs => StepsLeft # 0)
<1>1. mem.need \in Nat /\ mem.path \in Seq(AllNames)
  BY DEF Memory
<1>2. Len(mem.path) \in Nat
  BY <1>1
<1>3. CASE pc = "walk"
  <2>1. StepsLeft = 10 + Len(mem.path)
    BY <1>3 DEF StepsLeft
  <2> QED
    BY <1>2, <2>1
<1>4. CASE pc \in {"read_loop", "write_loop"} \cup WriteSteps
  <2>1. CASE pc = "read_loop"
    <3>1. StepsLeft = 10 + mem.need
      BY <2>1 DEF StepsLeft
    <3> QED
      BY <1>1, <3>1
  <2>2. CASE pc \in {"write_loop"} \cup WriteSteps
    <3>1. PICK k \in 6 .. 10 : StepsLeft = k + 5 * mem.need
      BY <2>2 DEF StepsLeft, WriteSteps
    <3> QED
      BY <1>1, <3>1
  <2> QED
    BY <1>4, <2>1, <2>2
<1>5. CASE pc \in {"format_superblock", "format_table"} \cup CreateSteps \cup TableSteps
  <2>1. StepsLeft \in 1 .. 10
    BY <1>5 DEF StepsLeft, CreateSteps, TableSteps
  <2> QED
    BY <2>1
<1>6. CASE pc \notin Pcs \/ ~Busy
  <2>1. StepsLeft = 0
    BY <1>6 DEF StepsLeft, Busy, Pcs, CreateSteps, WriteSteps, TableSteps
  <2> QED
    BY <1>6, <2>1
<1> QED
  BY <1>3, <1>4, <1>5, <1>6 DEF Busy, Pcs

\* A command that ends, ends.
LEMMA EndingAdvances ==
    ASSUME mem \in Memory, Busy, pc \in Pcs, Return \/ Die \/ Spin
    PROVE  Advances
<1>1. StepsLeft \in Nat /\ StepsLeft # 0
  BY StepsCounted
<1>2. StepsLeft' = 0
  BY DEF Return, Die, Spin, End, StepsLeft
<1> QED
  BY <1>1, <1>2 DEF Advances

\* The writes that have a place in an order of their own.
LEMMA WritesAdvance ==
    ASSUME mem \in Memory, pc \in Pcs,
           \/ FormatSuperblock \/ FormatTable \/ WriteNewBlock \/ WriteNewInode
           \/ WriteInodesMask \/ WriteBlocksMask \/ Link \/ LinkInfo \/ LinkInode \/ LinkName
           \/ WriteTableReserved \/ WriteTableInode \/ WriteTablePosition
    PROVE  Advances
<1>1. CASE Return \/ Die \/ Spin
  <2>1. Busy
    BY DEF FormatSuperblock, FormatTable, WriteNewBlock, WriteNewInode, WriteInodesMask,
           WriteBlocksMask, Link, LinkInfo, LinkInode, LinkName, WriteTableReserved,
           WriteTableInode, WriteTablePosition, Busy
  <2> QED
    BY <1>1, <2>1, EndingAdvances
<1>2. CASE FormatSuperblock \/ FormatTable
  BY <1>2 DEF FormatSuperblock, FormatTable, Register, Continue, StepsLeft, Advances
<1>3. CASE WriteNewBlock \/ WriteNewInode \/ WriteInodesMask
  BY <1>3 DEF WriteNewBlock, WriteNewInode, WriteInodesMask, Continue, StepsLeft, Advances
<1>4. CASE WriteBlocksMask
  BY <1>1, <1>4 DEF WriteBlocksMask, Continue, StepsLeft, Advances
<1>5. CASE Link
  BY <1>1, <1>5 DEF Link, UndefinedBehaviour, Continue, StepsLeft, Advances
<1>6. CASE LinkInfo \/ LinkInode \/ LinkName
  BY <1>1, <1>6 DEF LinkInfo, LinkInode, LinkName, Continue, StepsLeft, Advances
<1>7. CASE WriteTableReserved \/ WriteTableInode
  BY <1>7 DEF WriteTableReserved, WriteTableInode, Continue, StepsLeft, Advances
<1>8. CASE WriteTablePosition
  BY <1>1, <1>8 DEF WriteTablePosition, Continue, StepsLeft, Advances
<1> QED
  BY <1>2, <1>3, <1>4, <1>5, <1>6, <1>7, <1>8

\* A level of the walk uses up a name; what follows it is shorter than the walk.
LEMMA WalkAdvances ==
    ASSUME mem \in Memory, pc \in Pcs, DirUnreadable \/ Walk \/ List \/ Create \/ Open
    PROVE  Advances
<1>1. mem.path \in Seq(AllNames) /\ Len(mem.path) \in Nat /\ pc = "walk" /\ Busy
  BY DEF Memory, DirUnreadable, Walk, List, Create, Open, DirReadable, Busy
<1>2. StepsLeft = 10 + Len(mem.path)
  BY <1>1 DEF StepsLeft
<1>3. CASE Return \/ Die \/ Spin
  BY <1>1, <1>3, EndingAdvances
<1>4. CASE pc' = "walk" /\ mem'.path = Tail(mem.path) /\ mem.path # <<>>
  <2>1. Len(mem'.path) = Len(mem.path) - 1 /\ Len(mem.path) # 0
    BY <1>1, <1>4
  <2>2. StepsLeft' = 10 + Len(mem'.path)
    BY <1>4 DEF StepsLeft
  <2> QED
    BY <1>1, <1>2, <2>1, <2>2 DEF Advances
<1>5. CASE pc' \in {"new_block", "table_reserved"}
  <2>1. StepsLeft' \in {8, 9}
    BY <1>5 DEF StepsLeft
  <2> QED
    BY <1>1, <1>2, <2>1 DEF Advances
<1>6. CASE DirUnreadable \/ List
  BY <1>3, <1>6 DEF DirUnreadable, List
<1>7. CASE Walk
  BY <1>3, <1>4, <1>7 DEF Walk, Continue, Memory
<1>8. CASE Create
  BY <1>3, <1>5, <1>8 DEF Create, UndefinedBehaviour, Register, Continue
<1>9. CASE Open
  BY <1>3, <1>5, <1>9 DEF Open, Continue
<1> QED
  BY <1>6, <1>7, <1>8, <1>9

\* A turn of read_file moves a byte at least, or is the last.
LEMMA ReadAdvances ==
    ASSUME TypeOK, ReadTurn \/ ReadEnds
    PROVE  Advances
<1>1. mem \in Memory /\ pc \in Pcs /\ mem.need \in Nat /\ pc = "read_loop" /\ Busy
  BY DEF TypeOK, ProcessTypeOK, Memory, ReadTurn, ReadEnds, Busy
<1>2. StepsLeft = 10 + mem.need
  BY <1>1 DEF StepsLeft
<1>3. CASE Die \/ Spin
  BY <1>1, <1>3, EndingAdvances
<1>4. CASE pc' = "table_reserved"
  <2>1. StepsLeft' = 9
    BY <1>4 DEF StepsLeft
  <2> QED
    BY <1>1, <1>2, <2>1 DEF Advances
<1>5. CASE pc' = "read_loop" /\ \E size \in 1 .. mem.need : mem'.need = mem.need - size
  <2>1. StepsLeft' = 10 + mem'.need
    BY <1>5 DEF StepsLeft
  <2> QED
    BY <1>1, <1>2, <1>5, <2>1 DEF Advances
<1>6. CASE ReadEnds
  BY <1>4, <1>6 DEF ReadEnds, EndLoop, Continue
<1>7. ASSUME ReadTurn, NEW block \in BlockIds,
             blocks[block].size > Offset,
             Continue("read_loop", [mem EXCEPT !.pos = @ + Smaller(mem.need, blocks[block].size - Offset),
                                               !.need = @ - Smaller(mem.need, blocks[block].size - Offset)])
      PROVE  Advances
  <2>1. blocks[block].size \in Nat /\ Offset \in Nat
    BY <1>1, ChunkFits DEF TypeOK, DiskTypeOK, BlockContents
  <2>2. Smaller(mem.need, blocks[block].size - Offset) \in 1 .. mem.need
    <3>1. PICK size \in Nat, offset \in Nat : size = blocks[block].size /\ offset = Offset
      BY <2>1
    <3>2. size > offset /\ mem.need # 0
      BY <1>7, <3>1 DEF ReadTurn
    <3> QED
      BY <1>1, <3>1, <3>2 DEF Smaller
  <2>3. /\ pc' = "read_loop"
        /\ mem'.need = mem.need - Smaller(mem.need, blocks[block].size - Offset)
    BY <1>1, <1>7 DEF Continue, Memory
  <2> QED
    BY <1>5, <2>2, <2>3
<1>8. CASE ReadTurn /\ Continue("read_loop", [mem EXCEPT !.pos = @ + mem.need, !.need = 0])
  <2>1. mem'.need = 0 /\ mem.need # 0 /\ pc' = "read_loop"
    BY <1>1, <1>8 DEF Continue, Memory, ReadTurn
  <2>2. mem'.need = mem.need - mem.need /\ mem.need \in 1 .. mem.need
    BY <1>1, <2>1
  <2> QED
    BY <1>5, <2>1, <2>2
<1>9. CASE ReadTurn
  <2>1. BlockIndex < BlocksCountInInode => mem.inode.ids[BlockIndex] \in BlockIds
    BY <1>1, ChunkFits DEF Memory, Inodes, Slots
  <2> QED
    BY <1>3, <1>4, <1>7, <1>8, <1>9, <2>1 DEF ReadTurn, EndLoop, Continue
<1> QED
  BY <1>6, <1>9

\* A turn of write_to_file takes at most five steps, and moves a byte at least.
LEMMA WriteAdvances ==
    ASSUME TypeOK, NeedInv,
           WriteTurn \/ WriteEnds \/ GrowInfo \/ GrowIds \/ WriteInfo \/ WriteData
    PROVE  Advances
<1>1. /\ mem \in Memory /\ pc \in Pcs /\ mem.need \in Nat
      /\ pc \in {"write_loop"} \cup WriteSteps /\ Busy
  BY DEF TypeOK, ProcessTypeOK, Memory, Busy, WriteSteps,
         WriteTurn, WriteEnds, GrowInfo, GrowIds, WriteInfo, WriteData
<1>2. CASE Die \/ Spin
  BY <1>1, <1>2, EndingAdvances
<1>3. CASE WriteTurn \/ WriteEnds
  <2>1. StepsLeft = 10 + 5 * mem.need
    BY <1>3 DEF StepsLeft, WriteTurn, WriteEnds
  <2>2. CASE pc' = "table_reserved"
    <3>1. StepsLeft' = 9
      BY <2>2 DEF StepsLeft
    <3> QED
      BY <1>1, <2>1, <3>1 DEF Advances
  <2>3. CASE pc' \in {"grow_info", "write_info"} /\ mem'.need = mem.need
    <3>1. StepsLeft' \in {9 + 5 * mem.need, 7 + 5 * mem.need}
      BY <2>3 DEF StepsLeft
    <3> QED
      BY <1>1, <2>1, <3>1 DEF Advances
  <2>4. CASE WriteEnds
    BY <2>2, <2>4 DEF WriteEnds, EndLoop, Continue
  <2>5. CASE WriteTurn
    <3>1. ASSUME NEW m, EndLoop(m) PROVE Advances
      BY <2>2, <3>1 DEF EndLoop, Continue
    <3>2. ASSUME NEW block, Continue("write_info", [mem EXCEPT !.block = block]) PROVE Advances
      BY <1>1, <2>3, <3>2 DEF Continue, Memory
    <3>3. ASSUME NEW mask, NEW inode, NEW block,
                 Continue("grow_info", [mem EXCEPT !.blockMask = mask, !.inode = inode,
                                                   !.block = block])
          PROVE  Advances
      BY <1>1, <2>3, <3>3 DEF Continue, Memory
    <3> QED
      BY <1>2, <2>5, <3>1, <3>2, <3>3 DEF WriteTurn
  <2> QED
    BY <1>3, <2>4, <2>5
<1>4. CASE GrowInfo \/ GrowIds
  <2>1. /\ mem' = mem
        /\ \/ pc = "grow_info" /\ pc' = "grow_ids"
           \/ pc = "grow_ids" /\ pc' = "write_info"
    BY <1>4 DEF GrowInfo, GrowIds, Continue
  <2>2. \/ StepsLeft = 9 + 5 * mem.need /\ StepsLeft' = 8 + 5 * mem.need
        \/ StepsLeft = 8 + 5 * mem.need /\ StepsLeft' = 7 + 5 * mem.need
    BY <2>1 DEF StepsLeft
  <2> QED
    BY <1>1, <2>2 DEF Advances
<1>5. CASE WriteInfo
  <2>1. Die \/ (pc' = "write_data" /\ mem'.need = mem.need)
    BY <1>1, <1>5 DEF WriteInfo, Continue, Memory
  <2>2. CASE pc' = "write_data" /\ mem'.need = mem.need
    <3>1. StepsLeft = 7 + 5 * mem.need /\ StepsLeft' = 6 + 5 * mem.need
      BY <1>5, <2>2 DEF StepsLeft, WriteInfo
    <3> QED
      BY <1>1, <3>1 DEF Advances
  <2> QED
    BY <1>2, <2>1, <2>2
<1>6. CASE WriteData
  <2>1. pc = "write_data" /\ pc' = "write_loop" /\ mem'.need = mem.need - Chunk
    BY <1>1, <1>6 DEF WriteData, Continue, Memory
  <2>2. StepsLeft = 6 + 5 * mem.need /\ StepsLeft' = 10 + 5 * mem'.need
    BY <2>1 DEF StepsLeft
  <2>3. mem.need # 0 /\ Offset \in 0 .. (MaxData - 1) /\ Chunk \in Nat /\ Chunk <= mem.need
    BY <1>1, <2>1, ChunkFits DEF NeedInv, WriteSteps
  <2>4. Chunk >= 1
    BY <1>1, <2>3 DEF Chunk, Smaller
  <2> QED
    BY <1>1, <2>1, <2>2, <2>3, <2>4 DEF Advances
<1> QED
  BY <1>3, <1>4, <1>5, <1>6

LEMMA StepAdvances == ASSUME TypeOK, NeedInv, Step PROVE Advances
<1>1. mem \in Memory /\ pc \in Pcs
  BY DEF TypeOK, ProcessTypeOK
<1> QED
  BY <1>1, WritesAdvance, WalkAdvances, ReadAdvances, WriteAdvances DEF Step

LEMMA NeedKept == TypeOK /\ NeedInv /\ [Next]_vars => NeedInv'
<1> SUFFICES ASSUME TypeOK, NeedInv, [Next]_vars, pc' \in WriteSteps PROVE mem'.need # 0
  BY DEF NeedInv
<1>0. mem \in Memory
  BY DEF TypeOK, ProcessTypeOK
<1>1. CASE UNCHANGED vars
  BY <1>1 DEF vars, NeedInv
<1>2. CASE Crash \/ WriteFails \/ Restart
  BY <1>2 DEF Crash, WriteFails, Restart, UndefinedBehaviour, Die, Return, End, WriteSteps
<1>3. CASE Command
  BY <1>3 DEF Command, MountFails, InitFs, Resolve, Close, Lseek, Transfer,
              Spin, Die, End, Continue, WriteSteps
<1>4. CASE WriteTurn
  <2>1. mem'.need = mem.need /\ mem.need # 0
    BY <1>0, <1>4 DEF WriteTurn, EndLoop, Spin, Die, End, Continue, WriteSteps, Memory
  <2> QED
    BY <2>1
<1>5. CASE GrowInfo \/ GrowIds
  BY <1>5 DEF GrowInfo, GrowIds, Continue, NeedInv, WriteSteps
<1>6. CASE WriteInfo
  <2>1. mem'.need = mem.need /\ pc \in WriteSteps
    BY <1>0, <1>6 DEF WriteInfo, Die, End, Continue, WriteSteps, Memory
  <2> QED
    BY <2>1 DEF NeedInv
<1>7. CASE \/ FormatSuperblock \/ FormatTable \/ DirUnreadable \/ Walk \/ List \/ Create \/ Open
           \/ WriteNewBlock \/ WriteNewInode \/ WriteInodesMask \/ WriteBlocksMask
           \/ Link \/ LinkInfo \/ LinkInode \/ LinkName
           \/ WriteTableReserved \/ WriteTableInode \/ WriteTablePosition
           \/ ReadTurn \/ ReadEnds \/ WriteEnds \/ WriteData
  BY <1>7
     DEF FormatSuperblock, FormatTable, DirUnreadable, Walk, List, Create, Open, Register,
         WriteNewBlock, WriteNewInode, WriteInodesMask, WriteBlocksMask,
         Link, LinkInfo, LinkInode, LinkName,
         WriteTableReserved, WriteTableInode, WriteTablePosition,
         ReadTurn, ReadEnds, WriteEnds, WriteData, EndLoop,
         UndefinedBehaviour, Return, Die, Spin, End, Continue, WriteSteps
<1> QED
  BY <1>1, <1>2, <1>3, <1>4, <1>5, <1>6, <1>7 DEF Next, Step

(* The loops of read_file, write_to_file and the path walk are finite for  *)
(* every image, size and path, whatever was interrupted before: a command  *)
(* takes at most StepsLeft steps more, and has none left only at its end.  *)
THEOREM CommandsAreFinite == Spec => CommandsAdvance /\ [](Busy => StepsLeft # 0)
<1>1. Init => NeedInv
  BY DEF Init, NeedInv, WriteSteps
<1>2. TypeOK /\ NeedInv /\ [Next]_vars => [Step => 0 <= StepsLeft' /\ StepsLeft' < StepsLeft]_vars
  BY StepAdvances DEF Advances
<1>3. TypeOK => (Busy => StepsLeft # 0)
  BY StepsCounted DEF TypeOK, ProcessTypeOK
<1> QED
  BY <1>1, <1>2, <1>3, NeedKept, TypeCorrect, PTL DEF Spec, CommandsAdvance

=============================================================================
