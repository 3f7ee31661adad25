-------------------------- MODULE ExtFSTree_proofs --------------------------
(***************************************************************************)
(* The tree of names: the invariant TreeInv holds as long as the two       *)
(* windows are not interrupted, and with it all that is said of the names, *)
(* the links and the blocks of the tree; no step loses any of it; and      *)
(* ExtFS implements NameTree.                                              *)
(***************************************************************************)
EXTENDS ExtFSTree, ExtFSInvariant_proofs

(* Whatever command is at work, at every point where it may be interrupted *)
(* outside the two windows: the image and the command's locals agree as    *)
(* TreeInv says.                                                           *)
THEOREM TreeInvariant == ASSUME ~(Interruptions /\ WindowCrashes) PROVE Spec => []TreeInv
<1>1. ~(Window /\ (Crash \/ WriteFails))
  BY DEF Crash, WriteFails, MayInterrupt
<1>2. TypeOK /\ TreeInv /\ [Next]_vars => TreeInv'
  BY <1>1, TreeStep
<1> QED
  BY <1>2, TreeInit, TypeCorrect, PTL DEF Spec

(* With interruptions anywhere, in the windows too: no other step breaks    *)
(* the tree, and init_fs builds a whole one on whatever it finds.           *)
THEOREM OnlyWindowsAreHarmful == Spec => OnlyWindowsHurt
<1>1. ASSUME TypeOK, [Next]_vars, InitFs \/ (TreeInv /\ ~(Window /\ (Crash \/ WriteFails)))
      PROVE  TreeInv'
  BY <1>1, TreeStep, InitFsMends
<1>2. TypeOK /\ [Next]_vars =>
        [InitFs \/ (TreeInv /\ ~(Window /\ (Crash \/ WriteFails))) => TreeInv']_vars
  BY <1>1
<1> QED
  BY <1>2, TypeCorrect, PTL DEF Spec, OnlyWindowsHurt

(* is_dir_exist and the append of mkdir and touch: no block ever lists a   *)
(* name twice, also not between the writes of a record.                    *)
THEOREM NamesAreUnique == ASSUME ~(Interruptions /\ WindowCrashes) PROVE Spec => []NamesUnique
<1>1. TreeInv => NamesUnique
  BY DEF TreeInv, DiskInv, RecordsInv, Proper, Unique, NamesUnique
<1> QED
  BY <1>1, TreeInvariant, PTL

(* mkdir and touch, wherever they are interrupted: the links on the image  *)
(* are a tree of reserved inodes that hangs on the root.                   *)
THEOREM LinksAreTree == ASSUME ~(Interruptions /\ WindowCrashes) PROVE Spec => []LinksFormTree
<1>1. TreeInv => LinksFormTree
  BY DEF TreeInv, DiskInv
<1> QED
  BY <1>1, TreeInvariant, PTL

(* create_dir_helper: "." and ".." lead where the links of the tree say.   *)
THEOREM DotsFollowLinks == ASSUME ~(Interruptions /\ WindowCrashes) PROVE Spec => []DotsAgree
<1>1. TreeInv => DotsAgree
  BY DEF TreeInv, DiskInv
<1> QED
  BY <1>1, TreeInvariant, PTL

(* However the last command ended: at the prompt the blocks of everything  *)
(* linked are reserved, are marked with their owner and are nobody else's. *)
THEOREM BlocksAreOwned == ASSUME ~(Interruptions /\ WindowCrashes) PROVE Spec => []BlocksOwned
<1>1. ASSUME TypeOK, TreeInv PROVE BlocksOwned
  <2> SUFFICES ASSUME ~Busy, Mounted, NEW i \in Linked
               PROVE  /\ BlocksOf(inodes[i]) \subseteq blockMask
                      /\ \A b \in BlocksOf(inodes[i]) : blocks[b].owner = i
                      /\ \A s, t \in 0 .. (inodes[i].count - 1) :
                            inodes[i].ids[s] = inodes[i].ids[t] => s = t
    BY DEF BlocksOwned
  <2>1. /\ \A s \in 0 .. (inodes[i].count - 1) :
              /\ inodes[i].ids[s] \in blockMask
              /\ blocks[inodes[i].ids[s]].owner = i
        /\ \A s, t \in 0 .. (inodes[i].count - 1) : inodes[i].ids[s] = inodes[i].ids[t] => s = t
    <3>1. DiskInv /\ Settled
      BY <1>1, PromptSettled DEF TreeInv
    <3> QED
      BY <3>1, SettledOwns
  <2> QED
    BY <2>1 DEF BlocksOf
<1>2. TypeOK /\ TreeInv => BlocksOwned
  BY <1>1
<1> QED
  BY <1>2, TypeCorrect, TreeInvariant, PTL

----------------------------------------------------------------------------
(* What no step takes away.                                                *)

\* The reservations, and the block lists of what is linked.
KeepsNodes ==
    /\ image' = image
    /\ inodeMask \subseteq inodeMask' /\ blockMask \subseteq blockMask'
    /\ \A i \in Linked :
          /\ inodes[i].isFile = inodes'[i].isFile
          /\ inodes[i].count <= inodes'[i].count
          /\ \A s \in 0 .. (inodes[i].count - 1) :
                \/ inodes[i].ids[s] = inodes'[i].ids[s]
                \/ pc = "grow_ids" /\ i = mem.inode.id /\ s = inodes[i].count - 1

LEMMA LinkedInode == ASSUME TypeOK, NEW i \in Linked PROVE inodes[i] \in Inodes
BY LinkedType, DiskParts

\* A step that changes no inode of the tree.
LEMMA SameInodes ==
    ASSUME TypeOK, image' = image, inodeMask \subseteq inodeMask', blockMask \subseteq blockMask',
           \A i \in Linked : inodes'[i] = inodes[i]
    PROVE  KeepsNodes
<1>1. \A i \in Linked : inodes[i].count \in Nat
  BY LinkedInode DEF Inodes
<1> QED
  BY <1>1 DEF KeepsNodes

\* A step that leaves the image alone.
LEMMA SameDiskKeeps == TypeOK /\ UNCHANGED diskVars => KeepsTree /\ KeepsNodes
<1> SUFFICES ASSUME TypeOK, UNCHANGED diskVars PROVE KeepsTree /\ KeepsNodes
  OBVIOUS
<1>1. /\ KeepsTree
      /\ image' = image /\ inodeMask' = inodeMask /\ blockMask' = blockMask /\ inodes' = inodes
  BY SameDiskKeepsTree
<1> QED
  BY <1>1, SameInodes

\* A step that changes the table or the mask of blocks.
LEMMA SameFilesKeep ==
    ASSUME TypeOK, image' = image, inodeMask' = inodeMask, blockMask \subseteq blockMask',
           inodes' = inodes, blocks' = blocks
    PROVE  KeepsTree /\ KeepsNodes
<1>1. KeepsTree
  BY DEF KeepsTree, KeepsLinks, SameLinks, SameDots, DirBlock, Mounted
<1> QED
  BY <1>1, SameInodes

\* The growth of a file: its count and, one write later, its list.
LEMMA GrowKeepsNodes == ASSUME TypeOK, TreeInv, GrowInfo \/ GrowIds PROVE KeepsNodes
<1>1. PICK i, inode : i = mem.inode.id /\ inode = mem.inode
  OBVIOUS
<1>2. /\ pc \in {"grow_info", "grow_ids"} /\ image' = image
      /\ inodeMask' = inodeMask /\ blockMask' = blockMask
      /\ inodes' = IF pc = "grow_info"
                   THEN [inodes EXCEPT ![i] = [inode EXCEPT !.ids = inodes[i].ids]]
                   ELSE [inodes EXCEPT ![i].ids = inode.ids]
  BY <1>1 DEF GrowInfo, GrowIds, maskVars
<1>3. CopyInv /\ i \in InodeIds /\ inode \in Inodes
  BY <1>1, <1>2, LoopParts DEF LoopSteps, WriteSteps
<1>4. inodes \in [InodeIds -> Inodes]
  BY DEF TypeOK, DiskTypeOK
<1>5. /\ inode.isFile = inodes[i].isFile
      /\ pc = "grow_info" => inode.count = inodes[i].count + 1
      /\ pc = "grow_ids" => inode.count = inodes[i].count
      /\ \A s \in 0 .. (inode.count - 1) :
            inode.ids[s] = inodes[i].ids[s] \/ s = inode.count - 1
  BY <1>1, <1>2, <1>3 DEF CopyInv
<1>6. /\ \A x \in InodeIds : x # i => inodes'[x] = inodes[x]
      /\ inodes'[i].isFile = inodes[i].isFile
      /\ pc = "grow_info" => /\ inodes'[i].count = inodes[i].count + 1
                             /\ inodes'[i].ids = inodes[i].ids
      /\ pc = "grow_ids" => inodes'[i].count = inodes[i].count /\ inodes'[i].ids = inode.ids
  <2>1. CASE pc = "grow_info"
    <3>1. inodes' = [inodes EXCEPT ![i] = [inode EXCEPT !.ids = inodes[i].ids]]
      BY <1>2, <2>1
    <3> QED
      BY <1>3, <1>4, <1>5, <2>1, <3>1 DEF Inodes
  <2>2. CASE pc = "grow_ids"
    <3>1. inodes' = [inodes EXCEPT ![i].ids = inode.ids]
      BY <1>2, <2>2
    <3> QED
      BY <1>3, <1>4, <1>5, <2>2, <3>1 DEF Inodes
  <2> QED
    BY <1>2, <2>1, <2>2
<1>7. ASSUME NEW x \in Linked
      PROVE  /\ inodes[x].isFile = inodes'[x].isFile
             /\ inodes[x].count <= inodes'[x].count
             /\ \A s \in 0 .. (inodes[x].count - 1) :
                   \/ inodes[x].ids[s] = inodes'[x].ids[s]
                   \/ pc = "grow_ids" /\ x = i /\ s = inodes[x].count - 1
  <2>1. x \in InodeIds /\ inodes[x].count \in Nat
    BY LinkedType, LinkedInode DEF Inodes
  <2>2. CASE x # i
    BY <1>6, <2>1, <2>2
  <2>3. CASE x = i /\ pc = "grow_info"
    BY <1>6, <2>1, <2>3
  <2>4. CASE x = i /\ pc = "grow_ids"
    BY <1>5, <1>6, <2>1, <2>4
  <2> QED
    BY <1>2, <2>2, <2>3, <2>4
<1> QED
  BY <1>1, <1>2, <1>7 DEF KeepsNodes

\* On a mounted image init_fs has left nothing to do but to mark the root's block.
LEMMA MountedInit ==
    ASSUME TypeOK, TreeInv, Mounted, mem.op = "init"
    PROVE  pc = "blocks_mask"
BY DEF TreeInv, ProcessInv, InitInv, Mounted

\* Every step but init_fs leaves the tree as it is or adds a link to it.
LEMMA MountedStep ==
    ASSUME TypeOK, TreeInv, Mounted, [Next]_vars, ~InitFs
    PROVE  KeepsNodes /\ (KeepsTree \/ LinkName)
<1>1. CASE UNCHANGED diskVars
  BY <1>1, SameDiskKeeps
<1>2. CASE Command \/ Crash \/ WriteFails \/ Restart \/ UNCHANGED vars
  <2>1. UNCHANGED diskVars
    BY <1>2 DEF Command, MountFails, Resolve, Close, Lseek, Transfer, Crash, WriteFails, Restart, vars
  <2> QED
    BY <1>1, <2>1
<1>3. CASE \/ DirUnreadable \/ Walk \/ List \/ Create \/ Open \/ Link
           \/ ReadTurn \/ ReadEnds \/ WriteTurn \/ WriteEnds
  <2>1. UNCHANGED diskVars
    BY <1>3 DEF DirUnreadable, Walk, List, Create, Open, Link, ReadTurn, ReadEnds, WriteTurn, WriteEnds
  <2> QED
    BY <1>1, <2>1
<1>4. CASE FormatSuperblock \/ FormatTable
  <2>1. pc \in {"format_superblock", "format_table"}
    BY <1>4 DEF FormatSuperblock, FormatTable
  <2> QED
    BY <2>1, FormatOp, MountedInit DEF TreeInv
<1>5. CASE WriteNewBlock \/ WriteNewInode
  <2>1. pc \in {"new_block", "new_inode"}
    BY <1>5 DEF WriteNewBlock, WriteNewInode
  <2>2. mem.op \in MakeOps
    BY <2>1, MakerOp, MountedInit DEF TreeInv, CreateSteps
  <2>3. KeepsTree
    BY <1>5, <2>2, MakerWritesBlock, MakerWritesInode
  <2>4. mem.inode.id \notin Linked
    BY <2>1, <2>2, MakerSettled DEF NodeInv, CreateSteps
  <2>5. /\ image' = image /\ inodeMask' = inodeMask /\ blockMask' = blockMask
        /\ inodes' = inodes \/ inodes' = [inodes EXCEPT ![mem.inode.id] = mem.inode]
    BY <1>5 DEF WriteNewBlock, WriteNewInode, maskVars
  <2>6. \A i \in Linked : inodes'[i] = inodes[i]
    BY <2>4, <2>5, LinkedType DEF TypeOK, DiskTypeOK
  <2> QED
    BY <2>3, <2>5, <2>6, SameInodes
<1>6. CASE WriteInodesMask \/ WriteBlocksMask
  <2>1. /\ pc \in {"inodes_mask", "blocks_mask"} /\ image' = image
        /\ inodes' = inodes /\ blocks' = blocks
        /\ \/ pc = "inodes_mask" /\ inodeMask' = mem.inodeMask /\ blockMask' = blockMask
           \/ pc = "blocks_mask" /\ inodeMask' = inodeMask /\ blockMask' = mem.blockMask
    BY <1>6 DEF WriteInodesMask, WriteBlocksMask
  <2>2. mem.op \in MakeOps \cup {"init", "write"}
    BY <2>1, MakerOp DEF TreeInv, CreateSteps
  <2>3. CASE mem.op \in MakeOps
    <3>1. KeepsTree
      BY <1>6, <2>3, MakerWritesMasks
    <3>2. ProgressInv
      BY <2>1, <2>3, MakerSettled DEF CreateSteps
    <3>3. inodeMask \subseteq mem.inodeMask /\ blockMask \subseteq mem.blockMask
      BY <2>1, <3>2 DEF ProgressInv, ReserveSteps
    <3> QED
      BY <2>1, <3>1, <3>3, SameInodes
  <2>4. CASE mem.op = "init"
    <3>1. pc = "blocks_mask" /\ blockMask = {}
      BY <2>4, MountedInit DEF TreeInv, ProcessInv, InitInv
    <3> QED
      BY <2>1, <3>1, SameFilesKeep
  <2>5. CASE mem.op = "write"
    <3>1. mem.inodeMask = inodeMask /\ blockMask \subseteq mem.blockMask
      BY <2>5, WriterParts
    <3> QED
      BY <2>1, <3>1, SameFilesKeep
  <2> QED
    BY <2>2, <2>3, <2>4, <2>5
<1>7. CASE LinkInfo \/ LinkInode \/ LinkName
  <2>1. KeepsTree \/ LinkName
    BY <1>7, LinkBlankKeeps
  <2>2. image' = image /\ inodeMask' = inodeMask /\ blockMask' = blockMask /\ inodes' = inodes
    BY <1>7 DEF LinkInfo, LinkInode, LinkName, maskVars
  <2> QED
    BY <2>1, <2>2, SameInodes
<1>8. CASE WriteTableReserved \/ WriteTableInode \/ WriteTablePosition
  <2>1. /\ image' = image /\ inodeMask' = inodeMask /\ blockMask' = blockMask
        /\ inodes' = inodes /\ blocks' = blocks
    BY <1>8 DEF WriteTableReserved, WriteTableInode, WriteTablePosition, maskVars
  <2> QED
    BY <2>1, SameFilesKeep
<1>9. CASE GrowInfo \/ GrowIds
  BY <1>9, GrowKeeps, GrowKeepsNodes
<1>10. CASE WriteInfo \/ WriteData
  <2>1. KeepsTree
    BY <1>10, WriteInfoKeeps, WriteDataKeeps
  <2>2. image' = image /\ inodeMask' = inodeMask /\ blockMask' = blockMask /\ inodes' = inodes
    BY <1>10 DEF WriteInfo, WriteData, maskVars
  <2> QED
    BY <2>1, <2>2, SameInodes
<1> QED
  BY <1>2, <1>3, <1>4, <1>5, <1>6, <1>7, <1>8, <1>9, <1>10 DEF Next, Step

\* The links are on the image after the step, and lead where they led.
LEMMA LinksStay ==
    ASSUME TypeOK, TreeInv, KeepsTree \/ LinkName, NEW link \in Links
    PROVE  link \in Links' /\ blocks[link[1]].records[link[2]] = blocks'[link[1]].records[link[2]]
<1>1. CASE KeepsTree
  BY <1>1, LinksKept DEF KeepsTree
<1>2. CASE LinkName
  <2>1. PICK b, new, n, d : LinkAdded(b, new, n, d)
    BY <1>2, LinkNameLinks
  <2> QED
    BY <2>1 DEF LinkAdded
<1> QED
  BY <1>1, <1>2

(* Nothing is ever removed, however the commands are interrupted outside   *)
(* the windows: until the image is formatted again every step keeps every  *)
(* link, kind, block list and reservation.                                 *)
THEOREM NothingIsEverLost == ASSUME ~(Interruptions /\ WindowCrashes) PROVE Spec => NothingIsLost
<1> DEFINE Kept ==
        image' = "formatted" =>
            /\ inodeMask \subseteq inodeMask' /\ blockMask \subseteq blockMask'
            /\ \A link \in Links :
                  /\ link \in Links'
                  /\ blocks[link[1]].records[link[2]] = blocks'[link[1]].records[link[2]]
            /\ \A i \in Linked : i \in inodeMask =>
                  /\ inodes[i].isFile = inodes'[i].isFile
                  /\ inodes[i].count <= inodes'[i].count
                  /\ \A s \in 0 .. (inodes[i].count - 1) :
                        \/ inodes[i].ids[s] = inodes'[i].ids[s]
                        \/ pc = "grow_ids" /\ i = mem.inode.id /\ s = inodes[i].count - 1
<1>1. TypeOK /\ TreeInv /\ [Next]_vars => [Kept]_vars
  <2> SUFFICES ASSUME TypeOK, TreeInv, [Next]_vars, image' = "formatted"
               PROVE  Kept
    OBVIOUS
  <2>1. CASE ~Mounted
    <3>1. Links = {} /\ inodeMask = {} /\ blockMask = {}
      BY <2>1 DEF TreeInv, DiskInv, UnmountedInv
    <3> QED
      BY <3>1
  <2>2. CASE Mounted
    <3>1. ~InitFs
      BY DEF InitFs
    <3>2. KeepsNodes /\ (KeepsTree \/ LinkName)
      BY <2>2, <3>1, MountedStep
    <3>3. \A link \in Links :
              /\ link \in Links'
              /\ blocks[link[1]].records[link[2]] = blocks'[link[1]].records[link[2]]
      BY <3>2, LinksStay
    <3> QED
      BY <3>2, <3>3 DEF KeepsNodes
  <2> QED
    BY <2>1, <2>2
<1>2. Spec => [][Kept]_vars
  BY <1>1, TypeCorrect, TreeInvariant, PTL DEF Spec
<1> QED
  BY <1>2 DEF NothingIsLost

----------------------------------------------------------------------------
(* What a command does not touch.                                          *)

\* Of what the files and directories own, the block that the command writes to changes.
SparesOthers ==
    \A i \in Linked :
        /\ i \notin AtWork => inodes'[i] = inodes[i]
        /\ \A s \in 0 .. (inodes[i].count - 1) :
              \/ blocks'[inodes[i].ids[s]] = blocks[inodes[i].ids[s]]
              \/ i \in AtWork /\ s = SlotAtWork

\* A turn of write_to_file: its block is where the position is, or the last one.
TurnInv ==
    pc \in WriteSteps =>
        mem.block.id = mem.inode.ids[Smaller(BlockIndex, mem.inode.count - 1)]

LEMMA SameFilesSpared ==
    ASSUME inodes' = inodes, blocks' = blocks
    PROVE  SparesOthers
BY DEF SparesOthers

\* One block changes, and it is nobody's.
LEMMA FreeBlockSpares ==
    ASSUME NEW c, inodes' = inodes, \A b \in BlockIds \ {c} : blocks'[b] = blocks[b], TypeOK,
           \A i \in Linked : c \notin BlocksOf(inodes[i])
    PROVE  SparesOthers
<1> SUFFICES ASSUME NEW i \in Linked, NEW s \in 0 .. (inodes[i].count - 1)
             PROVE  blocks'[inodes[i].ids[s]] = blocks[inodes[i].ids[s]]
  BY DEF SparesOthers
<1>1. inodes[i].ids[s] \in BlockIds \ {c}
  BY LinkedType, DiskParts, InodeParts DEF BlocksOf
<1> QED
  BY <1>1

\* One block changes, and it is the one the command writes to.
LEMMA OwnBlockSpares ==
    ASSUME NEW k \in Linked, NEW r \in 0 .. (inodes[k].count - 1), TypeOK, TreeInv, Mounted,
           AtWork = {k}, SlotAtWork = r, inodes' = inodes,
           \A i \in Linked : InodeOf(i) = inodes[i],
           \A b \in BlockIds \ {inodes[k].ids[r]} : blocks'[b] = blocks[b]
    PROVE  SparesOthers
<1> SUFFICES ASSUME NEW i \in Linked, NEW s \in 0 .. (inodes[i].count - 1),
                    ~(i = k /\ s = r)
             PROVE  blocks'[inodes[i].ids[s]] = blocks[inodes[i].ids[s]]
  BY DEF SparesOthers
<1>1. Owns(i, inodes[i]) /\ Owns(k, inodes[k])
  BY DEF TreeInv, DiskInv, OwnedInv
<1>2. CASE i = k
  <2>1. inodes[i].ids[s] # inodes[k].ids[r]
    BY <1>1, <1>2 DEF Owns
  <2> QED
    BY <2>1, LinkedType, DiskParts, InodeParts
<1>3. CASE i # k
  <2>1. BlockOf(inodes[i].ids[s]).owner = i /\ BlockOf(inodes[k].ids[r]).owner = k
    BY <1>1 DEF Owns
  <2>2. inodes[i].ids[s] # inodes[k].ids[r]
    BY <1>3, <2>1
  <2> QED
    BY <2>2, LinkedType, DiskParts, InodeParts
<1> QED
  BY <1>2, <1>3

\* mkdir and touch: the new block and inode are nobody's, the record goes to the parent.
LEMMA MakerSpares ==
    ASSUME TypeOK, TreeInv, Mounted,
           WriteNewBlock \/ WriteNewInode \/ LinkInfo \/ LinkInode \/ LinkName
    PROVE  SparesOthers
<1>1. /\ pc \in {"new_block", "new_inode"} \cup LinkSteps
      /\ pc \in CreateSteps
  BY DEF WriteNewBlock, WriteNewInode, LinkInfo, LinkInode, LinkName, LinkSteps, CreateSteps
<1>2. mem.op \in MakeOps
  BY <1>1, MakerOp, MountedInit DEF TreeInv, LinkSteps
<1>3. Settled /\ NodeInv /\ ProgressInv /\ RecordInv /\ AtWork = {mem.dir} /\ SlotAtWork = 0
  BY <1>1, <1>2, MakerSettled DEF AtWork, SlotAtWork, MakeOps
<1>4. inodes \in [InodeIds -> Inodes] /\ blocks \in [BlockIds -> BlockContents]
  BY DEF TypeOK, DiskTypeOK
<1>5. CASE WriteNewInode
  <2>1. /\ inodes' = [inodes EXCEPT ![mem.inode.id] = mem.inode] /\ blocks' = blocks
        /\ mem.inode.id \notin Linked
    BY <1>3, <1>5 DEF WriteNewInode, NodeInv
  <2> QED
    BY <1>4, <2>1, LinkedType DEF SparesOthers
<1>6. CASE WriteNewBlock
  <2>1. /\ inodes' = inodes /\ blocks' = [blocks EXCEPT ![mem.block.id] = mem.block]
        /\ pc = "new_block"
    BY <1>6 DEF WriteNewBlock
  <2>2. mem.block.id = mem.inode.ids[0]
    BY <1>3, <2>1, NodeBlockParts DEF ProgressInv, ReserveSteps
  <2> QED
    BY <1>3, <1>4, <2>1, <2>2, FreeBlockSpares DEF NodeInv
<1>7. CASE LinkInfo \/ LinkInode \/ LinkName
  <2>1. /\ inodes' = inodes /\ pc \in LinkSteps
        /\ \A b \in BlockIds \ {mem.block.id} : blocks'[b] = blocks[b]
    BY <1>4, <1>7 DEF LinkInfo, LinkInode, LinkName, LinkSteps
  <2>2. mem.block.id = inodes[mem.dir].ids[0] /\ mem.dir \in Linked
    BY <1>3, <2>1 DEF RecordInv, NodeInv
  <2>3. inodes[mem.dir].count # 0 /\ inodes[mem.dir].count \in Nat
    BY <1>3, <2>2, SettledOwns, LinkedType, DiskParts, InodeParts, BlocksAssumption DEF TreeInv
  <2>4. 0 \in 0 .. (inodes[mem.dir].count - 1)
    BY <2>3
  <2>5. \A i \in Linked : InodeOf(i) = inodes[i]
    BY <1>3 DEF Settled
  <2> QED
    BY <1>3, <2>1, <2>2, <2>4, <2>5, OwnBlockSpares
<1> QED
  BY <1>5, <1>6, <1>7

\* The position of a turn points into the file or behind it.
LEMMA TurnSlot ==
    ASSUME TypeOK, mem.inode.count # 0
    PROVE  /\ Smaller(BlockIndex, mem.inode.count - 1) \in 0 .. (mem.inode.count - 1)
           /\ BlockIndex \in Nat /\ mem.inode.count \in Nat
<1>1. mem.pos \in Nat /\ MaxData \in Nat \ {0} /\ mem.inode.count \in Nat
  BY MemoryParts, InodeParts, BlocksAssumption
<1>2. BlockIndex \in Nat
  BY <1>1, Division DEF BlockIndex
<1> QED
  BY <1>1, <1>2 DEF Smaller

\* write_to_file: the block of the turn belongs to the file of the descriptor.
LEMMA WriterSpares ==
    ASSUME TypeOK, TreeInv, TurnInv, GrowInfo \/ GrowIds \/ WriteInfo \/ WriteData
    PROVE  SparesOthers
<1>1. pc \in WriteSteps /\ pc \in LoopSteps
  BY DEF GrowInfo, GrowIds, WriteInfo, WriteData, LoopSteps, WriteSteps
<1>2. /\ CopyInv /\ Mounted /\ mem.inode.id \in Linked
      /\ mem.op = "write" /\ mem.inode \in Inodes
  BY <1>1, LoopParts
<1>3. AtWork = {mem.inode.id} /\ mem.inode.count # 0
  BY <1>2 DEF AtWork, CopyInv
<1>4. inodes \in [InodeIds -> Inodes] /\ blocks \in [BlockIds -> BlockContents]
  BY DEF TypeOK, DiskTypeOK
<1>5. CASE GrowInfo \/ GrowIds
  <2>1. blocks' = blocks /\ \A x \in InodeIds : x # mem.inode.id => inodes'[x] = inodes[x]
    BY <1>4, <1>5 DEF GrowInfo, GrowIds
  <2> QED
    BY <1>3, <2>1, LinkedType DEF SparesOthers
<1>6. CASE WriteInfo \/ WriteData
  <2>1. /\ inodes' = inodes /\ pc \in {"write_info", "write_data"}
        /\ \A b \in BlockIds \ {mem.block.id} : blocks'[b] = blocks[b]
    BY <1>4, <1>6 DEF WriteInfo, WriteData
  <2>2. PICK k, r : k = mem.inode.id /\ r = Smaller(BlockIndex, mem.inode.count - 1)
    OBVIOUS
  <2>3. inodes[k] = mem.inode /\ fdToInode[mem.fd] = k
    BY <1>2, <2>1, <2>2 DEF CopyInv
  <2>4. r \in 0 .. (inodes[k].count - 1)
    BY <1>3, <2>2, <2>3, TurnSlot
  <2>5. SlotAtWork = r
    BY <1>2, <2>2, <2>3 DEF SlotAtWork
  <2>6. mem.block.id = inodes[k].ids[r]
    BY <1>1, <2>2, <2>3 DEF TurnInv
  <2>7. \A i \in Linked : InodeOf(i) = inodes[i]
    BY <2>1 DEF InodeOf
  <2> QED
    BY <1>2, <1>3, <2>1, <2>2, <2>4, <2>5, <2>6, <2>7, OwnBlockSpares
<1> QED
  BY <1>5, <1>6

LEMMA StepSpares ==
    ASSUME TypeOK, TreeInv, TurnInv, Mounted, [Next]_vars, ~InitFs
    PROVE  SparesOthers
<1>1. CASE inodes' = inodes /\ blocks' = blocks
  BY <1>1, SameFilesSpared
<1>2. CASE Command \/ Crash \/ WriteFails \/ Restart \/ UNCHANGED vars
  BY <1>1, <1>2 DEF Command, MountFails, Resolve, Close, Lseek, Transfer,
                    Crash, WriteFails, Restart, vars, diskVars
<1>3. CASE \/ FormatSuperblock \/ FormatTable
           \/ DirUnreadable \/ Walk \/ List \/ Create \/ Open \/ Link
           \/ WriteInodesMask \/ WriteBlocksMask
           \/ WriteTableReserved \/ WriteTableInode \/ WriteTablePosition
           \/ ReadTurn \/ ReadEnds \/ WriteTurn \/ WriteEnds
  BY <1>1, <1>3 DEF FormatSuperblock, FormatTable,
                    DirUnreadable, Walk, List, Create, Open, Link,
                    WriteInodesMask, WriteBlocksMask,
                    WriteTableReserved, WriteTableInode, WriteTablePosition,
                    ReadTurn, ReadEnds, WriteTurn, WriteEnds, diskVars
<1>4. CASE WriteNewBlock \/ WriteNewInode \/ LinkInfo \/ LinkInode \/ LinkName
  BY <1>4, MakerSpares
<1>5. CASE GrowInfo \/ GrowIds \/ WriteInfo \/ WriteData
  BY <1>5, WriterSpares
<1> QED
  BY <1>2, <1>3, <1>4, <1>5 DEF Next, Step

\* Once a turn has begun, its position, its inode and the block's number stay.
LEMMA TurnGoesOn ==
    ASSUME TypeOK, TreeInv, TurnInv, GrowInfo \/ GrowIds \/ WriteInfo, pc' \in WriteSteps
    PROVE  TurnInv'
<1>1. /\ mem \in Memory /\ mem.block \in BlockContents /\ pc \in WriteSteps
  BY MemoryParts DEF GrowInfo, GrowIds, WriteInfo, WriteSteps
<1>2. /\ mem'.block.id = mem.block.id /\ mem'.inode = mem.inode /\ mem'.pos = mem.pos
  <2>1. CASE GrowInfo \/ GrowIds
    BY <2>1 DEF GrowInfo, GrowIds, Continue
  <2>2. CASE WriteInfo
    <3>1. PICK block : /\ block = [mem.block EXCEPT !.size = Offset + Chunk,
                                                   !.torn = @ \/ mem.block.size = 0]
                       /\ mem' = [mem EXCEPT !.block = block]
      BY <2>2 DEF WriteInfo, Die, End, Continue, WriteSteps
    <3>2. block.id = mem.block.id
      BY <1>1, <3>1 DEF BlockContents
    <3>3. mem'.block = block /\ mem'.inode = mem.inode /\ mem'.pos = mem.pos
      BY <1>1, <3>1 DEF Memory
    <3> QED
      BY <3>2, <3>3
  <2> QED
    BY <2>1, <2>2
<1>3. BlockIndex' = BlockIndex
  BY <1>2 DEF BlockIndex
<1> QED
  BY <1>1, <1>2, <1>3 DEF TurnInv, Smaller

\* A turn begins with the block the position points into, or with a new last one.
LEMMA TurnBegins ==
    ASSUME TypeOK, TreeInv, WriteTurn, pc' \in WriteSteps
    PROVE  TurnInv'
<1>1. pc = "write_loop" /\ mem.need # 0
  BY DEF WriteTurn
<1>2. /\ Mounted /\ CopyInv /\ GrownInv /\ (mem.blockMask = blockMask => Settled)
      /\ mem.inode.id \in Linked /\ mem \in Memory /\ mem.inode \in Inodes
  BY <1>1, LoopParts DEF LoopSteps
<1>3. mem.inode = inodes[mem.inode.id] /\ mem.inode.count # 0
  BY <1>1, <1>2 DEF CopyInv
<1>4. BlockIndex \in Nat /\ mem.inode.count \in Nat
  BY <1>3, TurnSlot
<1>5. CASE /\ BlockIndex < mem.inode.count
           /\ Continue("write_info", [mem EXCEPT !.block = blocks[mem.inode.ids[BlockIndex]]])
  <2>1. PICK s : s = BlockIndex
    OBVIOUS
  <2>2. /\ mem'.block = blocks[mem.inode.ids[s]] /\ mem'.inode = mem.inode /\ mem'.pos = mem.pos
    BY <1>2, <1>5, <2>1 DEF Continue, Memory
  <2>3. s \in 0 .. (mem.inode.count - 1) /\ Smaller(s, mem.inode.count - 1) = s
    BY <1>4, <1>5, <2>1 DEF Smaller
  <2>4. mem.blockMask = blockMask
    BY <1>1, <1>2, <1>4, <1>5 DEF GrownInv
  <2>5. blocks[mem.inode.ids[s]].id = mem.inode.ids[s]
    BY <1>2, <1>3, <2>3, <2>4, SettledOwns DEF TreeInv
  <2>6. BlockIndex' = s
    BY <2>1, <2>2 DEF BlockIndex
  <2> QED
    BY <2>2, <2>3, <2>5, <2>6 DEF TurnInv, Smaller
<1>6. CASE \E b \in BlockIds :
              /\ BlockIndex >= mem.inode.count /\ mem.inode.count # BlocksCountInInode
              /\ Continue("grow_info", [mem EXCEPT !.blockMask = @ \cup {b},
                                                   !.inode = WithBlock(mem.inode, b),
                                                   !.block = NewBlock(b, fdToInode[mem.fd])])
  <2>1. PICK b \in BlockIds :
              /\ BlockIndex >= mem.inode.count /\ mem.inode.count # BlocksCountInInode
              /\ Continue("grow_info", [mem EXCEPT !.blockMask = @ \cup {b},
                                                   !.inode = WithBlock(mem.inode, b),
                                                   !.block = NewBlock(b, fdToInode[mem.fd])])
    BY <1>6
  <2>2. /\ mem'.block = NewBlock(b, fdToInode[mem.fd]) /\ mem'.inode = WithBlock(mem.inode, b)
        /\ mem'.pos = mem.pos
    BY <1>2, <2>1 DEF Continue, Memory
  <2>3. mem'.block.id = b
    BY <2>2 DEF NewBlock, ZeroBlock
  <2>4. /\ mem'.inode.count = mem.inode.count + 1 /\ mem'.inode.ids[mem.inode.count] = b
    BY <1>2, <2>1, <2>2, WithBlockParts
  <2>5. BlockIndex' = BlockIndex
    BY <2>2 DEF BlockIndex
  <2>6. mem'.inode.count - 1 = mem.inode.count /\ BlockIndex' >= mem'.inode.count - 1
    BY <1>4, <2>1, <2>4, <2>5
  <2>7. Smaller(BlockIndex', mem'.inode.count - 1) = mem.inode.count
    BY <1>4, <2>1, <2>5, <2>6 DEF Smaller
  <2>8. mem'.block.id = mem'.inode.ids[Smaller(BlockIndex', mem'.inode.count - 1)]
    BY <2>3, <2>4, <2>7
  <2> QED
    BY <2>8 DEF TurnInv, Smaller
<1>7. ReserveBlock(mem.blockMask) # BlocksCount => ReserveBlock(mem.blockMask) \in BlockIds
  BY MemoryParts, ReserveType
<1> QED
  BY <1>5, <1>6, <1>7
     DEF WriteTurn, Spin, Die, End, EndLoop, Continue, WriteSteps

LEMMA TurnKept == TypeOK /\ TreeInv /\ TurnInv /\ [Next]_vars => TurnInv'
<1> SUFFICES ASSUME TypeOK, TreeInv, TurnInv, [Next]_vars, pc' \in WriteSteps PROVE TurnInv'
  BY DEF TurnInv
<1>1. CASE UNCHANGED vars
  BY <1>1 DEF vars, TurnInv, BlockIndex, Smaller
<1>2. CASE GrowInfo \/ GrowIds \/ WriteInfo
  BY <1>2, TurnGoesOn
<1>3. CASE WriteTurn
  BY <1>3, TurnBegins
<1>4. CASE Next /\ ~(GrowInfo \/ GrowIds \/ WriteInfo \/ WriteTurn)
  BY <1>4
     DEF Next, Step, Command, MountFails, InitFs, Resolve, Close, Lseek, Transfer,
         Crash, WriteFails, Restart,
         FormatSuperblock, FormatTable, DirUnreadable, Walk, List, Create, Open, Register,
         WriteNewBlock, WriteNewInode, WriteInodesMask, WriteBlocksMask,
         Link, LinkInfo, LinkInode, LinkName,
         WriteTableReserved, WriteTableInode, WriteTablePosition,
         ReadTurn, ReadEnds, WriteEnds, WriteData, EndLoop, WriteSteps,
         UndefinedBehaviour, Return, Die, Spin, End, Continue
<1> QED
  BY <1>1, <1>2, <1>3, <1>4

(* write_block and write_inode, wherever a command is interrupted outside  *)
(* the windows: no command changes an inode but the one it was asked to    *)
(* write to, nor a block of any file but the one its position points to.   *)
THEOREM WritesStayInPlace == ASSUME ~(Interruptions /\ WindowCrashes) PROVE Spec => WritesInPlace
<1>1. Init => TurnInv
  BY DEF Init, TurnInv, WriteSteps
<1>2. ASSUME TypeOK, TreeInv, TurnInv, [Next]_vars, Mounted, image' = "formatted"
      PROVE  SparesOthers
  BY <1>2, StepSpares DEF InitFs
<1>3. TypeOK /\ TreeInv /\ TurnInv /\ [Next]_vars =>
        [Mounted /\ image' = "formatted" => SparesOthers]_vars
  BY <1>2
<1>4. Spec => []TurnInv
  BY <1>1, TurnKept, TypeCorrect, TreeInvariant, PTL DEF Spec
<1>5. Spec => [][Mounted /\ image' = "formatted" => SparesOthers]_vars
  BY <1>3, <1>4, TypeCorrect, TreeInvariant, PTL DEF Spec
<1> QED
  BY <1>5 DEF WritesInPlace, SparesOthers

----------------------------------------------------------------------------
(* ExtFS implements NameTree.                                              *)

Entry(link) == [parent |-> blocks[link[1]].owner,
                name   |-> blocks[link[1]].records[link[2]].name,
                child  |-> Child(link)]
EntrySet == {Entry(link) : link \in Links}
Directories == IF Mounted THEN {i \in Linked : ~inodes[i].isFile} ELSE {}

LEMMA SameEntries == ASSUME KeepsTree PROVE UNCHANGED <<Mounted, EntrySet, Directories>>
<1>1. /\ Links' = Links /\ Linked' = Linked
      /\ \A link \in Links : /\ Child(link)' = Child(link)
                             /\ blocks'[link[1]].owner = blocks[link[1]].owner
                             /\ blocks'[link[1]].records[link[2]]
                                   = blocks[link[1]].records[link[2]]
  BY LinksKept DEF KeepsTree
<1>2. \A link \in Links : Entry(link)' = Entry(link)
  BY <1>1 DEF Entry
<1>3. EntrySet' = EntrySet
  BY <1>1, <1>2 DEF EntrySet
<1> QED
  BY <1>1, <1>3 DEF KeepsTree, Directories

LEMMA NoEntries ==
    ASSUME UnmountedInv, ~Mounted
    PROVE  EntrySet = {} /\ Directories = {}
BY DEF UnmountedInv, EntrySet, Directories

LEMMA NoEntriesNext ==
    ASSUME TreeInv', ~Mounted'
    PROVE  EntrySet' = {} /\ Directories' = {}
<1>1. Links' = {}
  BY DEF TreeInv, DiskInv, UnmountedInv
<1> QED
  BY <1>1 DEF EntrySet, Directories

\* The step of NameTree.
Added(parent, name, child, isDirectory) ==
    /\ parent \in Directories /\ name \in Names /\ child \in InodeIds
    /\ isDirectory \in BOOLEAN /\ child # RootInode
    /\ \A e \in EntrySet : e.child # child /\ (e.parent = parent => e.name # name)
    /\ EntrySet' = EntrySet \cup {[parent |-> parent, name |-> name, child |-> child]}
    /\ Directories' = IF isDirectory THEN Directories \cup {child} ELSE Directories
    /\ Mounted /\ Mounted'

\* The link of mkdir and touch adds a node to the tree, under a name that was free.
LEMMA LinkNameAdds ==
    ASSUME TypeOK, TreeInv, LinkName
    PROVE  \E parent, name, child, isDirectory : Added(parent, name, child, isDirectory)
<1>1. PICK b, new, n, d : LinkAdded(b, new, n, d)
  BY LinkNameLinks
<1>2. PICK name, isDirectory : name = mem.name /\ isDirectory = (mem.op = "mkdir")
  OBVIOUS
<1>3. /\ pc = "link_name" /\ image' = image /\ inodeMask' = inodeMask /\ inodes' = inodes
  BY DEF LinkName, maskVars
<1>4. /\ mem.op \in MakeOps /\ mem.block.id = inodes[mem.dir].ids[0]
      /\ ~HasName(mem.block, mem.name)
      /\ LinksOf(blocks[mem.block.id].records) = LinksOf(mem.block.records)
      /\ \A k \in LinksOf(mem.block.records) :
            blocks[mem.block.id].records[k] = mem.block.records[k]
  BY <1>3, ParentParts DEF LinkSteps
<1>5. NodeInv /\ ProgressInv /\ Mounted /\ n \in InodeIds
  BY <1>1, <1>3, <1>4, MakerSettled DEF CreateSteps, LinkAdded
<1>6. /\ b = mem.block.id /\ n = mem.inode.id /\ d = mem.dir
      /\ Links' = Links \cup {<<b, new>>} /\ Linked' = Linked \cup {n}
      /\ \A old \in Links : /\ blocks'[old[1]].owner = blocks[old[1]].owner
                            /\ blocks'[old[1]].records[old[2]] = blocks[old[1]].records[old[2]]
                            /\ Child(old)' = Child(old)
      /\ blocks'[b].records[new] = [name |-> name, inode |-> n]
      /\ Child(<<b, new>>)' = n /\ blocks'[b].owner = d
  BY <1>1, <1>2 DEF LinkAdded
<1>7. Mounted'
  BY <1>3, <1>5 DEF Mounted
<1>8. d \in Directories /\ name \in Names /\ n \notin Linked /\ n # RootInode
  BY <1>2, <1>5, <1>6 DEF NodeInv, Directories, Linked
<1>9. ASSUME NEW link \in Links
      PROVE  /\ Entry(link).child # n
             /\ Entry(link).parent = d => Entry(link).name # name
  <2>1. Child(link) \in Linked
    BY DEF Linked
  <2>2. SUFFICES ASSUME blocks[link[1]].owner = d, blocks[link[1]].records[link[2]].name = name
                 PROVE  FALSE
    <3>1. /\ Entry(link).child = Child(link) /\ Entry(link).parent = blocks[link[1]].owner
          /\ Entry(link).name = blocks[link[1]].records[link[2]].name
      BY DEF Entry
    <3> QED
      BY <1>8, <2>1, <3>1
  <2>3. link[1] = b
    <3>1. inodes[blocks[link[1]].owner].ids[0] = link[1]
      BY DEF TreeInv, DiskInv, LinksFormTree
    <3>2. b = inodes[d].ids[0]
      BY <1>4, <1>6
    <3> QED
      BY <2>2, <3>1, <3>2
  <2>4. link[2] \in LinksOf(blocks[b].records)
    BY <2>3 DEF Links, LinksOf
  <2>5. /\ link[2] \in LinksOf(mem.block.records)
        /\ blocks[b].records[link[2]] = mem.block.records[link[2]]
    BY <1>4, <1>6, <2>4
  <2>6. link[2] \in DOMAIN mem.block.records /\ mem.block.records[link[2]].name = mem.name
    BY <1>2, <2>2, <2>3, <2>5 DEF LinksOf
  <2> QED
    BY <1>4, <2>6 DEF HasName
<1>10. EntrySet' = EntrySet \cup {[parent |-> d, name |-> name, child |-> n]}
  <2>1. \A old \in Links : Entry(old)' = Entry(old)
    BY <1>6 DEF Entry
  <2>2. Entry(<<b, new>>)' = [parent |-> d, name |-> name, child |-> n]
    BY <1>6 DEF Entry
  <2>3. EntrySet' = {Entry(link)' : link \in Links'}
    BY DEF EntrySet
  <2> QED
    BY <1>6, <2>1, <2>2, <2>3 DEF EntrySet
<1>11. Directories' = IF isDirectory THEN Directories \cup {n} ELSE Directories
  <2>1. inodes[n] = mem.inode
    BY <1>3, <1>5, <1>6 DEF ProgressInv
  <2>2. mem.inode.isFile = (mem.op = "touch")
    BY <1>5 DEF NodeInv, NewInode
  <2>3. isDirectory <=> ~inodes[n].isFile
    BY <1>2, <1>4, <2>1, <2>2 DEF MakeOps
  <2> QED
    BY <1>3, <1>5, <1>6, <1>7, <2>3 DEF Directories
<1>12. \A e \in EntrySet : e.child # n /\ (e.parent = d => e.name # name)
  BY <1>9 DEF EntrySet
<1>13. Added(d, name, n, isDirectory)
  BY <1>2, <1>5, <1>7, <1>8, <1>10, <1>11, <1>12 DEF Added
<1> QED
  BY <1>13

\* The last but one write of init makes the root a directory, and is the only such step.
LEMMA MountWrites ==
    ASSUME TreeInv, Next, ~Mounted, Mounted'
    PROVE  WriteInodesMask
<1>1. inodeMask = {}
  BY DEF TreeInv, DiskInv, UnmountedInv
<1>2. SUFFICES ASSUME ~WriteInodesMask PROVE inodeMask' = inodeMask \/ image' = "empty"
  BY <1>1 DEF Mounted
<1>3. CASE Step
  BY <1>2, <1>3
     DEF Step, FormatSuperblock, FormatTable, DirUnreadable, Walk, List, Create, Open,
         WriteNewBlock, WriteNewInode, WriteBlocksMask, Link, LinkInfo, LinkInode, LinkName,
         WriteTableReserved, WriteTableInode, WriteTablePosition, ReadTurn, ReadEnds, WriteTurn,
         WriteEnds, GrowInfo, GrowIds, WriteInfo, WriteData, diskVars, maskVars
<1>4. CASE Command \/ Crash \/ WriteFails \/ Restart
  BY <1>4 DEF Command, MountFails, InitFs, Resolve, Close, Lseek, Transfer,
              Crash, WriteFails, Restart, diskVars, maskVars
<1> QED
  BY <1>3, <1>4 DEF Next

LEMMA MountPlants ==
    ASSUME TypeOK, TreeInv, TreeInv', Next, ~Mounted, Mounted'
    PROVE  EntrySet' = {} /\ Directories' = {RootInode}
<1>2. WriteInodesMask
  BY MountWrites
<1>3. pc = "inodes_mask" /\ inodes' = inodes /\ blocks' = blocks
  BY <1>2 DEF WriteInodesMask
<1>4. mem.op = "init"
  BY <1>3 DEF TreeInv, DiskInv, UnmountedInv, Busy
<1>5. Links = {} /\ inodes[RootInode] = NewInode(RootInode, FALSE, RootBlock)
  BY <1>3, <1>4, InitParts DEF ReserveSteps
<1>6. Links' = {} /\ Linked' = {RootInode}
  <2>1. Links' = {}
    BY <1>3, <1>5 DEF Links
  <2> QED
    BY <2>1 DEF Linked
<1>7. ~inodes'[RootInode].isFile
  BY <1>3, <1>5 DEF NewInode
<1> QED
  BY <1>6, <1>7 DEF EntrySet, Directories

(* mkdir and touch add a node in one step, the write of the record's path; *)
(* formatting takes the whole tree away; nothing else is seen of the tree, *)
(* whatever is interrupted outside the windows.                            *)
THEOREM TreeImplemented == ASSUME ~(Interruptions /\ WindowCrashes) PROVE Spec => ImplementsTree
<1>1. /\ Tree!treeVars = <<Mounted, EntrySet, Directories>>
      /\ Tree!treeVars' = <<Mounted', EntrySet', Directories'>>
  BY DEF Tree!treeVars, EntrySet, Entry, Directories
<1>2. Init => Tree!TreeInit
  <2> SUFFICES ASSUME Init PROVE Tree!TreeInit
    OBVIOUS
  <2>1. ~Mounted
    BY DEF Init, Mounted
  <2>2. EntrySet = {} /\ Directories = {}
    BY <2>1, TreeInit, NoEntries DEF TreeInv, DiskInv
  <2> QED
    BY <2>1, <2>2 DEF Tree!TreeInit, EntrySet, Entry, Directories
<1>3. TypeOK /\ TreeInv /\ TreeInv' /\ [Next]_vars => [Tree!TreeNext]_(Tree!treeVars)
  <2> SUFFICES ASSUME TypeOK, TreeInv, TreeInv', [Next]_vars
               PROVE  Tree!TreeNext \/ UNCHANGED <<Mounted, EntrySet, Directories>>
    BY <1>1
  <2>1. CASE ~Mounted /\ ~Mounted'
    <3>1. Mounted' = Mounted
      BY <2>1 DEF Mounted
    <3>2. EntrySet = {} /\ Directories = {} /\ EntrySet' = {} /\ Directories' = {}
      BY <2>1, NoEntries, NoEntriesNext DEF TreeInv, DiskInv
    <3> QED
      BY <3>1, <3>2
  <2>2. CASE ~Mounted /\ Mounted'
    <3>1. Next
      BY <2>2 DEF vars, diskVars, maskVars, Mounted
    <3>2. EntrySet = {} /\ EntrySet' = {} /\ Directories' = {RootInode}
      BY <2>2, <3>1, MountPlants, NoEntries DEF TreeInv, DiskInv
    <3>3. Tree!Plant
      BY <2>2, <3>2 DEF Tree!Plant, EntrySet, Entry, Directories
    <3> QED
      BY <3>3 DEF Tree!TreeNext
  <2>3. CASE Mounted /\ ~Mounted'
    <3>1. EntrySet' = {} /\ Directories' = {}
      BY <2>3, NoEntriesNext
    <3>2. Tree!Wipe
      BY <2>3, <3>1 DEF Tree!Wipe, EntrySet, Entry, Directories
    <3> QED
      BY <3>2 DEF Tree!TreeNext
  <2>4. CASE Mounted /\ Mounted'
    <3>1. ~InitFs
      BY <2>4 DEF InitFs, Mounted
    <3>2. CASE KeepsTree
      BY <3>2, SameEntries
    <3>3. CASE LinkName
      <4>1. PICK parent, name, child, isDirectory : Added(parent, name, child, isDirectory)
        BY <3>3, LinkNameAdds
      <4>2. Tree!Add(parent, name, child, isDirectory)
        BY <4>1 DEF Added, Tree!Add, EntrySet, Entry, Directories
      <4>3. /\ parent \in (IF Mounted THEN {i \in Linked : ~inodes[i].isFile} ELSE {})
            /\ name \in Names /\ child \in InodeIds /\ isDirectory \in BOOLEAN
        BY <4>1 DEF Added, Directories
      <4> QED
        BY <4>2, <4>3, Zenon DEF Tree!TreeNext
    <3> QED
      BY <2>4, <3>1, <3>2, <3>3, MountedStep
  <2> QED
    BY <2>1, <2>2, <2>3, <2>4
<1> QED
  BY <1>2, <1>3, TypeCorrect, TreeInvariant, PTL DEF Spec, ImplementsTree, Tree!TreeSpec

=============================================================================
