----------------------- MODULE ExtFSInvariant_proofs ------------------------
(***************************************************************************)
(* Theorems about the tree of names, the blocks and the directories of     *)
(* ExtFS, for every size of the file system: TreeInv of ExtFSInvariant is   *)
(* kept by every step but an interruption within one of the two windows.   *)
(***************************************************************************)
EXTENDS ExtFSInvariant, ExtFS_proofs

----------------------------------------------------------------------------
(* What the image holds, taken apart.                                      *)

LEMMA BlockParts ==
    ASSUME NEW block \in BlockContents
    PROVE  /\ block.id \in BlockIds /\ block.owner \in InodeIds
           /\ block.records \in Seq(Records) /\ Len(block.records) \in Nat
           /\ DOMAIN block.records = 1 .. Len(block.records)
           /\ \A k \in DOMAIN block.records : block.records[k] \in Records
<1>1. block.records \in Seq(Records)
  BY DEF BlockContents
<1> QED
  BY <1>1 DEF BlockContents

LEMMA InodeParts ==
    ASSUME NEW inode \in Inodes
    PROVE  /\ inode.id \in InodeIds /\ inode.isFile \in BOOLEAN
           /\ inode.count \in 0 .. BlocksCountInInode
           /\ \A s \in 0 .. (inode.count - 1) : s \in Slots /\ inode.ids[s] \in BlockIds
           /\ 0 \in Slots /\ inode.ids[0] \in BlockIds
<1>1. 0 \in Slots /\ \A s \in 0 .. (inode.count - 1) : s \in Slots
  BY BlocksAssumption DEF Inodes, Slots
<1> QED
  BY <1>1 DEF Inodes

LEMMA DiskParts ==
    ASSUME TypeOK
    PROVE  /\ \A b \in BlockIds : blocks[b] \in BlockContents
           /\ \A i \in InodeIds : inodes[i] \in Inodes
           /\ inodeMask \subseteq InodeIds /\ blockMask \subseteq BlockIds
BY DEF TypeOK, DiskTypeOK

LEMMA MemoryParts ==
    ASSUME TypeOK
    PROVE  /\ mem \in Memory /\ mem.block \in BlockContents /\ mem.inode \in Inodes
           /\ mem.dir \in InodeIds /\ mem.name \in AllNames /\ mem.fd \in Fds
           /\ mem.pos \in Nat /\ mem.need \in Nat /\ mem.table \in Tables
           /\ mem.inodeMask \subseteq InodeIds /\ mem.blockMask \subseteq BlockIds
BY DEF TypeOK, ProcessTypeOK, Memory

----------------------------------------------------------------------------
(* Links, and the steps that keep them.                                    *)

IsLink(b, k) == /\ k \in DOMAIN blocks[b].records
                /\ blocks[b].records[k].name \in Names

\* A record with a user's name is a link: no block has more than MaxRecords.
LEMMA LinkIs ==
    ASSUME TypeOK, RecordsInv, NEW b \in BlockIds, NEW k, IsLink(b, k)
    PROVE  /\ <<b, k>> \in Links /\ Child(<<b, k>>) = blocks[b].records[k].inode
           /\ blocks[b].records[k].inode \in Linked
<1>1. blocks[b].records \in Seq(Records) /\ Len(blocks[b].records) <= MaxRecords
  BY DiskParts, BlockParts DEF RecordsInv, Proper
<1>2. k \in 1 .. MaxRecords
  BY <1>1, BlocksAssumption DEF IsLink
<1>3. <<b, k>> \in Links
  BY <1>2 DEF Links, IsLink
<1>4. Child(<<b, k>>) = blocks[b].records[k].inode
  BY DEF Child
<1>5. Child(<<b, k>>) \in Linked
  BY <1>3, Zenon DEF Linked
<1> QED
  BY <1>3, <1>4, <1>5

LEMMA LinkParts ==
    ASSUME TypeOK, NEW link \in Links
    PROVE  /\ link[1] \in BlockIds /\ link = <<link[1], link[2]>>
           /\ IsLink(link[1], link[2])
           /\ Child(link) = blocks[link[1]].records[link[2]].inode
           /\ Child(link) \in InodeIds /\ Child(link) \in Linked
           /\ blocks[link[1]].owner \in InodeIds
<1>1. /\ link[1] \in BlockIds /\ link = <<link[1], link[2]>>
      /\ IsLink(link[1], link[2])
  BY DEF Links, IsLink
<1>2. blocks[link[1]].records[link[2]] \in Records /\ blocks[link[1]].owner \in InodeIds
  BY <1>1, DiskParts, BlockParts DEF IsLink
<1> QED
  BY <1>1, <1>2 DEF Child, Linked, Records

LEMMA LinkedType == ASSUME TypeOK PROVE Linked \subseteq InodeIds /\ RootInode \in Linked
<1>1. \A link \in Links : Child(link) \in InodeIds
  BY LinkParts
<1> QED
  BY <1>1, SmallIds DEF Linked, RootInode

\* Two blocks from which the same links lead.
LinksOf(records) == {k \in DOMAIN records : records[k].name \in Names}
SameLinks(one, other) ==
    \/ NoLinks(one.records) /\ NoLinks(other.records)
    \/ /\ one.owner = other.owner
       /\ LinksOf(one.records) = LinksOf(other.records)
       /\ \A k \in LinksOf(one.records) : one.records[k] = other.records[k]

\* A step after which the same links lead from every block.
KeepsLinks == \A b \in BlockIds : SameLinks(blocks[b], blocks'[b])

LEMMA LinksKept ==
    ASSUME KeepsLinks
    PROVE  /\ Links' = Links /\ Linked' = Linked
           /\ \A link \in Links : /\ Child(link)' = Child(link)
                                  /\ blocks'[link[1]].owner = blocks[link[1]].owner
                                  /\ blocks'[link[1]].records[link[2]]
                                        = blocks[link[1]].records[link[2]]
<1>1. ASSUME NEW b \in BlockIds, NEW k
      PROVE  IsLink(b, k)' <=> IsLink(b, k)
  <2>1. IsLink(b, k) <=> k \in LinksOf(blocks[b].records)
    BY DEF IsLink, LinksOf
  <2>2. IsLink(b, k)' <=> k \in LinksOf(blocks'[b].records)
    BY DEF IsLink, LinksOf
  <2>3. NoLinks(blocks[b].records) => k \notin LinksOf(blocks[b].records)
    BY DEF NoLinks, LinksOf
  <2>4. NoLinks(blocks'[b].records) => k \notin LinksOf(blocks'[b].records)
    BY DEF NoLinks, LinksOf
  <2> QED
    BY <2>1, <2>2, <2>3, <2>4 DEF KeepsLinks, SameLinks
<1>2. Links = {link \in BlockIds \X (1 .. MaxRecords) : IsLink(link[1], link[2])}
  BY DEF Links, IsLink
<1>3. Links' = {link \in BlockIds \X (1 .. MaxRecords) : IsLink(link[1], link[2])'}
  BY DEF Links, IsLink
<1>4. Links' = Links
  BY <1>1, <1>2, <1>3
<1>5. ASSUME NEW link \in Links
      PROVE  /\ blocks'[link[1]].owner = blocks[link[1]].owner
             /\ blocks'[link[1]].records[link[2]] = blocks[link[1]].records[link[2]]
  <2>1. link[1] \in BlockIds /\ link[2] \in LinksOf(blocks[link[1]].records)
    BY DEF Links, LinksOf
  <2>2. ~NoLinks(blocks[link[1]].records)
    BY <2>1 DEF NoLinks, LinksOf
  <2> QED
    BY <2>1, <2>2 DEF KeepsLinks, SameLinks
<1>6. \A link \in Links : Child(link)' = Child(link)
  BY <1>5 DEF Child
<1>7. Linked' = Linked
  BY <1>4, <1>6 DEF Linked
<1> QED
  BY <1>4, <1>5, <1>6, <1>7

\* A step after which the tree and its directories are what they were.
SameDots(one, other) ==
    Len(one) >= 2 => Len(other) >= 2 /\ other[1] = one[1] /\ other[2] = one[2]

KeepsTree ==
    /\ KeepsLinks
    /\ Mounted' = Mounted
    /\ inodeMask \subseteq inodeMask'
    /\ \A i \in Linked :
          /\ inodes'[i].isFile = inodes[i].isFile
          /\ inodes'[i].ids[0] = inodes[i].ids[0]
          /\ Mounted /\ ~inodes[i].isFile =>
                SameDots(DirBlock(i).records, blocks'[inodes[i].ids[0]].records)

TreeOnDisk == LinksFormTree /\ DotsAgree /\ DirsInv

LEMMA TreeKept ==
    ASSUME TypeOK, UnmountedInv, TreeOnDisk, KeepsTree
    PROVE  Links' = Links /\ Linked' = Linked /\ TreeOnDisk'
<1>1. /\ Links' = Links /\ Linked' = Linked
      /\ \A link \in Links : /\ Child(link)' = Child(link)
                             /\ blocks'[link[1]].owner = blocks[link[1]].owner
  BY LinksKept DEF KeepsTree
<1>2. ASSUME NEW i \in Linked
      PROVE  /\ inodes'[i].isFile = inodes[i].isFile
             /\ inodes'[i].ids[0] = inodes[i].ids[0]
             /\ Mounted /\ ~inodes[i].isFile =>
                    SameDots(DirBlock(i).records, DirBlock(i)'.records)
  <2>1. inodes'[i].isFile = inodes[i].isFile /\ inodes'[i].ids[0] = inodes[i].ids[0]
    BY DEF KeepsTree
  <2>2. Mounted /\ ~inodes[i].isFile =>
            SameDots(DirBlock(i).records, blocks'[inodes[i].ids[0]].records)
    BY DEF KeepsTree
  <2>3. DirBlock(i)' = blocks'[inodes[i].ids[0]]
    BY <2>1 DEF DirBlock
  <2> QED
    BY <2>1, <2>2, <2>3
<1>3. LinksFormTree'
  BY <1>1, <1>2 DEF LinksFormTree, TreeOnDisk, KeepsTree
<1>4. DotsAgree'
  <2> SUFFICES ASSUME NEW link \in Links, ~inodes'[Child(link)'].isFile
               PROVE  /\ DirBlock(Child(link))'.records[1] = [name |-> Dot, inode |-> Child(link)']
                      /\ DirBlock(Child(link))'.records[2]
                            = [name |-> DotDot, inode |-> blocks'[link[1]].owner]
    BY <1>1 DEF DotsAgree
  <2> DEFINE i == Child(link)
  <2>1. i \in Linked /\ i' = i /\ Mounted
    <3>1. i \in Linked
      BY LinkParts
    <3>2. i' = i
      BY <1>1
    <3>3. Mounted
      BY DEF UnmountedInv
    <3> QED
      BY <3>1, <3>2, <3>3
  <2>2. ~inodes[i].isFile /\ SameDots(DirBlock(i).records, DirBlock(i)'.records)
    BY <1>2, <2>1
  <2>3. /\ Len(DirBlock(i).records) >= 2
    BY <2>1, <2>2 DEF TreeOnDisk, DirsInv, Dots
  <2>4. /\ DirBlock(i).records[1] = [name |-> Dot, inode |-> i]
        /\ DirBlock(i).records[2] = [name |-> DotDot, inode |-> blocks[link[1]].owner]
    BY <2>2 DEF TreeOnDisk, DotsAgree
  <2> QED
    BY <1>1, <2>1, <2>2, <2>3, <2>4 DEF SameDots
<1>5. DirsInv'
  <2> SUFFICES ASSUME Mounted, NEW i \in Linked, ~inodes'[i].isFile
               PROVE  Dots(i, DirBlock(i).records)'
    BY <1>1 DEF DirsInv, KeepsTree
  <2>1. ~inodes[i].isFile /\ SameDots(DirBlock(i).records, DirBlock(i)'.records)
    BY <1>2
  <2>2. Dots(i, DirBlock(i).records)
    BY <2>1 DEF TreeOnDisk, DirsInv
  <2> QED
    BY <1>1, <2>1, <2>2 DEF Dots, SameDots
<1> QED
  BY <1>1, <1>3, <1>4, <1>5 DEF TreeOnDisk

\* A step that changes no owner and takes no reservation back.
LEMMA OwnedKept ==
    ASSUME TypeOK, OwnedInv, Mounted' => Mounted, Linked' = Linked,
           Mask \subseteq Mask',
           \A i \in Linked : InodeOf(i)' = InodeOf(i),
           \A b \in Mask : BlockOf(b)'.id = BlockOf(b).id /\ BlockOf(b)'.owner = BlockOf(b).owner
    PROVE  OwnedInv'
<1> SUFFICES ASSUME Mounted', NEW i \in Linked
             PROVE  Owns(i, InodeOf(i))'
  BY DEF OwnedInv
<1> DEFINE inode == InodeOf(i)
<1>1. inode' = inode
  OBVIOUS
<1>2. Owns(i, inode)
  BY DEF OwnedInv
<1> HIDE DEF inode
<1>3. ASSUME NEW s \in 0 .. (inode.count - 1)
      PROVE  /\ inode.ids[s] \in Mask'
             /\ BlockOf(inode.ids[s])'.id = inode.ids[s] /\ BlockOf(inode.ids[s])'.owner = i
  <2>1. inode.ids[s] \in Mask
    BY <1>2 DEF Owns
  <2> DEFINE b == inode.ids[s]
  <2>2. BlockOf(b).id = b /\ BlockOf(b).owner = i
    BY <1>2 DEF Owns
  <2>3. b' = b
    BY <1>1
  <2> HIDE DEF b
  <2>4. BlockOf(b)'.id = BlockOf(b).id /\ BlockOf(b)'.owner = BlockOf(b).owner
    BY <2>1, <2>3 DEF b
  <2> QED
    BY <1>1, <1>2, <2>1, <2>2, <2>4 DEF b
<1>4. Owns(i, inode)'
  BY <1>1, <1>2, <1>3 DEF Owns
<1> QED
  BY <1>4 DEF inode

----------------------------------------------------------------------------
(* Steps that leave the image alone.                                       *)

LEMMA SameDiskKeepsTree ==
    ASSUME UNCHANGED diskVars
    PROVE  /\ KeepsTree
           /\ image' = image /\ inodeMask' = inodeMask /\ blockMask' = blockMask
           /\ inodes' = inodes /\ blocks' = blocks
           /\ fdToInode' = fdToInode /\ reservedFd' = reservedFd /\ fdToPosition' = fdToPosition
           /\ Mounted' = Mounted
<1>1. /\ image' = image /\ inodeMask' = inodeMask /\ blockMask' = blockMask
      /\ inodes' = inodes /\ blocks' = blocks
      /\ fdToInode' = fdToInode /\ reservedFd' = reservedFd /\ fdToPosition' = fdToPosition
  BY DEF diskVars, maskVars, tableVars
<1>2. Mounted' = Mounted
  BY <1>1 DEF Mounted
<1>3. KeepsLinks
  BY <1>1 DEF KeepsLinks, SameLinks
<1> QED
  BY <1>1, <1>2, <1>3 DEF KeepsTree, DirBlock, SameDots

\* The image is what it will be: nothing has been decided that is not written.
Settled ==
    Mounted => /\ Mask = blockMask
               /\ \A i \in Linked : InodeOf(i) = inodes[i]
               /\ \A b \in Mask : /\ BlockOf(b).id = blocks[b].id
                                  /\ BlockOf(b).owner = blocks[b].owner

\* What the files of a settled image own.
LEMMA SettledOwns ==
    ASSUME DiskInv, Settled, Mounted, NEW i \in Linked
    PROVE  /\ inodes[i].id = i /\ inodes[i].count # 0
           /\ \A s \in 0 .. (inodes[i].count - 1) :
                 /\ inodes[i].ids[s] \in blockMask
                 /\ blocks[inodes[i].ids[s]].id = inodes[i].ids[s]
                 /\ blocks[inodes[i].ids[s]].owner = i
           /\ \A s, t \in 0 .. (inodes[i].count - 1) : inodes[i].ids[s] = inodes[i].ids[t] => s = t
<1>1. /\ Mask = blockMask
      /\ \A b \in blockMask : BlockOf(b).id = blocks[b].id /\ BlockOf(b).owner = blocks[b].owner
  BY DEF Settled
<1>2. Owns(i, inodes[i])
  BY DEF DiskInv, OwnedInv, Settled
<1> QED
  BY <1>1, <1>2 DEF Owns

\* A command that is not at work in the two windows leaves a settled image.
LEMMA SettledOutside ==
    ASSUME TypeOK, ProcessInv, ~Window
    PROVE  Settled
<1>1. CASE mem.op = "init"
  <2>1. inodeMask = {}
    BY <1>1 DEF ProcessInv, InitInv, Window
  <2> QED
    BY <2>1 DEF Settled, Mounted
<1>2. CASE mem.op = "write"
  <2>1. mem.blockMask = blockMask
    BY <1>2 DEF Window
  <2>2. pc \in {"grow_info", "grow_ids", "write_info"} => pc \in LoopSteps
    BY DEF LoopSteps, WriteSteps
  <2>3. pc \in {"grow_info", "grow_ids", "write_info"} =>
            pc = "write_info" /\ mem.block = blocks[mem.block.id]
    BY <1>2, <2>1, <2>2 DEF ProcessInv, WriteInv, BlockInv
  <2> QED
    BY <1>2, <2>1, <2>3 DEF Settled, Mask, InodeOf, BlockOf
<1>3. CASE mem.op \notin {"init", "write"}
  <2>1. mem.op \in {"none", "init"} \cup PathCommands \cup FdCommands
    BY DEF TypeOK, ProcessTypeOK, Memory
  <2>2. pc \notin {"grow_info", "grow_ids", "write_info"}
    BY <1>3, <2>1 DEF ProcessInv, RestInv, CreateInv, TableCommandInv, Busy,
                      PathCommands, FdCommands, CreateSteps, TableSteps
  <2> QED
    BY <1>3, <2>2 DEF Settled, Mask, InodeOf, BlockOf
<1> QED
  BY <1>1, <1>2, <1>3

\* A step that leaves the image as it is, and as it will be.
LEMMA QuietKeeps ==
    ASSUME TypeOK, DiskInv, UNCHANGED diskVars,
           Mounted => /\ Mask \subseteq Mask'
                      /\ \A i \in Linked : InodeOf(i)' = InodeOf(i)
                      /\ \A b \in Mask : /\ BlockOf(b)'.id = BlockOf(b).id
                                         /\ BlockOf(b)'.owner = BlockOf(b).owner,
           Mounted \/ ~Busy', Proper(mem'.block.records),
           pc' \in TableSteps => \A f \in Fds : mem'.table.inode[f] \in Linked
    PROVE  DiskInv'
<1>1. /\ KeepsTree /\ inodeMask' = inodeMask /\ blockMask' = blockMask
      /\ inodes' = inodes /\ blocks' = blocks /\ fdToInode' = fdToInode /\ Mounted' = Mounted
  BY SameDiskKeepsTree
<1>2. Links' = Links /\ Linked' = Linked /\ TreeOnDisk'
  BY <1>1, TreeKept DEF DiskInv, TreeOnDisk
<1>3. UnmountedInv'
  BY <1>1, <1>2 DEF DiskInv, UnmountedInv
<1>4. OwnedInv'
  <2>1. CASE Mounted
    BY <1>1, <1>2, <2>1, OwnedKept DEF DiskInv
  <2>2. CASE ~Mounted
    BY <1>1, <2>2 DEF OwnedInv
  <2> QED
    BY <2>1, <2>2
<1>5. RecordsInv'
  BY <1>1 DEF DiskInv, RecordsInv
<1>6. OpenedInv'
  BY <1>1, <1>2 DEF DiskInv, OpenedInv
<1>7. Prefix(inodeMask)'
  BY <1>1 DEF DiskInv, Prefix
<1> QED
  BY <1>2, <1>3, <1>4, <1>5, <1>6, <1>7 DEF DiskInv, TreeOnDisk

\* After a settled image a command goes on that decides nothing.
LEMMA CalmKeeps ==
    ASSUME TypeOK, DiskInv, Settled, UNCHANGED diskVars,
           mem'.op \notin {"init", "write"} \/ mem'.blockMask = blockMask,
           pc' \notin {"grow_info", "grow_ids", "write_info"},
           Mounted \/ ~Busy', Proper(mem'.block.records),
           pc' \in TableSteps => \A f \in Fds : mem'.table.inode[f] \in Linked
    PROVE  DiskInv'
<1>1. blockMask' = blockMask /\ inodes' = inodes /\ blocks' = blocks
  BY SameDiskKeepsTree
<1>2. ASSUME Mounted
      PROVE  /\ Mask' = Mask
             /\ \A i \in Linked : InodeOf(i)' = InodeOf(i)
             /\ \A b \in Mask : BlockOf(b)'.id = BlockOf(b).id /\ BlockOf(b)'.owner = BlockOf(b).owner
  <2>1. Mask' = Mask
    BY <1>1, <1>2 DEF Settled, Mask
  <2>2. \A i \in Linked : InodeOf(i)' = InodeOf(i)
    BY <1>1, <1>2 DEF Settled, InodeOf
  <2>3. \A b \in Mask : BlockOf(b)'.id = BlockOf(b).id /\ BlockOf(b)'.owner = BlockOf(b).owner
    BY <1>1, <1>2 DEF Settled, BlockOf
  <2> QED
    BY <2>1, <2>2, <2>3
<1> QED
  BY <1>2, QuietKeeps

\* What is left of ProcessInv for each kind of command.
LEMMA IdleProcess ==
    ASSUME NEW status \in {"idle", "dead", "stuck"}, End(status)
    PROVE  ProcessInv' /\ Proper(mem'.block.records) /\ ~Busy'
<1>1. pc' = status /\ mem'.op = "none" /\ mem'.block = ZeroBlock
  BY DEF End, NoMem
<1>2. Proper(mem'.block.records)
  BY <1>1, BlocksAssumption DEF Proper, Unique, ZeroBlock
<1> QED
  BY <1>1, <1>2 DEF ProcessInv, RestInv, WalkInv, CreateInv, InitInv, WriteInv,
                    TableCommandInv, Busy, PathCommands

\* A command ends, and leaves a settled image as it is.
LEMMA EndKeeps ==
    ASSUME TypeOK, DiskInv, Settled, UNCHANGED diskVars,
           NEW status \in {"idle", "dead", "stuck"}, End(status)
    PROVE  TreeInv'
<1>1. ProcessInv' /\ Proper(mem'.block.records) /\ ~Busy'
  BY IdleProcess
<1>2. pc' = status /\ mem'.op = "none"
  BY DEF End, NoMem
<1>3. DiskInv'
  BY <1>1, <1>2, CalmKeeps DEF TableSteps
<1> QED
  BY <1>1, <1>3 DEF TreeInv

LEMMA TableProcess ==
    ASSUME mem'.op \in {"open", "close", "lseek", "read"}, pc' \in TableSteps \cup {"read_loop"}
    PROVE  ProcessInv'
BY DEF ProcessInv, RestInv, WalkInv, CreateInv, InitInv, WriteInv,
       TableCommandInv, Busy, TableSteps

LEMMA WalkProcess ==
    ASSUME mem'.op \in PathCommands, pc' = "walk", WalkInv'
    PROVE  ProcessInv'
BY DEF ProcessInv, RestInv, CreateInv, InitInv, WriteInv,
       TableCommandInv, Busy, PathCommands, CreateSteps

LEMMA CreateProcess ==
    ASSUME mem'.op \in {"mkdir", "touch"}, pc' \in CreateSteps,
           NodeInv', ProgressInv', RecordInv'
    PROVE  ProcessInv'
BY DEF ProcessInv, RestInv, WalkInv, CreateInv, InitInv, WriteInv,
       TableCommandInv, Busy, CreateSteps

LEMMA InitProcess ==
    ASSUME mem'.op = "init", InitInv'
    PROVE  ProcessInv'
BY DEF ProcessInv, RestInv, WalkInv, CreateInv, InitInv, WriteInv,
       TableCommandInv, Busy, ReserveSteps

LEMMA WriteProcess ==
    ASSUME mem'.op = "write", WriteInv'
    PROVE  ProcessInv'
BY DEF ProcessInv, RestInv, WalkInv, CreateInv, InitInv, WriteInv,
       TableCommandInv, Busy, LoopSteps, WriteSteps, TableSteps

----------------------------------------------------------------------------
(* Directories and tables.                                                 *)

LEMMA DirParts ==
    ASSUME TypeOK, DiskInv, Mounted, NEW i \in Linked, ~inodes[i].isFile
    PROVE  /\ inodes[i].ids[0] \in BlockIds /\ DirBlock(i) \in BlockContents
           /\ Proper(DirBlock(i).records) /\ Dots(i, DirBlock(i).records)
           /\ HasName(DirBlock(i), Dot) /\ HasName(DirBlock(i), DotDot)
<1>1. i \in InodeIds
  BY LinkedType
<1>2. inodes[i].ids[0] \in BlockIds
  BY <1>1, DiskParts, InodeParts
<1>3. DirBlock(i) \in BlockContents /\ Proper(DirBlock(i).records)
  BY <1>2, DiskParts DEF DirBlock, DiskInv, RecordsInv
<1>4. Dots(i, DirBlock(i).records)
  BY DEF DiskInv, DirsInv
<1>5. 1 \in DOMAIN DirBlock(i).records /\ 2 \in DOMAIN DirBlock(i).records
  <2>1. Len(DirBlock(i).records) >= 2
    BY <1>4 DEF Dots
  <2> QED
    BY <1>3, <2>1, BlockParts
<1>6. /\ DirBlock(i).records[1].name = Dot /\ DirBlock(i).records[2].name = DotDot
  BY <1>4 DEF Dots
<1>7. HasName(DirBlock(i), Dot) /\ HasName(DirBlock(i), DotDot)
  BY <1>5, <1>6 DEF HasName
<1> QED
  BY <1>2, <1>3, <1>4, <1>7

\* A name that is looked up in a directory of the tree leads into the tree.
LEMMA LookupLinked ==
    ASSUME TypeOK, DiskInv, Mounted, NEW i \in Linked, ~inodes[i].isFile,
           NEW name \in AllNames \ {NoName}, HasName(DirBlock(i), name)
    PROVE  Lookup(DirBlock(i), name) \in Linked
<1> DEFINE records == DirBlock(i).records
<1>1. /\ inodes[i].ids[0] \in BlockIds /\ DirBlock(i) \in BlockContents
      /\ Proper(records) /\ Dots(i, records)
  BY DirParts
<1>2. PICK k \in DOMAIN records : records[k].name = name /\ Lookup(DirBlock(i), name) = records[k].inode
  BY <1>1, LookupFinds
<1>3. CASE name \in Names
  <2>1. IsLink(inodes[i].ids[0], k)
    BY <1>2, <1>3 DEF IsLink, DirBlock
  <2>2. blocks[inodes[i].ids[0]].records[k].inode \in Linked
    BY <1>1, <2>1, LinkIs DEF DiskInv
  <2> QED
    BY <1>2, <2>2 DEF DirBlock
<1>4. 1 \in DOMAIN records /\ 2 \in DOMAIN records
  <2>1. Len(records) >= 2
    BY <1>1 DEF Dots
  <2> QED
    BY <1>1, <2>1, BlockParts
<1> HIDE DEF records
<1>5. CASE name = Dot
  <2>1. k = 1
    <3>1. records[1].name = Dot
      BY <1>1 DEF Dots
    <3>2. Dot # NoName
      BY DEF Dot, NoName
    <3> QED
      BY <1>1, <1>2, <1>4, <1>5, <3>1, <3>2 DEF Proper, Unique
  <2> QED
    BY <1>1, <1>2, <2>1 DEF Dots
<1>6. CASE name = DotDot
  <2>1. k = 2
    BY <1>1, <1>2, <1>4, <1>6 DEF Proper, Unique, Dots, NoName, DotDot
  <2> QED
    BY <1>1, <1>2, <2>1 DEF Dots
<1> QED
  BY <1>3, <1>5, <1>6 DEF AllNames

\* No command puts an inode in the table that is not in the tree.
LEMMA TableLinked ==
    ASSUME TypeOK, OpenedInv
    PROVE  /\ DiskTable \in Tables /\ DiskTable.inode = fdToInode
           /\ \A f, g \in Fds : FreeDescriptor(DiskTable, f).inode[g] \in Linked
           /\ \A f, g \in Fds, pos \in Nat : SetPosition(DiskTable, f, pos).inode[g] \in Linked
           /\ \A inode \in Linked, g \in Fds :
                ~AllReserved(DiskTable) => ReserveDescriptor(DiskTable, inode).inode[g] \in Linked
<1>1. DiskTable \in Tables /\ DiskTable.inode = fdToInode
  BY DEF TypeOK, DiskTypeOK, DiskTable, Tables
<1>2. DiskTable.inode \in [Fds -> InodeIds] /\ \A g \in Fds : DiskTable.inode[g] \in Linked
  BY <1>1 DEF OpenedInv, Tables
<1>3. 0 \in Linked
  BY LinkedType DEF RootInode
<1>4. \A f, g \in Fds : FreeDescriptor(DiskTable, f).inode[g] \in Linked
  BY <1>2, <1>3 DEF FreeDescriptor
<1>5. \A f, g \in Fds, pos \in Nat : SetPosition(DiskTable, f, pos).inode[g] \in Linked
  <2>1. \A f \in Fds, pos \in Nat : SetPosition(DiskTable, f, pos).inode = DiskTable.inode
    BY <1>1 DEF SetPosition, Tables
  <2> QED
    BY <1>2, <2>1
<1>6. ASSUME NEW inode \in Linked, NEW g \in Fds, ~AllReserved(DiskTable)
      PROVE  ReserveDescriptor(DiskTable, inode).inode[g] \in Linked
  BY <1>2, <1>6 DEF ReserveDescriptor
<1> QED
  BY <1>1, <1>4, <1>5, <1>6

----------------------------------------------------------------------------
(* Commands given at the prompt.                                           *)

LEMMA PromptSettled ==
    ASSUME TypeOK, TreeInv, ~Busy
    PROVE  Settled
<1>1. mem.op = "none"
  BY DEF TreeInv, ProcessInv, RestInv
<1> QED
  BY <1>1, SettledOutside DEF TreeInv, Window

LEMMA NoMemParts ==
    Proper(NoMem.block.records)
BY BlocksAssumption DEF NoMem, Proper, Unique, ZeroBlock

LEMMA MountFailsKeeps ==
    ASSUME TypeOK, TreeInv, MountFails
    PROVE  TreeInv'
<1>1. Settled
  BY PromptSettled DEF MountFails, Busy
<1> QED
  BY <1>1, EndKeeps DEF MountFails, Spin, Die, TreeInv

LEMMA ResolveKeeps ==
    ASSUME TypeOK, TreeInv,
           NEW op \in PathCommands, NEW path \in Seq(AllNames), NEW name \in AllNames,
           op # "ls" => name # NoName /\ \A k \in DOMAIN path : path[k] # NoName,
           Resolve(op, path, name)
    PROVE  TreeInv'
<1>1. Settled
  BY PromptSettled DEF Resolve, Busy
<1>2. /\ pc' = "walk" /\ Mounted /\ UNCHANGED diskVars
      /\ mem'.op = op /\ mem'.path = path /\ mem'.name = name /\ mem'.dir = RootInode
      /\ mem'.block = NoMem.block
  BY DEF Resolve, Continue, NoMem
<1>3. DiskInv'
  BY <1>1, <1>2, NoMemParts, CalmKeeps DEF TreeInv, PathCommands, TableSteps
<1>4. WalkInv'
  BY <1>2 DEF WalkInv, Linked
<1> QED
  BY <1>2, <1>3, <1>4, WalkProcess DEF TreeInv

LEMMA TableCommandKeeps ==
    ASSUME TypeOK, TreeInv, NEW f \in Fds,
           Close(f) \/ (\E pos \in Positions : Lseek(f, pos))
    PROVE  TreeInv'
<1>1. Settled
  BY PromptSettled DEF Close, Lseek, Busy
<1>2. /\ pc' = "table_reserved" /\ Mounted /\ UNCHANGED diskVars
      /\ mem'.op \in {"close", "lseek"} /\ mem'.block = NoMem.block
  BY DEF Close, Lseek, Continue, NoMem
<1>3. \A g \in Fds : mem'.table.inode[g] \in Linked
  <2>1. \/ mem'.table = FreeDescriptor(DiskTable, f)
        \/ \E pos \in Nat : mem'.table = SetPosition(DiskTable, f, pos)
    BY ExtFSAssumption DEF Close, Lseek, Continue, NoMem
  <2>2. OpenedInv
    BY DEF TreeInv, DiskInv
  <2> QED
    BY <2>1, <2>2, TableLinked
<1>4. DiskInv'
  BY <1>1, <1>2, <1>3, NoMemParts, CalmKeeps DEF TreeInv
<1> QED
  BY <1>2, <1>4, TableProcess DEF TreeInv, TableSteps

LEMMA ReadCommandKeeps ==
    ASSUME TypeOK, TreeInv, NEW f \in Fds, NEW size \in Sizes,
           Transfer("read", "read_loop", f, size)
    PROVE  TreeInv'
<1>1. Settled
  BY PromptSettled DEF Transfer, Busy
<1>2. /\ pc' = "read_loop" /\ Mounted /\ UNCHANGED diskVars
      /\ mem'.op = "read" /\ mem'.block = NoMem.block
  BY DEF Transfer, Continue, NoMem
<1>3. DiskInv'
  BY <1>1, <1>2, NoMemParts, CalmKeeps DEF TreeInv, TableSteps
<1> QED
  BY <1>2, <1>3, TableProcess DEF TreeInv

LEMMA WriteCommandKeeps ==
    ASSUME TypeOK, TreeInv, NEW f \in Fds, NEW size \in Sizes,
           Transfer("write", "write_loop", f, size)
    PROVE  TreeInv'
<1>1. Settled
  BY PromptSettled DEF Transfer, Busy
<1> DEFINE i == fdToInode[f]
<1>2. /\ pc' = "write_loop" /\ Mounted /\ UNCHANGED diskVars
      /\ mem'.op = "write" /\ mem'.block = NoMem.block /\ mem'.fd = f
      /\ mem'.inode = inodes[i]
      /\ mem'.inodeMask = inodeMask /\ mem'.blockMask = blockMask
  BY DEF Transfer, Continue, NoMem
<1>3. DiskInv'
  BY <1>1, <1>2, NoMemParts, CalmKeeps DEF TreeInv, TableSteps
<1>4. i \in Linked /\ inodes[i].id = i /\ inodes[i].count # 0
  <2>1. i \in Linked
    BY DEF TreeInv, DiskInv, OpenedInv
  <2>2. Owns(i, inodes[i])
    BY <1>1, <1>2, <2>1 DEF TreeInv, DiskInv, OwnedInv, Settled
  <2> QED
    BY <2>1, <2>2 DEF Owns
<1>5. /\ inodes' = inodes /\ inodeMask' = inodeMask /\ blockMask' = blockMask
      /\ fdToInode' = fdToInode /\ Linked' = Linked
  BY <1>2, SameDiskKeepsTree, LinksKept DEF KeepsTree
<1> HIDE DEF i
<1>6. CopyInv'
  BY <1>2, <1>4, <1>5 DEF CopyInv, i
<1>7. BlockInv' /\ GrownInv'
  BY <1>2, <1>5 DEF BlockInv, GrownInv
<1>8. WriteInv'
  BY <1>2, <1>5, <1>6, <1>7 DEF WriteInv, LoopSteps
<1> QED
  BY <1>2, <1>3, <1>8, WriteProcess DEF TreeInv

\* init throws everything away before it writes a byte, whatever that was.
LEMMA InitFsMends ==
    ASSUME InitFs
    PROVE  TreeInv'
<1>1. /\ image' = "empty" /\ inodeMask' = {} /\ blockMask' = {}
      /\ fdToInode' = [f \in Fds |-> 0]
      /\ blocks' = [b \in BlockIds |-> ZeroBlock]
      /\ pc' = "format_superblock" /\ mem'.op = "init" /\ mem'.block = NoMem.block
      /\ mem'.inodeMask = {} /\ mem'.blockMask = {}
  BY DEF InitFs, Continue, NoMem, EmptyTable
<1>2. ~Mounted'
  BY <1>1 DEF Mounted
<1>3. \A b \in BlockIds : blocks'[b].records = <<>>
  BY <1>1 DEF ZeroBlock
<1>4. Links' = {} /\ Linked' = {RootInode}
  BY <1>3 DEF Links, Linked
<1>5. \A f \in Fds : fdToInode'[f] = RootInode
  BY <1>1 DEF RootInode
<1>6. RecordsInv'
  BY <1>1, <1>3, NoMemParts, BlocksAssumption DEF RecordsInv, Proper, Unique
<1>7. DiskInv'
  BY <1>1, <1>2, <1>4, <1>5, <1>6
     DEF DiskInv, UnmountedInv, OwnedInv, DirsInv, OpenedInv, Prefix, LinksFormTree, DotsAgree,
         TableSteps
<1>8. InitInv'
  BY <1>1, <1>4, <1>5 DEF InitInv, ReserveSteps
<1> QED
  BY <1>1, <1>7, <1>8, InitProcess DEF TreeInv

LEMMA CommandKeeps == TypeOK /\ TreeInv /\ Command => TreeInv'
<1> SUFFICES ASSUME TypeOK, TreeInv, Command PROVE TreeInv'
  OBVIOUS
<1>1. CASE MountFails
  BY <1>1, MountFailsKeeps
<1>2. CASE InitFs
  BY <1>2, InitFsMends
<1>3. CASE \E path \in Paths : Resolve("ls", path, NoName)
  BY <1>3, ResolveKeeps, ExtFSAssumption DEF PathCommands, AllNames
<1>4. CASE \E op \in PathCommands \ {"ls"}, path \in SplitPaths, name \in AllNames \ {NoName} :
                Resolve(op, path, name)
  BY <1>4, ResolveKeeps, ExtFSAssumption DEF SplitPaths
<1>5. CASE \E f \in Fds : Close(f) \/ \E pos \in Positions : Lseek(f, pos)
  BY <1>5, TableCommandKeeps
<1>6. CASE \E f \in Fds, size \in Sizes : Transfer("read", "read_loop", f, size)
  BY <1>6, ReadCommandKeeps
<1>7. CASE \E f \in Fds, size \in Sizes : Transfer("write", "write_loop", f, size)
  BY <1>7, WriteCommandKeeps
<1> QED
  BY <1>1, <1>2, <1>3, <1>4, <1>5, <1>6, <1>7 DEF Command

----------------------------------------------------------------------------
(* Commands that end, of themselves or not.                                *)

LEMMA EndingKeeps ==
    ASSUME TypeOK, TreeInv, ~Window \/ ~(Crash \/ WriteFails), Crash \/ WriteFails \/ Restart
    PROVE  TreeInv'
<1>1. UNCHANGED diskVars
  BY DEF Crash, WriteFails, Restart
<1>2. Settled
  <2>1. CASE Crash \/ WriteFails
    BY <2>1, SettledOutside DEF TreeInv
  <2>2. CASE Restart
    BY <2>2, PromptSettled DEF Restart, Busy
  <2> QED
    BY <2>1, <2>2
<1>3. Die \/ Return
  BY DEF Crash, WriteFails, Restart, UndefinedBehaviour
<1> QED
  BY <1>1, <1>2, <1>3, EndKeeps DEF Die, Return, TreeInv

----------------------------------------------------------------------------
(* The path walk, and what follows it.                                     *)

LEMMA WalkSettled ==
    ASSUME TypeOK, TreeInv, pc = "walk"
    PROVE  Settled /\ Mounted /\ mem.op \in PathCommands /\ Proper(mem.block.records)
<1>1. mem.op \in PathCommands
  BY DEF TreeInv, ProcessInv, WalkInv
<1>2. Mounted
  BY <1>1 DEF TreeInv, DiskInv, UnmountedInv, Busy, PathCommands
<1> QED
  BY <1>1, <1>2, SettledOutside DEF TreeInv, Window, PathCommands, DiskInv, RecordsInv

LEMMA DirUnreadableKeeps == TypeOK /\ TreeInv /\ (DirUnreadable \/ List) => TreeInv'
<1> SUFFICES ASSUME TypeOK, TreeInv, DirUnreadable \/ List PROVE TreeInv'
  OBVIOUS
<1>1. Settled
  BY WalkSettled DEF DirUnreadable, List, DirReadable
<1> QED
  BY <1>1, EndKeeps DEF DirUnreadable, List, Return, Die, Spin, TreeInv

LEMMA WalkKeeps == TypeOK /\ TreeInv /\ Walk => TreeInv'
<1> SUFFICES ASSUME TypeOK, TreeInv, Walk PROVE TreeInv'
  OBVIOUS
<1>1. /\ Settled /\ Mounted /\ mem.op \in PathCommands /\ Proper(mem.block.records)
      /\ UNCHANGED diskVars
  BY WalkSettled DEF Walk, DirReadable
<1>2. CASE Return
  BY <1>1, <1>2, EndKeeps DEF Return, TreeInv
<1>3. CASE /\ HasName(DirBlock(mem.dir), Head(mem.path))
           /\ Continue("walk", [mem EXCEPT !.path = Tail(@),
                                           !.dir = Lookup(DirBlock(mem.dir), Head(mem.path))])
  <2>1. /\ mem \in Memory /\ mem.path \in Seq(AllNames) /\ mem.path # <<>>
    BY MemoryParts DEF Walk, Memory
  <2>2. /\ pc' = "walk" /\ mem'.op = mem.op /\ mem'.block = mem.block /\ mem'.name = mem.name
        /\ mem'.path = Tail(mem.path)
        /\ mem'.dir = Lookup(DirBlock(mem.dir), Head(mem.path))
    BY <1>3, <2>1 DEF Continue, Memory
  <2>3. DiskInv'
    BY <1>1, <2>2, CalmKeeps DEF TreeInv, PathCommands, TableSteps
  <2>4. ASSUME mem.op # "ls"
        PROVE  /\ mem'.dir \in Linked'
               /\ mem'.name # NoName /\ \A k \in DOMAIN mem'.path : mem'.path[k] # NoName
    <3>1. /\ mem.dir \in Linked /\ mem.name # NoName
          /\ \A k \in DOMAIN mem.path : mem.path[k] # NoName
      BY <2>4 DEF TreeInv, ProcessInv, WalkInv, Walk, DirReadable
    <3>2. Head(mem.path) \in AllNames \ {NoName}
      BY <2>1, <3>1
    <3>3. ~inodes[mem.dir].isFile
      BY DEF Walk, DirReadable
    <3>4. mem'.dir \in Linked
      BY <1>1, <1>3, <2>2, <3>1, <3>2, <3>3, LookupLinked DEF TreeInv
    <3>5. Linked' = Linked
      BY <1>1, SameDiskKeepsTree, LinksKept DEF KeepsTree
    <3>6. \A k \in DOMAIN Tail(mem.path) : Tail(mem.path)[k] # NoName
      BY <2>1, <3>1
    <3> QED
      BY <2>2, <3>1, <3>4, <3>5, <3>6
  <2>5. WalkInv'
    BY <1>1, <2>2, <2>4 DEF WalkInv
  <2> QED
    BY <1>1, <2>2, <2>3, <2>5, WalkProcess DEF TreeInv
<1> QED
  BY <1>2, <1>3 DEF Walk

LEMMA OpenKeeps == TypeOK /\ TreeInv /\ Open => TreeInv'
<1> SUFFICES ASSUME TypeOK, TreeInv, Open PROVE TreeInv'
  OBVIOUS
<1> DEFINE inode == Lookup(DirBlock(mem.dir), mem.name)
<1>1. /\ Settled /\ Mounted /\ Proper(mem.block.records) /\ UNCHANGED diskVars
  BY WalkSettled DEF Open, DirReadable
<1>2. CASE Return
  BY <1>1, <1>2, EndKeeps DEF Return, TreeInv
<1>3. CASE /\ HasName(DirBlock(mem.dir), mem.name) /\ ~AllReserved(DiskTable)
           /\ Continue("table_reserved", [mem EXCEPT !.table = ReserveDescriptor(DiskTable, inode)])
  <2>1. mem.op = "open" /\ mem.name \in AllNames /\ mem \in Memory /\ ~inodes[mem.dir].isFile
    BY MemoryParts DEF Open, DirReadable
  <2>2. mem.dir \in Linked /\ mem.name # NoName
    BY <2>1 DEF TreeInv, ProcessInv, WalkInv, Open, DirReadable
  <2>3. inode \in Linked
    BY <1>1, <1>3, <2>1, <2>2, LookupLinked DEF TreeInv
  <2> HIDE DEF inode
  <2>4. /\ pc' = "table_reserved" /\ mem'.op = "open" /\ mem'.block = mem.block
        /\ mem'.table = ReserveDescriptor(DiskTable, inode)
    BY <1>3, <2>1 DEF Continue, Memory
  <2>5. \A g \in Fds : mem'.table.inode[g] \in Linked
    BY <1>3, <2>3, <2>4, TableLinked DEF TreeInv, DiskInv
  <2>6. DiskInv'
    BY <1>1, <2>4, <2>5, CalmKeeps DEF TreeInv
  <2> QED
    BY <2>4, <2>6, TableProcess DEF TreeInv, TableSteps
<1> QED
  BY <1>2, <1>3 DEF Open

----------------------------------------------------------------------------
(* mkdir and touch: what is reserved.                                      *)

\* The id that is found is the first that is free.
LEMMA FirstFreeIsFirst ==
    ASSUME NEW count \in Nat, NEW mask, FirstFree(count, mask) # count
    PROVE  \A other \in 0 .. (count - 1) : other < FirstFree(count, mask) => other \in mask
<1> DEFINE S == (0 .. (count - 1)) \ mask
<1>1. S # {}
  BY DEF FirstFree
<1>2. S \in SUBSET Nat
  OBVIOUS
<1>3. PICK x \in S : \A y \in S : x <= y
  BY <1>1, <1>2, LeastNat
<1>4. FirstFree(count, mask) = CHOOSE id \in S : \A other \in S : id <= other
  BY <1>1 DEF FirstFree
<1>5. FirstFree(count, mask) \in S /\ \A other \in S : FirstFree(count, mask) <= other
  BY <1>3, <1>4
<1> QED
  BY <1>5

LEMMA ReserveFirst ==
    ASSUME TypeOK, Prefix(inodeMask), NEW i, i = ReserveInode(inodeMask), i # InodesCount
    PROVE  /\ i \in InodeIds \ inodeMask /\ Prefix(inodeMask \cup {i})
           /\ \A j \in inodeMask : j < i
<1>1. i \in InodeIds \ inodeMask /\ inodeMask \subseteq InodeIds
  BY ReserveType, DiskParts
<1>2. \A j \in InodeIds : j < i => j \in inodeMask
  BY FirstFreeIsFirst, MaskSizesAssumption DEF ReserveInode, InodeIds
<1>3. Prefix(inodeMask \cup {i})
  BY <1>2 DEF Prefix
<1>4. \A j \in inodeMask : j < i
  BY <1>1 DEF Prefix, InodeIds
<1> QED
  BY <1>1, <1>3, <1>4

LEMMA LinkedReserved ==
    ASSUME LinksFormTree, Mounted
    PROVE  Linked \subseteq inodeMask
BY DEF LinksFormTree, Linked, Mounted

\* The two blocks a new node can have.
LEMMA NewBlockParts ==
    ASSUME NEW b, NEW i
    PROVE  /\ NewBlock(b, i).id = b /\ NewBlock(b, i).owner = i
           /\ NewBlock(b, i).records = <<>>
           /\ Proper(NewBlock(b, i).records) /\ NoLinks(NewBlock(b, i).records)
BY BlocksAssumption DEF NewBlock, ZeroBlock, Proper, Unique, NoLinks

LEMMA DotsBlockParts ==
    ASSUME NEW b, NEW i, NEW p
    PROVE  /\ DotsBlock(b, i, p).id = b /\ DotsBlock(b, i, p).owner = i
           /\ DotsBlock(b, i, p).records = <<[name |-> Dot, inode |-> i], [name |-> DotDot, inode |-> p]>>
           /\ Proper(DotsBlock(b, i, p).records) /\ NoLinks(DotsBlock(b, i, p).records)
<1> DEFINE records == <<[name |-> Dot, inode |-> i], [name |-> DotDot, inode |-> p]>>
<1>1. /\ DotsBlock(b, i, p).id = b /\ DotsBlock(b, i, p).owner = i
      /\ DotsBlock(b, i, p).records = records
  BY DEF DotsBlock, NewBlock, ZeroBlock
<1>2. /\ Len(records) = 2 /\ DOMAIN records = 1 .. 2
      /\ records[1].name = Dot /\ records[2].name = DotDot
  OBVIOUS
<1> HIDE DEF records
<1>3. Dot # DotDot /\ Dot \notin Names /\ DotDot \notin Names
  BY BlocksAssumption DEF Dot, DotDot
<1>4. \A k \in DOMAIN records : k = 1 \/ k = 2
  BY <1>2
<1>5. NoLinks(records)
  BY <1>2, <1>3, <1>4 DEF NoLinks
<1>6. Proper(records)
  BY <1>2, <1>3, <1>4, BlocksAssumption DEF Proper, Unique
<1> QED
  BY <1>1, <1>5, <1>6 DEF records

LEMMA NodeBlockParts ==
    /\ NodeBlock.id = mem.inode.ids[0] /\ NodeBlock.owner = mem.inode.id
    /\ NoLinks(NodeBlock.records) /\ Proper(NodeBlock.records)
<1> DEFINE b == mem.inode.ids[0]
           i == mem.inode.id
<1>1. CASE mem.op = "touch"
  <2>1. NodeBlock = NewBlock(b, i)
    BY <1>1 DEF NodeBlock
  <2> QED
    BY <2>1, NewBlockParts
<1>2. CASE mem.op # "touch"
  <2>1. NodeBlock = DotsBlock(b, i, mem.dir)
    BY <1>2 DEF NodeBlock
  <2> HIDE DEF b, i
  <2>2. DotsBlock(b, i, mem.dir).id = b /\ DotsBlock(b, i, mem.dir).owner = i
    BY DEF DotsBlock, NewBlock, ZeroBlock
  <2>3. NoLinks(DotsBlock(b, i, mem.dir).records)
    BY DotsBlockParts, Zenon
  <2>4. Proper(DotsBlock(b, i, mem.dir).records)
    BY DotsBlockParts, Zenon
  <2> QED
    BY <2>1, <2>2, <2>3, <2>4 DEF b, i
<1> QED
  BY <1>1, <1>2

\* What mkdir and touch build before they write.
LEMMA RegisterParts ==
    ASSUME NEW m \in Memory, NEW i, NEW b, NEW isFile, NEW newBlock,
           Register(m, i, b, isFile, newBlock)
    PROVE  /\ pc' = "new_block" /\ mem'.op = m.op /\ mem'.name = m.name /\ mem'.dir = m.dir
           /\ mem'.inodeMask = m.inodeMask \cup {i} /\ mem'.blockMask = m.blockMask \cup {b}
           /\ mem'.inode = NewInode(i, isFile, b) /\ mem'.block = newBlock
BY DEF Register, Continue, Memory

LEMMA NewInodeParts ==
    ASSUME NEW i, NEW isFile, NEW b
    PROVE  /\ NewInode(i, isFile, b).id = i /\ NewInode(i, isFile, b).isFile = isFile
           /\ NewInode(i, isFile, b).count = 1 /\ NewInode(i, isFile, b).ids[0] = b
<1>1. 0 \in Slots
  BY BlocksAssumption DEF Slots
<1> QED
  BY <1>1 DEF NewInode

LEMMA CreateKeeps == TypeOK /\ TreeInv /\ Create => TreeInv'
<1> SUFFICES ASSUME TypeOK, TreeInv, Create PROVE TreeInv'
  OBVIOUS
<1> DEFINE i == ReserveInode(inodeMask)
           b == ReserveBlock(blockMask)
           isFile == mem.op = "touch"
           newBlock == IF isFile THEN NewBlock(b, i) ELSE DotsBlock(b, i, mem.dir)
           m == [mem EXCEPT !.inodeMask = inodeMask, !.blockMask = blockMask]
<1>1. /\ Settled /\ Mounted /\ Proper(mem.block.records) /\ UNCHANGED diskVars
  BY WalkSettled DEF Create, DirReadable
<1>2. CASE Return \/ UndefinedBehaviour
  BY <1>1, <1>2, EndKeeps DEF Return, Die, UndefinedBehaviour, TreeInv
<1>3. CASE /\ ~HasName(DirBlock(mem.dir), mem.name)
           /\ i # InodesCount /\ b # BlocksCount
           /\ Register(m, i, b, isFile, newBlock)
  <2>1. /\ mem.op \in {"mkdir", "touch"} /\ mem.name \in AllNames /\ mem \in Memory
        /\ ~inodes[mem.dir].isFile
    BY MemoryParts DEF Create, DirReadable
  <2>2. mem.dir \in Linked /\ mem.name # NoName
    BY <2>1 DEF TreeInv, ProcessInv, WalkInv, Create, DirReadable
  <2>3. mem.name \in Names
    BY <1>1, <1>3, <2>1, <2>2, DirParts DEF AllNames, TreeInv
  <2>4. /\ i \in InodeIds \ inodeMask /\ Prefix(inodeMask \cup {i})
        /\ \A j \in inodeMask : j < i
    BY <1>3, ReserveFirst DEF TreeInv, DiskInv
  <2>5. b \in BlockIds \ blockMask
    BY <1>3, ReserveType
  <2>6. Linked \subseteq inodeMask
    BY <1>1, LinkedReserved DEF TreeInv, DiskInv
  <2>7. \A x \in Linked : b \notin BlocksOf(inodes[x])
    <3> SUFFICES ASSUME NEW x \in Linked PROVE b \notin BlocksOf(inodes[x])
      OBVIOUS
    <3>1. Owns(x, inodes[x]) /\ Mask = blockMask
      BY <1>1 DEF TreeInv, DiskInv, OwnedInv, Settled
    <3> QED
      BY <2>5, <3>1 DEF Owns, BlocksOf
  <2> HIDE DEF i, b
  <2>8. m \in Memory
    BY <2>1, DiskParts DEF Memory
  <2>9. /\ m.op = mem.op /\ m.name = mem.name /\ m.dir = mem.dir
        /\ m.inodeMask = inodeMask /\ m.blockMask = blockMask
    BY <2>1 DEF Memory
  <2> HIDE DEF m, newBlock
  <2>10. /\ pc' = "new_block" /\ mem'.op = mem.op /\ mem'.name = mem.name /\ mem'.dir = mem.dir
         /\ mem'.inodeMask = inodeMask \cup {i} /\ mem'.blockMask = blockMask \cup {b}
         /\ mem'.inode = NewInode(i, isFile, b) /\ mem'.block = newBlock
    BY <1>3, <2>8, <2>9, RegisterParts
  <2>11. Proper(newBlock.records)
    BY NewBlockParts, DotsBlockParts DEF newBlock
  <2>12. DiskInv'
    BY <1>1, <2>1, <2>10, <2>11, CalmKeeps DEF TreeInv, TableSteps
  <2>13. /\ inodes' = inodes /\ blocks' = blocks /\ inodeMask' = inodeMask
         /\ blockMask' = blockMask /\ Linked' = Linked
    BY <1>1, SameDiskKeepsTree, LinksKept DEF KeepsTree
  <2>14. /\ mem'.inode.id = i /\ mem'.inode.ids[0] = b
    BY <2>10, NewInodeParts
  <2>15. NodeInv'
    <3>1. /\ i \notin Linked /\ mem.dir < i
      BY <2>2, <2>4, <2>6
    <3>2. mem'.inode = NewInode(i, mem'.op = "touch", b)
      BY <2>10
    <3> QED
      BY <2>1, <2>2, <2>3, <2>7, <2>10, <2>13, <2>14, <3>1, <3>2 DEF NodeInv
  <2>16. ProgressInv'
    <3>1. mem'.block = NodeBlock'
      BY <2>10, <2>14 DEF NodeBlock, newBlock
    <3> QED
      BY <2>4, <2>5, <2>10, <2>13, <2>14, <3>1 DEF ProgressInv, ReserveSteps
  <2>17. RecordInv'
    BY <1>3, <2>10, <2>13 DEF RecordInv, LinkSteps, DirBlock
  <2> QED
    BY <2>1, <2>10, <2>12, <2>15, <2>16, <2>17, CreateProcess DEF TreeInv, CreateSteps
<1> QED
  BY <1>2, <1>3 DEF Create

----------------------------------------------------------------------------
(* init, up to the masks.                                                  *)

LEMMA FormatOp ==
    ASSUME TypeOK, ProcessInv, pc \in {"format_superblock", "format_table"}
    PROVE  mem.op = "init"
<1>1. mem.op \in {"none", "init"} \cup PathCommands \cup FdCommands
  BY DEF TypeOK, ProcessTypeOK, Memory
<1> QED
  BY <1>1 DEF ProcessInv, RestInv, CreateInv, WriteInv, TableCommandInv, Busy,
              PathCommands, FdCommands, CreateSteps, TableSteps, LoopSteps, WriteSteps

LEMMA FormatSuperblockKeeps == TypeOK /\ TreeInv /\ FormatSuperblock => TreeInv'
<1> SUFFICES ASSUME TypeOK, TreeInv, FormatSuperblock PROVE TreeInv'
  OBVIOUS
<1>1. /\ pc = "format_superblock" /\ pc' = "format_table" /\ mem' = mem /\ image' = "formatted"
      /\ inodeMask' = inodeMask /\ blockMask' = blockMask /\ fdToInode' = fdToInode
      /\ inodes' = inodes /\ blocks' = blocks
  BY DEF FormatSuperblock, Continue, maskVars, tableVars
<1>2. mem.op = "init"
  BY <1>1, FormatOp DEF TreeInv
<1>3. /\ Links = {} /\ blockMask = {} /\ inodeMask = {}
      /\ \A f \in Fds : fdToInode[f] = RootInode
  BY <1>1, <1>2 DEF TreeInv, ProcessInv, InitInv
<1>4. Links' = Links /\ Linked' = Linked /\ ~Mounted'
  BY <1>1, <1>3, LinksKept DEF KeepsLinks, SameLinks, Mounted
<1>5. DiskInv'
  BY <1>1, <1>2, <1>3, <1>4
     DEF TreeInv, DiskInv, UnmountedInv, OwnedInv, DirsInv, RecordsInv, OpenedInv, Prefix,
         LinksFormTree, DotsAgree, TableSteps
<1>6. InitInv'
  BY <1>1, <1>2, <1>3, <1>4 DEF InitInv, ReserveSteps, TreeInv, ProcessInv
<1> QED
  BY <1>1, <1>2, <1>5, <1>6, InitProcess DEF TreeInv

LEMMA FirstIds ==
    ReserveInode({}) = RootInode /\ ReserveBlock({}) = RootBlock
<1>1. ASSUME NEW count \in Nat \ {0}
      PROVE  FirstFree(count, {}) = 0
  <2>1. 0 \in 0 .. (count - 1)
    OBVIOUS
  <2>2. FirstFree(count, {}) # count
    <3>1. ~(0 .. (count - 1) \subseteq {})
      BY <2>1
    <3>2. PICK x \in 0 .. (count - 1) : \A y \in 0 .. (count - 1) : x <= y
      BY <2>1
    <3>3. FirstFree(count, {}) = CHOOSE id \in (0 .. (count - 1)) \ {} :
                                    \A other \in (0 .. (count - 1)) \ {} : id <= other
      BY <3>1 DEF FirstFree
    <3>4. FirstFree(count, {}) \in 0 .. (count - 1)
      BY <3>2, <3>3
    <3> QED
      BY <3>4
  <2>3. FirstFree(count, {}) \in 0 .. (count - 1)
    BY <2>2, FirstFreeIsFree
  <2> QED
    BY <2>1, <2>2, <2>3, FirstFreeIsFirst
<1> QED
  BY <1>1, MaskSizesAssumption DEF ReserveInode, ReserveBlock, RootInode, RootBlock

LEMMA FormatTableKeeps == TypeOK /\ TreeInv /\ FormatTable => TreeInv'
<1> SUFFICES ASSUME TypeOK, TreeInv, FormatTable PROVE TreeInv'
  OBVIOUS
<1>1. /\ pc = "format_table" /\ image' = image
      /\ inodeMask' = inodeMask /\ blockMask' = blockMask
      /\ fdToInode' = [f \in Fds |-> RootInode]
      /\ inodes' = inodes /\ blocks' = blocks
      /\ Register(mem, RootInode, RootBlock, FALSE, DotsBlock(RootBlock, RootInode, RootInode))
  BY FirstIds DEF FormatTable, EmptyTable, maskVars, RootInode
<1>2. mem.op = "init"
  BY <1>1, FormatOp DEF TreeInv
<1>3. /\ Links = {} /\ blockMask = {} /\ inodeMask = {} /\ image = "formatted"
  BY <1>1, <1>2 DEF TreeInv, ProcessInv, InitInv
<1>4. Links' = Links /\ Linked' = Linked /\ ~Mounted'
  BY <1>1, <1>3, LinksKept DEF KeepsLinks, SameLinks, Mounted
<1>5. DotsBlock(RootBlock, RootInode, RootInode) \in BlockContents /\ mem \in Memory
  BY SmallIds, BlockTypes, MemoryParts DEF RootBlock, RootInode
<1>6. /\ mem.inodeMask = {} /\ mem.blockMask = {}
  BY <1>1, <1>2 DEF TreeInv, ProcessInv, InitInv, ReserveSteps
<1>7. /\ pc' = "new_block" /\ mem'.op = "init"
      /\ mem'.inodeMask = {RootInode} /\ mem'.blockMask = {RootBlock}
      /\ mem'.inode = NewInode(RootInode, FALSE, RootBlock)
      /\ mem'.block = DotsBlock(RootBlock, RootInode, RootInode)
  <2>1. /\ pc' = "new_block" /\ mem'.op = mem.op
        /\ mem'.inodeMask = mem.inodeMask \cup {RootInode}
        /\ mem'.blockMask = mem.blockMask \cup {RootBlock}
        /\ mem'.inode = NewInode(RootInode, FALSE, RootBlock)
        /\ mem'.block = DotsBlock(RootBlock, RootInode, RootInode)
    BY <1>1, <1>5 DEF Register, Continue, Memory
  <2> QED
    BY <1>2, <1>6, <2>1
<1>8. Proper(mem'.block.records) /\ RootInode \in Linked
  <2>1. Proper(DotsBlock(RootBlock, RootInode, RootInode).records)
    BY DotsBlockParts
  <2> QED
    BY <1>7, <2>1, LinkedType
<1>9. DiskInv'
  BY <1>1, <1>3, <1>4, <1>7, <1>8
     DEF TreeInv, DiskInv, UnmountedInv, OwnedInv, DirsInv, RecordsInv, OpenedInv, Prefix,
         LinksFormTree, DotsAgree, TableSteps
<1>10. InitInv'
  BY <1>1, <1>3, <1>4, <1>7 DEF InitInv, ReserveSteps
<1> QED
  BY <1>7, <1>9, <1>10, InitProcess DEF TreeInv

----------------------------------------------------------------------------
(* mkdir and touch: the new node is written.                               *)

MakeOps == {"mkdir", "touch"}

\* Who is at work at the steps that make a node.
LEMMA MakerOp ==
    ASSUME TypeOK, ProcessInv, pc \in CreateSteps
    PROVE  /\ pc \in {"new_block", "new_inode"} => mem.op \in MakeOps \cup {"init"}
           /\ pc \in {"inodes_mask", "blocks_mask"} => mem.op \in MakeOps \cup {"init", "write"}
           /\ pc \in {"link"} \cup LinkSteps => mem.op \in MakeOps
<1>1. mem.op \in {"none", "init"} \cup PathCommands \cup FdCommands
  BY DEF TypeOK, ProcessTypeOK, Memory
<1> QED
  BY <1>1 DEF ProcessInv, RestInv, InitInv, WriteInv, TableCommandInv, Busy, MakeOps,
              PathCommands, FdCommands, CreateSteps, ReserveSteps, LinkSteps, TableSteps,
              LoopSteps, WriteSteps

\* Between the steps of mkdir and touch the image is settled.
LEMMA MakerSettled ==
    ASSUME TypeOK, TreeInv, mem.op \in MakeOps, pc \in CreateSteps
    PROVE  /\ Settled /\ Mounted /\ Mask = blockMask
           /\ NodeInv /\ ProgressInv /\ RecordInv
           /\ mem.inode.id \in InodeIds /\ mem.inode.ids[0] \in BlockIds
           /\ \A i \in Linked : /\ inodes[i].ids[0] \in blockMask
                                /\ inodes[i].ids[0] # mem.inode.ids[0]
                                /\ inodes[i].id = i /\ inodes[i].count # 0
                                /\ blocks[inodes[i].ids[0]].id = inodes[i].ids[0]
                                /\ blocks[inodes[i].ids[0]].owner = i
<1>1. Settled
  BY SettledOutside DEF TreeInv, Window, MakeOps
<1>2. Mounted
  BY DEF TreeInv, DiskInv, UnmountedInv, Busy, MakeOps, CreateSteps
<1>3. NodeInv /\ ProgressInv /\ RecordInv
  BY DEF TreeInv, ProcessInv, CreateInv, MakeOps
<1>4. mem.inode.id \in InodeIds /\ mem.inode.ids[0] \in BlockIds
  BY MemoryParts, InodeParts
<1>5. Mask = blockMask
  BY <1>1, <1>2 DEF Settled
<1>6. ASSUME NEW i \in Linked
      PROVE  /\ inodes[i].ids[0] \in blockMask
             /\ inodes[i].ids[0] # mem.inode.ids[0]
             /\ inodes[i].id = i /\ inodes[i].count # 0
             /\ blocks[inodes[i].ids[0]].id = inodes[i].ids[0]
             /\ blocks[inodes[i].ids[0]].owner = i
  <2>1. Owns(i, inodes[i])
    BY <1>1, <1>2 DEF TreeInv, DiskInv, OwnedInv, Settled
  <2>2. inodes[i].count \in Nat \ {0}
    <3>1. inodes[i] \in Inodes
      BY LinkedType, DiskParts
    <3> QED
      BY <2>1, <3>1, InodeParts DEF Owns
  <2>3. 0 \in 0 .. (inodes[i].count - 1)
    BY <2>2
  <2>4. inodes[i].ids[0] \in Mask /\ inodes[i].ids[0] \in BlocksOf(inodes[i])
    BY <2>1, <2>3 DEF Owns, BlocksOf
  <2>5. inodes[i].ids[0] # mem.inode.ids[0]
    BY <1>3, <2>4 DEF NodeInv
  <2>6. BlockOf(inodes[i].ids[0]).id = inodes[i].ids[0] /\ BlockOf(inodes[i].ids[0]).owner = i
    BY <2>1, <2>3 DEF Owns
  <2> QED
    BY <1>1, <1>2, <1>5, <2>1, <2>4, <2>5, <2>6 DEF Settled, Owns
<1> QED
  BY <1>1, <1>2, <1>3, <1>4, <1>5, <1>6

\* No link leads from a block that is not the first of a directory of the tree.
LEMMA FreshHasNoLinks ==
    ASSUME TypeOK, RecordsInv, LinksFormTree, NEW b \in BlockIds,
           \A i \in Linked : inodes[i].ids[0] # b
    PROVE  NoLinks(blocks[b].records)
<1> SUFFICES ASSUME NEW k, IsLink(b, k) PROVE FALSE
  BY DEF NoLinks, IsLink
<1>1. <<b, k>> \in Links
  BY LinkIs
<1>2. <<b, k>>[1] = b
  OBVIOUS
<1> QED
  BY <1>1, <1>2 DEF LinksFormTree

\* A step of mkdir or touch that leaves everything linked as it is.
LEMMA MakerKeeps ==
    ASSUME TypeOK, TreeInv, mem.op \in MakeOps, pc \in CreateSteps, KeepsTree,
           fdToInode' = fdToInode, mem'.op \in MakeOps \cup {"none"},
           pc' \in CreateSteps \cup {"idle", "dead", "stuck"},
           blockMask \subseteq blockMask', Prefix(inodeMask)',
           \A i \in Linked : inodes'[i] = inodes[i],
           \A b \in blockMask : blocks'[b].id = blocks[b].id /\ blocks'[b].owner = blocks[b].owner,
           \A b \in BlockIds : Proper(blocks'[b].records), Proper(mem'.block.records)
    PROVE  DiskInv' /\ Links' = Links /\ Linked' = Linked
<1>1. Settled /\ Mounted /\ Mask = blockMask
  BY MakerSettled
<1>2. Links' = Links /\ Linked' = Linked /\ TreeOnDisk' /\ Mounted'
  BY <1>1, TreeKept DEF TreeInv, DiskInv, TreeOnDisk, KeepsTree
<1>3. pc' \notin {"grow_info", "grow_ids", "write_info"} /\ pc' \notin TableSteps
  BY DEF CreateSteps, TableSteps
<1>4. OwnedInv'
  <2>1. Mask' = blockMask'
    BY DEF Mask, MakeOps
  <2>2. \A i \in Linked : InodeOf(i)' = InodeOf(i)
    BY <1>1, <1>3 DEF Settled, InodeOf
  <2>3. \A b \in Mask : BlockOf(b)'.id = BlockOf(b).id /\ BlockOf(b)'.owner = BlockOf(b).owner
    BY <1>1, <1>3 DEF Settled, BlockOf
  <2> QED
    BY <1>1, <1>2, <2>1, <2>2, <2>3, OwnedKept DEF TreeInv, DiskInv
<1>5. RecordsInv' /\ UnmountedInv'
  BY <1>2 DEF RecordsInv, UnmountedInv
<1>6. OpenedInv'
  BY <1>2, <1>3 DEF TreeInv, DiskInv, OpenedInv
<1> QED
  BY <1>2, <1>4, <1>5, <1>6 DEF DiskInv, TreeOnDisk

LEMMA MakerWritesBlock ==
    ASSUME TypeOK, TreeInv, WriteNewBlock, mem.op \in MakeOps
    PROVE  TreeInv' /\ KeepsTree
<1> DEFINE b == mem.inode.ids[0]
<1>1. /\ pc = "new_block" /\ pc' = "new_inode" /\ mem' = mem /\ image' = image
      /\ inodeMask' = inodeMask /\ blockMask' = blockMask /\ fdToInode' = fdToInode
      /\ inodes' = inodes /\ blocks' = [blocks EXCEPT ![mem.block.id] = mem.block]
  BY DEF WriteNewBlock, Continue, maskVars, tableVars
<1>2. /\ Mounted /\ NodeInv /\ ProgressInv /\ RecordInv /\ b \in BlockIds
      /\ \A i \in Linked : inodes[i].ids[0] \in blockMask /\ inodes[i].ids[0] # b
  BY <1>1, MakerSettled DEF CreateSteps
<1>3. /\ mem.block = NodeBlock /\ b \notin blockMask
      /\ mem.inodeMask = inodeMask \cup {mem.inode.id}
      /\ mem.blockMask = blockMask \cup {b} /\ Prefix(mem.inodeMask)
  BY <1>1, <1>2 DEF ProgressInv, ReserveSteps
<1>4. mem.block.id = b /\ NoLinks(mem.block.records)
  BY <1>3, NodeBlockParts
<1> HIDE DEF b
<1>5. blocks \in [BlockIds -> BlockContents]
  BY DEF TypeOK, DiskTypeOK
<1>6. blocks'[b] = mem.block /\ \A c \in BlockIds : c # b => blocks'[c] = blocks[c]
  BY <1>1, <1>2, <1>4, <1>5
<1>7. NoLinks(blocks[b].records)
  BY <1>2, FreshHasNoLinks DEF TreeInv, DiskInv
<1>8. KeepsLinks
  BY <1>4, <1>6, <1>7 DEF KeepsLinks, SameLinks
<1>9. \A i \in Linked : inodes[i].ids[0] \in BlockIds
  BY LinkedType, DiskParts, InodeParts
<1>10. \A i \in Linked : blocks'[inodes[i].ids[0]] = blocks[inodes[i].ids[0]]
  BY <1>2, <1>6, <1>9
<1>11. KeepsTree
  BY <1>1, <1>8, <1>10 DEF KeepsTree, Mounted, DirBlock, SameDots
<1>12. \A c \in BlockIds : Proper(blocks'[c].records)
  BY <1>6 DEF TreeInv, DiskInv, RecordsInv
<1>13. \A c \in blockMask : blocks'[c] = blocks[c]
  BY <1>3, <1>6, DiskParts
<1>14. DiskInv' /\ Linked' = Linked
  BY <1>1, <1>11, <1>12, <1>13, MakerKeeps DEF TreeInv, DiskInv, RecordsInv, CreateSteps, Prefix
<1>15. NodeInv'
  BY <1>1, <1>2, <1>14 DEF NodeInv
<1>16. ProgressInv'
  <2>1. NodeBlock' = NodeBlock
    BY <1>1 DEF NodeBlock
  <2> QED
    BY <1>1, <1>3, <1>6, <2>1 DEF ProgressInv, b, ReserveSteps, Prefix
<1>17. RecordInv'
  <2>1. DirBlock(mem.dir)' = DirBlock(mem.dir)
    BY <1>1, <1>2, <1>10 DEF DirBlock, NodeInv
  <2> QED
    BY <1>1, <1>2, <2>1 DEF RecordInv, LinkSteps, HasName
<1> QED
  BY <1>11, <1>1, <1>14, <1>15, <1>16, <1>17, CreateProcess DEF TreeInv, CreateSteps, MakeOps

LEMMA MakerWritesInode ==
    ASSUME TypeOK, TreeInv, WriteNewInode, mem.op \in MakeOps
    PROVE  TreeInv' /\ KeepsTree
<1> DEFINE n == mem.inode.id
<1>1. /\ pc = "new_inode" /\ pc' = "inodes_mask" /\ mem' = mem /\ image' = image
      /\ inodeMask' = inodeMask /\ blockMask' = blockMask /\ fdToInode' = fdToInode
      /\ blocks' = blocks /\ inodes' = [inodes EXCEPT ![n] = mem.inode]
  BY DEF WriteNewInode, Continue, maskVars, tableVars
<1>2. /\ Mounted /\ NodeInv /\ ProgressInv /\ RecordInv /\ n \in InodeIds
  BY <1>1, MakerSettled DEF CreateSteps
<1>3. n \notin Linked /\ mem.dir \in Linked
  BY <1>2 DEF NodeInv
<1> HIDE DEF n
<1>4. inodes' [n] = mem.inode /\ \A i \in Linked : inodes'[i] = inodes[i]
  BY <1>1, <1>2, <1>3, LinkedType DEF TypeOK, DiskTypeOK
<1>5. KeepsTree
  BY <1>1, <1>4 DEF KeepsTree, KeepsLinks, SameLinks, Mounted, DirBlock, SameDots
<1>6. DiskInv' /\ Linked' = Linked
  BY <1>1, <1>4, <1>5, MakerKeeps DEF TreeInv, DiskInv, RecordsInv, CreateSteps, Prefix
<1>7. NodeInv'
  BY <1>1, <1>2, <1>3, <1>4, <1>6 DEF NodeInv
<1>8. ProgressInv'
  <2>1. NodeBlock' = NodeBlock
    BY <1>1 DEF NodeBlock
  <2> QED
    BY <1>1, <1>2, <1>4, <2>1 DEF ProgressInv, n, ReserveSteps, Prefix
<1>9. RecordInv'
  <2>1. DirBlock(mem.dir)' = DirBlock(mem.dir)
    BY <1>1, <1>3, <1>4 DEF DirBlock
  <2> QED
    BY <1>1, <1>2, <2>1 DEF RecordInv, LinkSteps, HasName
<1> QED
  BY <1>5, <1>1, <1>6, <1>7, <1>8, <1>9, CreateProcess DEF TreeInv, CreateSteps, MakeOps

LEMMA MakerWritesMasks ==
    ASSUME TypeOK, TreeInv, WriteInodesMask \/ WriteBlocksMask, mem.op \in MakeOps
    PROVE  TreeInv' /\ KeepsTree
<1>1. /\ pc \in {"inodes_mask", "blocks_mask"}
      /\ pc' = IF pc = "inodes_mask" THEN "blocks_mask" ELSE "link"
      /\ mem' = mem /\ image' = image
      /\ inodeMask' = IF pc = "inodes_mask" THEN mem.inodeMask ELSE inodeMask
      /\ blockMask' = IF pc = "inodes_mask" THEN blockMask ELSE mem.blockMask
      /\ fdToInode' = fdToInode /\ blocks' = blocks /\ inodes' = inodes
  BY DEF WriteInodesMask, WriteBlocksMask, Continue, maskVars, tableVars, MakeOps
<1>2. /\ Mounted /\ NodeInv /\ ProgressInv /\ RecordInv
      /\ mem.inode.id \in InodeIds /\ mem.inode.ids[0] \in BlockIds
  BY <1>1, MakerSettled DEF CreateSteps
<1>3. /\ mem.block = NodeBlock /\ mem.inode.ids[0] \notin blockMask
      /\ mem.inodeMask = inodeMask \cup {mem.inode.id}
      /\ mem.blockMask = blockMask \cup {mem.inode.ids[0]} /\ Prefix(mem.inodeMask)
      /\ blocks[mem.inode.ids[0]] = NodeBlock /\ inodes[mem.inode.id] = mem.inode
  BY <1>1, <1>2 DEF ProgressInv, ReserveSteps
<1>4. KeepsTree
  BY <1>1, <1>2, <1>3 DEF KeepsTree, KeepsLinks, SameLinks, Mounted, DirBlock, SameDots
<1>5. DiskInv' /\ Linked' = Linked
  <2>1. Prefix(inodeMask)'
    BY <1>1, <1>3 DEF Prefix, TreeInv, DiskInv
  <2>2. blockMask \subseteq blockMask'
    BY <1>1, <1>3
  <2> QED
    BY <1>1, <1>4, <2>1, <2>2, MakerKeeps DEF TreeInv, DiskInv, RecordsInv, CreateSteps
<1>6. NodeInv'
  BY <1>1, <1>2, <1>5 DEF NodeInv
<1>7. ProgressInv'
  <2>1. NodeBlock' = NodeBlock
    BY <1>1 DEF NodeBlock
  <2>2. CASE pc = "inodes_mask"
    BY <1>1, <1>3, <2>1, <2>2 DEF ProgressInv, ReserveSteps, Prefix
  <2>3. CASE pc = "blocks_mask"
    BY <1>1, <1>2, <1>3, <2>1, <2>3 DEF ProgressInv, ReserveSteps
  <2> QED
    BY <1>1, <2>2, <2>3
<1>8. RecordInv'
  BY <1>1, <1>2 DEF RecordInv, LinkSteps, HasName, DirBlock
<1> QED
  BY <1>4, <1>1, <1>5, <1>6, <1>7, <1>8, CreateProcess DEF TreeInv, CreateSteps, MakeOps

----------------------------------------------------------------------------
(* mkdir and touch: the record is appended to the parent's block.          *)

LEMMA LinkKeeps == TypeOK /\ TreeInv /\ Link => TreeInv'
<1> SUFFICES ASSUME TypeOK, TreeInv, Link PROVE TreeInv'
  OBVIOUS
<1>1. pc = "link" /\ mem.op \in MakeOps /\ UNCHANGED diskVars
  BY MakerOp DEF TreeInv, Link, CreateSteps
<1>2. /\ Settled /\ Mounted /\ NodeInv /\ ProgressInv /\ RecordInv
      /\ \A i \in Linked : /\ blocks[inodes[i].ids[0]].id = inodes[i].ids[0]
                           /\ blocks[inodes[i].ids[0]].owner = i
  BY <1>1, MakerSettled DEF CreateSteps
<1>3. CASE Spin \/ Die \/ Return \/ UndefinedBehaviour
  BY <1>1, <1>2, <1>3, EndKeeps DEF Return, Die, Spin, UndefinedBehaviour, TreeInv
<1>4. CASE /\ ~DirectoryFull(DirBlock(mem.dir))
           /\ Continue("link_info", [mem EXCEPT !.block = DirBlock(mem.dir)])
  <2>1. mem \in Memory /\ mem.dir \in Linked /\ ~inodes[mem.dir].isFile
    BY <1>2, MemoryParts DEF NodeInv
  <2>2. /\ pc' = "link_info" /\ mem'.op = mem.op /\ mem'.name = mem.name /\ mem'.dir = mem.dir
        /\ mem'.inode = mem.inode /\ mem'.block = DirBlock(mem.dir)
    BY <1>4, <2>1 DEF Continue, Memory
  <2>3. Proper(DirBlock(mem.dir).records) /\ DirBlock(mem.dir) \in BlockContents
    BY <1>2, <2>1, DirParts DEF TreeInv
  <2>4. DiskInv'
    BY <1>1, <1>2, <2>2, <2>3, CalmKeeps DEF TreeInv, TableSteps, MakeOps
  <2>5. /\ inodes' = inodes /\ blocks' = blocks /\ inodeMask' = inodeMask
        /\ blockMask' = blockMask /\ Linked' = Linked
    BY <1>1, SameDiskKeepsTree, LinksKept DEF KeepsTree
  <2>6. NodeInv'
    BY <1>2, <2>2, <2>5 DEF NodeInv
  <2>7. ProgressInv'
    <3>1. NodeBlock' = NodeBlock
      BY <2>2 DEF NodeBlock
    <3> QED
      BY <1>1, <1>2, <2>2, <2>5, <3>1 DEF ProgressInv, ReserveSteps
  <2>8. RecordInv'
    <3>1. ~HasName(DirBlock(mem.dir), mem.name)
      BY <1>1, <1>2 DEF RecordInv, LinkSteps
    <3>2. Len(DirBlock(mem.dir).records) < MaxRecords
      <4>1. Len(DirBlock(mem.dir).records) \in Nat /\ MaxRecords \in Nat
        BY <2>3, BlockParts, BlocksAssumption
      <4> QED
        BY <1>4, <2>3, <4>1 DEF DirectoryFull, Proper
    <3>3. DirBlock(mem.dir).id = inodes[mem.dir].ids[0] /\ DirBlock(mem.dir).owner = mem.dir
      BY <1>2, <2>1 DEF DirBlock
    <3>4. DirBlock(mem.dir)' = DirBlock(mem.dir)
      BY <2>2, <2>5 DEF DirBlock
    <3> QED
      BY <2>2, <2>5, <3>1, <3>2, <3>3, <3>4 DEF RecordInv, LinkSteps, HasName
  <2> QED
    BY <1>1, <2>2, <2>4, <2>6, <2>7, <2>8, CreateProcess DEF TreeInv, CreateSteps, MakeOps
<1> QED
  BY <1>3, <1>4 DEF Link

LEMMA AppendParts ==
    ASSUME NEW records \in Seq(Records), NEW record \in Records
    PROVE  /\ Append(records, record) \in Seq(Records) /\ Len(records) \in Nat
           /\ Len(Append(records, record)) = Len(records) + 1
           /\ DOMAIN records = 1 .. Len(records)
           /\ DOMAIN Append(records, record) = 1 .. (Len(records) + 1)
           /\ \A k \in DOMAIN records : Append(records, record)[k] = records[k]
           /\ Append(records, record)[Len(records) + 1] = record
OBVIOUS

\* A record without a name adds no link.
LEMMA BlankAppended ==
    ASSUME NEW records \in Seq(Records), NEW record \in Records, record.name = NoName
    PROVE  /\ LinksOf(Append(records, record)) = LinksOf(records)
           /\ \A k \in LinksOf(records) : Append(records, record)[k] = records[k]
<1>1. NoName \notin Names
  BY BlocksAssumption
<1> QED
  BY <1>1, AppendParts DEF LinksOf

\* The records of a directory stay in order when one is appended.
LEMMA ProperAppended ==
    ASSUME NEW records \in Seq(Records), NEW record \in Records,
           Proper(records), Len(records) < MaxRecords,
           record.name = NoName \/ \A k \in DOMAIN records : records[k].name # record.name
    PROVE  Proper(Append(records, record))
<1> DEFINE appended == Append(records, record)
<1>1. /\ Len(records) \in Nat /\ Len(appended) = Len(records) + 1
      /\ DOMAIN records = 1 .. Len(records) /\ DOMAIN appended = 1 .. (Len(records) + 1)
      /\ \A k \in DOMAIN records : appended[k] = records[k]
      /\ appended[Len(records) + 1] = record
  BY AppendParts
<1> HIDE DEF appended
<1>2. Unique(appended)
  <2> SUFFICES ASSUME NEW j \in DOMAIN appended, NEW k \in DOMAIN appended,
                      appended[j].name = appended[k].name, appended[j].name # NoName
               PROVE  j = k
    BY DEF Unique
  <2>1. \A x \in DOMAIN appended : x \in DOMAIN records \/ x = Len(records) + 1
    BY <1>1
  <2>2. CASE j \in DOMAIN records /\ k \in DOMAIN records
    BY <1>1, <2>2 DEF Proper, Unique
  <2>3. CASE j = Len(records) + 1 /\ k = Len(records) + 1
    BY <2>3
  <2>4. CASE j \in DOMAIN records /\ k = Len(records) + 1
    BY <1>1, <2>4
  <2>5. CASE j = Len(records) + 1 /\ k \in DOMAIN records
    BY <1>1, <2>5
  <2> QED
    BY <2>1, <2>2, <2>3, <2>4, <2>5
<1>3. Len(appended) <= MaxRecords
  BY <1>1, BlocksAssumption
<1> QED
  BY <1>2, <1>3 DEF Proper, appended

\* What the block of the parent holds while its record is written.
LEMMA ParentParts ==
    ASSUME TypeOK, TreeInv, pc \in LinkSteps
    PROVE  LET b == mem.block.id
           IN  /\ mem.op \in MakeOps /\ b = inodes[mem.dir].ids[0] /\ b \in BlockIds
               /\ b \in blockMask /\ b # mem.inode.ids[0]
               /\ blocks[b].id = b /\ blocks[b].owner = mem.dir /\ mem.block.owner = mem.dir
               /\ mem.block.records \in Seq(Records) /\ Proper(mem.block.records)
               /\ Len(mem.block.records) < MaxRecords /\ Len(mem.block.records) >= 2
               /\ ~HasName(mem.block, mem.name)
               /\ LinksOf(blocks[b].records) = LinksOf(mem.block.records)
               /\ \A k \in LinksOf(mem.block.records) : blocks[b].records[k] = mem.block.records[k]
               /\ blocks[b].records[1] = mem.block.records[1]
               /\ blocks[b].records[2] = mem.block.records[2]
<1> DEFINE b == mem.block.id
           records == mem.block.records
<1>1. mem.op \in MakeOps
  BY MakerOp DEF TreeInv, LinkSteps, CreateSteps
<1>2. /\ NodeInv /\ RecordInv /\ Mounted
      /\ \A i \in Linked : /\ inodes[i].ids[0] \in blockMask
                           /\ inodes[i].ids[0] # mem.inode.ids[0]
                           /\ blocks[inodes[i].ids[0]].id = inodes[i].ids[0]
                           /\ blocks[inodes[i].ids[0]].owner = i
  BY <1>1, MakerSettled DEF CreateSteps, LinkSteps
<1>3. mem.dir \in Linked /\ ~inodes[mem.dir].isFile
  BY <1>2 DEF NodeInv
<1>4. /\ b = inodes[mem.dir].ids[0] /\ mem.block.owner = mem.dir
      /\ ~HasName(mem.block, mem.name) /\ Len(records) < MaxRecords
      /\ \/ DirBlock(mem.dir).records = records
         \/ \E record \in Records : /\ record.name = NoName
                                    /\ DirBlock(mem.dir).records = Append(records, record)
  BY <1>2 DEF RecordInv
<1>5. b \in blockMask /\ b # mem.inode.ids[0] /\ blocks[b].id = b /\ blocks[b].owner = mem.dir
  BY <1>2, <1>3, <1>4
<1>6. records \in Seq(Records) /\ Proper(records) /\ b \in BlockIds
  BY MemoryParts, BlockParts DEF TreeInv, DiskInv, RecordsInv
<1>7. Dots(mem.dir, DirBlock(mem.dir).records)
  BY <1>2, <1>3, DirParts DEF TreeInv
<1>8. DirBlock(mem.dir) = blocks[b]
  BY <1>4 DEF DirBlock
<1> HIDE DEF b, records
<1>9. CASE blocks[b].records = records
  BY <1>1, <1>4, <1>5, <1>6, <1>7, <1>8, <1>9 DEF b, records, Dots
<1>10. CASE \E record \in Records : /\ record.name = NoName
                                    /\ blocks[b].records = Append(records, record)
  <2>1. PICK record \in Records : /\ record.name = NoName
                                  /\ blocks[b].records = Append(records, record)
    BY <1>10
  <2>2. /\ Len(records) \in Nat
        /\ Len(Append(records, record)) = Len(records) + 1
        /\ DOMAIN records = 1 .. Len(records)
        /\ \A k \in DOMAIN records : Append(records, record)[k] = records[k]
        /\ Append(records, record)[Len(records) + 1] = record
    BY <1>6, AppendParts
  <2>3. DotDot # NoName /\ Append(records, record)[2].name = DotDot
    BY <1>7, <1>8, <2>1 DEF Dots, DotDot, NoName
  <2>4. Len(records) >= 2
    <3>1. Len(records) + 1 >= 2
      BY <1>7, <1>8, <2>1, <2>2 DEF Dots
    <3>2. Len(records) + 1 # 2
      BY <2>1, <2>2, <2>3
    <3> QED
      BY <2>2, <3>1, <3>2
  <2>5. /\ Append(records, record)[1] = records[1]
        /\ Append(records, record)[2] = records[2]
    BY <2>2, <2>4
  <2>6. /\ LinksOf(blocks[b].records) = LinksOf(records)
        /\ \A k \in LinksOf(records) : blocks[b].records[k] = records[k]
    BY <1>6, <2>1, BlankAppended
  <2> QED
    BY <1>1, <1>4, <1>5, <1>6, <2>1, <2>4, <2>5, <2>6 DEF b, records
<1> QED
  BY <1>4, <1>8, <1>9, <1>10

LEMMA LinkBlankKeeps == TypeOK /\ TreeInv /\ (LinkInfo \/ LinkInode) => TreeInv' /\ KeepsTree
<1> SUFFICES ASSUME TypeOK, TreeInv, LinkInfo \/ LinkInode PROVE TreeInv' /\ KeepsTree
  OBVIOUS
<1> DEFINE b == mem.block.id
           records == mem.block.records
<1>1. PICK record \in Records :
          /\ record.name = NoName
          /\ blocks' = [blocks EXCEPT ![b] = [WithRecord(mem.block, record) EXCEPT !.torn = TRUE]]
  <2>1. mem.inode.id \in InodeIds /\ 0 \in InodeIds
    BY MemoryParts, InodeParts, SmallIds
  <2>2. CASE LinkInfo
    <3>1. BlankRecord \in Records /\ BlankRecord.name = NoName
      BY <2>1 DEF BlankRecord, Records, AllNames
    <3> QED
      BY <2>2, <3>1 DEF LinkInfo
  <2>3. CASE LinkInode
    <3>1. /\ [BlankRecord EXCEPT !.inode = mem.inode.id] \in Records
          /\ [BlankRecord EXCEPT !.inode = mem.inode.id].name = NoName
      BY <2>1 DEF BlankRecord, Records, AllNames
    <3> QED
      BY <2>3, <3>1 DEF LinkInode
  <2> QED
    BY <2>2, <2>3
<1>2. /\ pc \in {"link_info", "link_inode"} /\ pc' \in {"link_inode", "link_name"} /\ mem' = mem
      /\ image' = image /\ inodeMask' = inodeMask /\ blockMask' = blockMask
      /\ fdToInode' = fdToInode /\ inodes' = inodes
  BY DEF LinkInfo, LinkInode, Continue, maskVars, tableVars
<1>3. /\ mem.op \in MakeOps /\ b = inodes[mem.dir].ids[0] /\ b \in BlockIds
      /\ b \in blockMask /\ b # mem.inode.ids[0]
      /\ blocks[b].id = b /\ blocks[b].owner = mem.dir /\ mem.block.owner = mem.dir
      /\ records \in Seq(Records) /\ Proper(records)
      /\ Len(records) < MaxRecords /\ Len(records) >= 2
      /\ ~HasName(mem.block, mem.name)
      /\ LinksOf(blocks[b].records) = LinksOf(records)
      /\ \A k \in LinksOf(records) : blocks[b].records[k] = records[k]
      /\ blocks[b].records[1] = records[1] /\ blocks[b].records[2] = records[2]
  BY <1>2, ParentParts DEF LinkSteps
<1>4. /\ Mounted /\ NodeInv /\ ProgressInv /\ RecordInv /\ mem.inode.ids[0] \in BlockIds
  BY <1>2, <1>3, MakerSettled DEF CreateSteps
<1> DEFINE appended == Append(records, record)
<1>5. /\ blocks'[b].id = b /\ blocks'[b].owner = mem.dir /\ blocks'[b].records = appended
      /\ \A c \in BlockIds : c # b => blocks'[c] = blocks[c]
  <2>1. mem.block \in BlockContents /\ blocks \in [BlockIds -> BlockContents]
    BY MemoryParts DEF TypeOK, DiskTypeOK
  <2>2. blocks'[b] = [[mem.block EXCEPT !.records = appended] EXCEPT !.torn = TRUE]
    BY <1>1, <1>3, <2>1 DEF WithRecord
  <2>3. \A c \in BlockIds : c # b => blocks'[c] = blocks[c]
    BY <1>1, <2>1
  <2> QED
    BY <1>3, <2>1, <2>2, <2>3 DEF BlockContents
<1>6. /\ LinksOf(appended) = LinksOf(records)
      /\ \A k \in LinksOf(records) : appended[k] = records[k]
  BY <1>1, <1>3, BlankAppended
<1>7. Proper(appended)
  BY <1>1, <1>3, ProperAppended
<1>8. /\ Len(appended) >= 2 /\ appended[1] = records[1] /\ appended[2] = records[2]
  <2>1. /\ Len(records) \in Nat /\ Len(appended) = Len(records) + 1
        /\ DOMAIN records = 1 .. Len(records)
        /\ \A k \in DOMAIN records : appended[k] = records[k]
    BY <1>1, <1>3, AppendParts
  <2>2. Len(records) >= 2
    BY <1>3
  <2> HIDE DEF records, appended
  <2> QED
    BY <2>1, <2>2
<1> HIDE DEF b, records, appended
<1>9. KeepsLinks
  <2>1. SameLinks(blocks[b], blocks'[b])
    BY <1>3, <1>5, <1>6 DEF SameLinks
  <2> QED
    BY <1>5, <2>1 DEF KeepsLinks, SameLinks
<1>10. KeepsTree
  <2> SUFFICES ASSUME NEW i \in Linked
               PROVE  SameDots(blocks[inodes[i].ids[0]].records, blocks'[inodes[i].ids[0]].records)
    BY <1>2, <1>9 DEF KeepsTree, Mounted, DirBlock
  <2>1. inodes[i].ids[0] \in BlockIds
    BY LinkedType, DiskParts, InodeParts
  <2>2. CASE inodes[i].ids[0] = b
    BY <1>3, <1>5, <1>8, <2>2 DEF SameDots
  <2>3. CASE inodes[i].ids[0] # b
    BY <1>5, <2>1, <2>3 DEF SameDots
  <2> QED
    BY <2>2, <2>3
<1>11. DiskInv' /\ Linked' = Linked
  <2>1. \A c \in BlockIds : Proper(blocks'[c].records)
    BY <1>5, <1>7 DEF TreeInv, DiskInv, RecordsInv
  <2>2. \A c \in blockMask : blocks'[c].id = blocks[c].id /\ blocks'[c].owner = blocks[c].owner
    BY <1>3, <1>5, DiskParts
  <2>3. Proper(mem'.block.records) /\ Prefix(inodeMask)'
    BY <1>2 DEF TreeInv, DiskInv, RecordsInv, Prefix
  <2> QED
    BY <1>2, <1>3, <1>10, <2>1, <2>2, <2>3, MakerKeeps DEF CreateSteps
<1>12. NodeInv'
  BY <1>2, <1>4, <1>11 DEF NodeInv
<1>13. ProgressInv'
  <2>1. NodeBlock' = NodeBlock
    BY <1>2 DEF NodeBlock
  <2>2. blocks'[mem.inode.ids[0]] = blocks[mem.inode.ids[0]]
    BY <1>3, <1>4, <1>5
  <2> QED
    BY <1>2, <1>4, <2>1, <2>2 DEF ProgressInv, ReserveSteps
<1>14. RecordInv'
  <2>1. DirBlock(mem.dir)'.records = Append(mem.block.records, record)
    BY <1>2, <1>3, <1>5 DEF DirBlock, appended, records
  <2>2. ~HasName(mem.block, mem.name)'
    BY <1>2, <1>3 DEF HasName
  <2> QED
    BY <1>1, <1>2, <1>3, <2>1, <2>2 DEF RecordInv, LinkSteps, b, records
<1> QED
  BY <1>10, <1>2, <1>3, <1>11, <1>12, <1>13, <1>14, CreateProcess DEF TreeInv, CreateSteps, MakeOps

\* The last write of mkdir and touch adds the one link that leads to the new node.
LinkAdded(b, new, n, d) ==
    /\ b = mem.block.id /\ new = Len(mem.block.records) + 1 /\ n = mem.inode.id /\ d = mem.dir
    /\ Links' = Links \cup {<<b, new>>} /\ Linked' = Linked \cup {n}
    /\ \A old \in Links : /\ blocks'[old[1]].owner = blocks[old[1]].owner
                          /\ blocks'[old[1]].records[old[2]] = blocks[old[1]].records[old[2]]
                          /\ Child(old)' = Child(old)
    /\ blocks'[b].records[new] = [name |-> mem.name, inode |-> n]
    /\ Child(<<b, new>>)' = n
    /\ blocks'[b].id = b /\ blocks'[b].owner = d
    /\ \A c \in BlockIds : c # b => blocks'[c] = blocks[c]
    /\ SameDots(blocks[b].records, blocks'[b].records)
    /\ Proper(blocks'[b].records)

LEMMA LinkNameLinks ==
    ASSUME TypeOK, TreeInv, LinkName
    PROVE  \E b, new, n, d : LinkAdded(b, new, n, d)
<1>0. PICK b, new, n, d : /\ b = mem.block.id /\ new = Len(mem.block.records) + 1
                          /\ n = mem.inode.id /\ d = mem.dir
  OBVIOUS
<1> DEFINE records == mem.block.records
           record == [name |-> mem.name, inode |-> n]
           appended == Append(records, record)
           link == <<b, new>>
<1>1. /\ pc = "link_name" /\ mem' = NoMem
      /\ blocks' = [blocks EXCEPT ![b] = [WithRecord(mem.block, record) EXCEPT !.torn = FALSE]]
  BY <1>0 DEF LinkName, Return, End
<1>2. /\ mem.op \in MakeOps /\ b \in BlockIds
      /\ mem.block.owner = d /\ blocks[b].owner = d /\ blocks[b].id = b
      /\ records \in Seq(Records) /\ Proper(records)
      /\ Len(records) < MaxRecords /\ Len(records) >= 2
      /\ ~HasName(mem.block, mem.name)
      /\ LinksOf(blocks[b].records) = LinksOf(records)
      /\ \A k \in LinksOf(records) : blocks[b].records[k] = records[k]
      /\ blocks[b].records[1] = records[1] /\ blocks[b].records[2] = records[2]
  BY <1>0, <1>1, ParentParts DEF LinkSteps
<1>3. NodeInv
  BY <1>1, <1>2, MakerSettled DEF CreateSteps
<1>4. record \in Records /\ record.name \in Names
  BY <1>0, <1>3, MemoryParts, InodeParts DEF NodeInv, Records
<1>5. /\ blocks'[b].id = b /\ blocks'[b].owner = d /\ blocks'[b].records = appended
      /\ \A c \in BlockIds : c # b => blocks'[c] = blocks[c]
  <2>1. mem.block \in BlockContents /\ blocks \in [BlockIds -> BlockContents]
    BY MemoryParts DEF TypeOK, DiskTypeOK
  <2>2. blocks'[b] = [[mem.block EXCEPT !.records = appended] EXCEPT !.torn = FALSE]
    BY <1>0, <1>1, <1>2, <2>1 DEF WithRecord
  <2>3. \A c \in BlockIds : c # b => blocks'[c] = blocks[c]
    BY <1>1, <2>1
  <2> HIDE DEF records, record, appended
  <2> QED
    BY <1>0, <1>2, <2>1, <2>2, <2>3 DEF BlockContents
<1>6. Proper(appended)
  BY <1>2, <1>4, ProperAppended DEF HasName
<1>7. /\ Len(records) \in Nat /\ Len(appended) = new /\ new = Len(records) + 1
      /\ DOMAIN records = 1 .. Len(records) /\ DOMAIN appended = 1 .. new
      /\ \A k \in DOMAIN records : appended[k] = records[k]
      /\ appended[new] = record
  BY <1>0, <1>2, <1>4, AppendParts
<1> HIDE DEF records, record, appended
<1>8. /\ LinksOf(appended) = LinksOf(records) \cup {new} /\ new \notin LinksOf(records)
      /\ \A k \in LinksOf(records) : appended[k] = records[k]
  BY <1>4, <1>7 DEF LinksOf
<1>9. SameDots(blocks[b].records, appended)
  BY <1>2, <1>7 DEF SameDots
<1>10. new \in 1 .. MaxRecords
  BY <1>2, <1>7, BlocksAssumption
<1>11. /\ Links = {l \in BlockIds \X (1 .. MaxRecords) : l[2] \in LinksOf(blocks[l[1]].records)}
       /\ Links' = {l \in BlockIds \X (1 .. MaxRecords) : l[2] \in LinksOf(blocks'[l[1]].records)}
  BY DEF Links, LinksOf
<1>12. Links' = Links \cup {link}
  <2>1. ASSUME NEW c \in BlockIds, NEW k \in 1 .. MaxRecords
        PROVE  k \in LinksOf(blocks'[c].records)
                  <=> k \in LinksOf(blocks[c].records) \/ (c = b /\ k = new)
    BY <1>2, <1>5, <1>8
  <2>2. link \in BlockIds \X (1 .. MaxRecords) /\ link[1] = b /\ link[2] = new
    BY <1>2, <1>10
  <2>3. ASSUME NEW l \in BlockIds \X (1 .. MaxRecords)
        PROVE  l[1] = b /\ l[2] = new <=> l = link
    BY <2>2
  <2>4. ASSUME NEW l \in BlockIds \X (1 .. MaxRecords)
        PROVE  l \in Links' <=> l \in Links \cup {link}
    BY <1>11, <2>1, <2>3
  <2> QED
    BY <1>11, <2>2, <2>4
<1>13. ASSUME NEW old \in Links
       PROVE  /\ blocks'[old[1]].owner = blocks[old[1]].owner
              /\ blocks'[old[1]].records[old[2]] = blocks[old[1]].records[old[2]]
  <2>1. old[1] \in BlockIds /\ old[2] \in LinksOf(blocks[old[1]].records)
    BY <1>11
  <2>2. CASE old[1] = b
    BY <1>2, <1>5, <1>8, <2>1, <2>2
  <2>3. CASE old[1] # b
    BY <1>5, <2>1, <2>3
  <2> QED
    BY <2>2, <2>3
<1>14. \A old \in Links : Child(old)' = Child(old)
  BY <1>13 DEF Child
<1>15. blocks'[b].records[new] = record /\ Child(link)' = n
  <2>1. blocks'[b].records[new] = record
    BY <1>5, <1>7
  <2>2. blocks'[link[1]].records[link[2]].inode = n
    BY <2>1 DEF record
  <2> QED
    BY <2>1, <2>2 DEF Child
<1>16. Linked' = Linked \cup {n}
  BY <1>12, <1>14, <1>15 DEF Linked
<1>17. LinkAdded(b, new, n, d)
  BY <1>0, <1>5, <1>6, <1>9, <1>12, <1>13, <1>14, <1>15, <1>16 DEF LinkAdded, records, record, appended
<1> QED
  BY <1>17

LEMMA LinkNameKeeps == TypeOK /\ TreeInv /\ LinkName => TreeInv'
<1> SUFFICES ASSUME TypeOK, TreeInv, LinkName PROVE TreeInv'
  OBVIOUS
<1>0. PICK b, new, n, d : LinkAdded(b, new, n, d)
  BY LinkNameLinks
<1>4. /\ b = mem.block.id /\ n = mem.inode.id /\ d = mem.dir
      /\ Links' = Links \cup {<<b, new>>} /\ Linked' = Linked \cup {n}
      /\ \A old \in Links : /\ blocks'[old[1]].owner = blocks[old[1]].owner
                            /\ Child(old)' = Child(old)
      /\ Child(<<b, new>>)' = n
      /\ blocks'[b].id = b /\ blocks'[b].owner = d
      /\ \A c \in BlockIds : c # b => blocks'[c] = blocks[c]
      /\ SameDots(blocks[b].records, blocks'[b].records)
      /\ Proper(blocks'[b].records)
  BY <1>0 DEF LinkAdded
<1>1. /\ pc = "link_name" /\ pc' = "idle" /\ mem' = NoMem /\ image' = image
      /\ inodeMask' = inodeMask /\ blockMask' = blockMask /\ fdToInode' = fdToInode
      /\ inodes' = inodes
  BY DEF LinkName, Return, End, maskVars, tableVars
<1>2. /\ mem.op \in MakeOps /\ b = inodes[d].ids[0] /\ b \in BlockIds /\ b \in blockMask
      /\ b # mem.inode.ids[0] /\ blocks[b].id = b /\ blocks[b].owner = d
  BY <1>4, <1>1, ParentParts DEF LinkSteps
<1>3. /\ Settled /\ Mounted /\ Mask = blockMask /\ NodeInv /\ ProgressInv
      /\ n \in InodeIds /\ mem.inode.ids[0] \in BlockIds
      /\ \A i \in Linked : inodes[i].ids[0] # mem.inode.ids[0]
  BY <1>4, <1>1, <1>2, MakerSettled DEF CreateSteps
<1>5. PICK first : first = mem.inode.ids[0]
  OBVIOUS
<1>6. /\ d \in Linked /\ ~inodes[d].isFile /\ n \notin Linked /\ d < n
      /\ n \in inodeMask /\ first \in blockMask /\ first \in BlockIds /\ first # b
      /\ inodes[n] = NewInode(n, mem.op = "touch", first)
      /\ blocks'[first] = NodeBlock
      /\ \A i \in Linked : inodes[i].ids[0] # first
  BY <1>1, <1>2, <1>3, <1>4, <1>5 DEF NodeInv, ProgressInv, ReserveSteps
<1>7. /\ inodes[n].id = n /\ inodes[n].count = 1 /\ inodes[n].ids[0] = first
      /\ inodes[n].isFile <=> mem.op = "touch"
  <2> DEFINE isFile == mem.op = "touch"
  <2>1. /\ NewInode(n, isFile, first).id = n /\ NewInode(n, isFile, first).isFile = isFile
        /\ NewInode(n, isFile, first).count = 1 /\ NewInode(n, isFile, first).ids[0] = first
    BY NewInodeParts
  <2> QED
    BY <1>6, <2>1
<1>8. /\ blocks'[first].id = first /\ blocks'[first].owner = n
      /\ mem.op # "touch" =>
            blocks'[first].records = <<[name |-> Dot, inode |-> n], [name |-> DotDot, inode |-> d]>>
  <2>1. NodeBlock.id = first /\ NodeBlock.owner = n
    BY <1>4, <1>5, NodeBlockParts
  <2>2. mem.op # "touch" => NodeBlock = DotsBlock(first, n, d)
    BY <1>4, <1>5 DEF NodeBlock
  <2>3. DotsBlock(first, n, d).records = <<[name |-> Dot, inode |-> n], [name |-> DotDot, inode |-> d]>>
    BY DotsBlockParts
  <2> QED
    BY <1>6, <2>1, <2>2, <2>3
<1>9. \A i \in Linked : SameDots(DirBlock(i).records, blocks'[inodes[i].ids[0]].records)
  <2> SUFFICES ASSUME NEW i \in Linked
               PROVE  SameDots(DirBlock(i).records, blocks'[inodes[i].ids[0]].records)
    OBVIOUS
  <2>1. inodes[i].ids[0] \in BlockIds
    BY LinkedType, DiskParts, InodeParts
  <2>2. CASE inodes[i].ids[0] = b
    BY <1>4, <2>2 DEF DirBlock
  <2>3. CASE inodes[i].ids[0] # b
    BY <1>4, <2>1, <2>3 DEF DirBlock, SameDots
  <2> QED
    BY <2>2, <2>3
<1>10. \A i \in Linked : ~inodes[i].isFile => Dots(i, DirBlock(i).records)
  BY <1>3 DEF TreeInv, DiskInv, DirsInv
<1>11. LinksFormTree'
  <2> SUFFICES ASSUME NEW link \in Links'
               PROVE  /\ blocks'[link[1]].owner \in Linked'
                      /\ ~inodes[blocks'[link[1]].owner].isFile
                      /\ inodes[blocks'[link[1]].owner].ids[0] = link[1]
                      /\ Child(link)' \in inodeMask /\ Child(link)' > blocks'[link[1]].owner
                      /\ \A other \in Links' : Child(other)' = Child(link)' => other = link
    BY <1>1 DEF LinksFormTree
  <2>1. \A old \in Links : Child(old)' \in Linked
    BY <1>4, LinkParts
  <2>2. CASE link \in Links
    <3>1. /\ blocks[link[1]].owner \in Linked /\ ~inodes[blocks[link[1]].owner].isFile
          /\ inodes[blocks[link[1]].owner].ids[0] = link[1]
          /\ Child(link) \in inodeMask /\ Child(link) > blocks[link[1]].owner
          /\ \A other \in Links : Child(other) = Child(link) => other = link
      BY <2>2 DEF TreeInv, DiskInv, LinksFormTree
    <3>2. Child(link)' = Child(link) /\ blocks'[link[1]].owner = blocks[link[1]].owner
      BY <1>4, <2>2
    <3>3. \A other \in Links' : Child(other)' = Child(link)' => other = link
      BY <1>4, <1>6, <2>1, <2>2, <3>1, <3>2
    <3> QED
      BY <1>4, <3>1, <3>2, <3>3
  <2>3. CASE link = <<b, new>>
    <3>1. link[1] = b /\ Child(link)' = n
      BY <1>4, <2>3
    <3>2. n > d
      BY <1>3, <1>6, LinkedType DEF InodeIds
    <3>3. \A other \in Links' : Child(other)' = n => other = link
      BY <1>4, <1>6, <2>1, <2>3
    <3> QED
      BY <1>2, <1>4, <1>6, <3>1, <3>2, <3>3
  <2> QED
    BY <1>4, <2>2, <2>3
<1>12. DirsInv'
  <2> SUFFICES ASSUME NEW i \in Linked', ~inodes[i].isFile
               PROVE  Dots(i, blocks[inodes[i].ids[0]].records)'
    BY <1>1 DEF DirsInv, DirBlock
  <2>1. CASE i \in Linked
    BY <1>1, <1>4, <1>9, <1>10, <2>1 DEF Dots, SameDots
  <2>2. CASE i = n
    <3>1. blocks'[first].records = <<[name |-> Dot, inode |-> n], [name |-> DotDot, inode |-> d]>>
      BY <1>7, <1>8, <2>2
    <3>2. inodes'[i].ids[0] = first
      BY <1>1, <1>7, <2>2
    <3>3. d \in Linked'
      BY <1>4, <1>6
    <3>4. PICK records : records = blocks'[inodes'[i].ids[0]].records
      OBVIOUS
    <3>5. records = <<[name |-> Dot, inode |-> n], [name |-> DotDot, inode |-> d]>>
      BY <3>1, <3>2, <3>4
    <3>6. /\ Len(records) >= 2 /\ records[1] = [name |-> Dot, inode |-> i]
          /\ records[2].name = DotDot /\ records[2].inode \in Linked'
      BY <2>2, <3>3, <3>5
    <3> QED
      BY <3>4, <3>6 DEF Dots
  <2> QED
    BY <1>4, <2>1, <2>2
<1>13. DotsAgree'
  <2> SUFFICES ASSUME NEW link \in Links', NEW i, i = Child(link)', ~inodes[i].isFile
               PROVE  /\ blocks'[inodes[i].ids[0]].records[1] = [name |-> Dot, inode |-> i]
                      /\ blocks'[inodes[i].ids[0]].records[2]
                            = [name |-> DotDot, inode |-> blocks'[link[1]].owner]
    BY <1>1 DEF DotsAgree, DirBlock
  <2>1. CASE link \in Links
    <3>1. i = Child(link) /\ i \in Linked /\ blocks'[link[1]].owner = blocks[link[1]].owner
      BY <1>4, <2>1, LinkParts
    <3>2. /\ DirBlock(i).records[1] = [name |-> Dot, inode |-> i]
          /\ DirBlock(i).records[2] = [name |-> DotDot, inode |-> blocks[link[1]].owner]
      BY <2>1, <3>1 DEF TreeInv, DiskInv, DotsAgree
    <3>3. Len(DirBlock(i).records) >= 2
      BY <1>10, <3>1 DEF Dots
    <3> QED
      BY <1>9, <3>1, <3>2, <3>3 DEF SameDots
  <2>2. CASE link = <<b, new>>
    <3>1. link[1] = b /\ i = n
      BY <1>4, <2>2
    <3>2. blocks'[link[1]].owner = d
      BY <1>4, <3>1
    <3>3. blocks'[inodes[i].ids[0]].records
             = <<[name |-> Dot, inode |-> n], [name |-> DotDot, inode |-> d]>>
      BY <1>7, <1>8, <3>1
    <3> QED
      BY <3>1, <3>2, <3>3
  <2> QED
    BY <1>4, <2>1, <2>2

<1>14. OwnedInv'
  <2> SUFFICES ASSUME NEW i \in Linked'
               PROVE  Owns(i, inodes[i])'
    BY <1>1 DEF OwnedInv, InodeOf, NoMem
  <2>1. Mask' = blockMask
    BY <1>1 DEF Mask, NoMem
  <2>2. \A c : BlockOf(c)' = blocks'[c]
    BY <1>1 DEF BlockOf
  <2>3. CASE i \in Linked
    <3>1. /\ inodes[i].id = i /\ inodes[i].count # 0
          /\ \A s \in 0 .. (inodes[i].count - 1) :
                /\ inodes[i].ids[s] \in blockMask
                /\ blocks[inodes[i].ids[s]].id = inodes[i].ids[s]
                /\ blocks[inodes[i].ids[s]].owner = i
          /\ \A s, t \in 0 .. (inodes[i].count - 1) : inodes[i].ids[s] = inodes[i].ids[t] => s = t
      BY <1>3, <2>3, SettledOwns DEF TreeInv
    <3>2. ASSUME NEW c \in blockMask
          PROVE  blocks'[c].id = blocks[c].id /\ blocks'[c].owner = blocks[c].owner
      BY <1>2, <1>4, DiskParts
    <3> QED
      BY <1>1, <2>1, <2>2, <3>1, <3>2 DEF Owns
  <2>4. CASE i = n
    <3>1. \A s \in 0 .. (inodes[n].count - 1) : s = 0
      BY <1>7
    <3> QED
      BY <1>1, <1>6, <1>7, <1>8, <2>1, <2>2, <2>4, <3>1 DEF Owns
  <2> QED
    BY <1>4, <2>3, <2>4
<1>15. RecordsInv' /\ ProcessInv'
  <2>1. ProcessInv' /\ Proper(mem'.block.records)
    BY <1>1, IdleProcess DEF End
  <2>2. \A c \in BlockIds : Proper(blocks'[c].records)
    BY <1>4 DEF TreeInv, DiskInv, RecordsInv
  <2> QED
    BY <2>1, <2>2 DEF RecordsInv
<1>16. Prefix(inodeMask)' /\ UnmountedInv' /\ OpenedInv'
  <2>1. Mounted'
    BY <1>1, <1>3 DEF Mounted
  <2> QED
    BY <1>1, <1>4, <2>1 DEF TreeInv, DiskInv, OpenedInv, UnmountedInv, Prefix, TableSteps
<1> QED
  BY <1>11, <1>12, <1>13, <1>14, <1>15, <1>16 DEF TreeInv, DiskInv

----------------------------------------------------------------------------
(* init writes the root directory.                                         *)

LEMMA InitParts ==
    ASSUME TypeOK, TreeInv, mem.op = "init", pc \in ReserveSteps
    PROVE  /\ Links = {} /\ Linked = {RootInode} /\ blockMask = {} /\ image = "formatted"
           /\ \A f \in Fds : fdToInode[f] = RootInode
           /\ inodeMask = IF pc = "blocks_mask" THEN {RootInode} ELSE {}
           /\ mem.inodeMask = {RootInode} /\ mem.blockMask = {RootBlock}
           /\ mem.inode = NewInode(RootInode, FALSE, RootBlock)
           /\ mem.inode.id = RootInode /\ mem.inode.count = 1 /\ mem.inode.ids[0] = RootBlock
           /\ mem.block = DotsBlock(RootBlock, RootInode, RootInode)
           /\ mem.block.id = RootBlock /\ mem.block.owner = RootInode
           /\ mem.block.records = <<[name |-> Dot, inode |-> RootInode], [name |-> DotDot, inode |-> RootInode]>>
           /\ NoLinks(mem.block.records) /\ Proper(mem.block.records)
           /\ pc # "new_block" => blocks[RootBlock] = mem.block
           /\ pc \notin {"new_block", "new_inode"} => inodes[RootInode] = mem.inode
           /\ RootInode \in InodeIds /\ RootBlock \in BlockIds
<1>1. InitInv
  BY DEF TreeInv, ProcessInv
<1>2. /\ Links = {} /\ blockMask = {} /\ image = "formatted"
      /\ \A f \in Fds : fdToInode[f] = RootInode
      /\ inodeMask = IF pc = "blocks_mask" THEN {RootInode} ELSE {}
      /\ mem.inodeMask = {RootInode} /\ mem.blockMask = {RootBlock}
      /\ mem.inode = NewInode(RootInode, FALSE, RootBlock)
      /\ mem.block = DotsBlock(RootBlock, RootInode, RootInode)
      /\ pc # "new_block" => blocks[RootBlock] = mem.block
      /\ pc \notin {"new_block", "new_inode"} => inodes[RootInode] = mem.inode
  BY <1>1 DEF InitInv, ReserveSteps
<1>3. Linked = {RootInode}
  BY <1>2 DEF Linked
<1>4. /\ mem.inode.id = RootInode /\ mem.inode.count = 1 /\ mem.inode.ids[0] = RootBlock
  BY <1>2, BlocksAssumption DEF NewInode, Slots
<1>5. /\ mem.block.id = RootBlock /\ mem.block.owner = RootInode
      /\ mem.block.records = <<[name |-> Dot, inode |-> RootInode], [name |-> DotDot, inode |-> RootInode]>>
  BY <1>2 DEF DotsBlock, NewBlock, ZeroBlock
<1>6. NoLinks(mem.block.records)
  <2>1. NoLinks(DotsBlock(RootBlock, RootInode, RootInode).records)
    BY DotsBlockParts, Zenon
  <2> QED
    BY <1>2, <2>1
<1>7. Proper(mem.block.records) /\ RootInode \in InodeIds /\ RootBlock \in BlockIds
  BY SmallIds DEF TreeInv, DiskInv, RecordsInv, RootInode, RootBlock
<1> QED
  BY <1>2, <1>3, <1>4, <1>5, <1>6, <1>7

LEMMA InitWritesNode ==
    ASSUME TypeOK, TreeInv, WriteNewBlock \/ WriteNewInode, mem.op = "init"
    PROVE  TreeInv'
<1>1. /\ pc \in {"new_block", "new_inode"} /\ mem' = mem /\ image' = image
      /\ pc' = IF pc = "new_block" THEN "new_inode" ELSE "inodes_mask"
      /\ inodeMask' = inodeMask /\ blockMask' = blockMask /\ fdToInode' = fdToInode
      /\ blocks' = IF pc = "new_block" THEN [blocks EXCEPT ![mem.block.id] = mem.block] ELSE blocks
      /\ inodes' = IF pc = "new_inode" THEN [inodes EXCEPT ![mem.inode.id] = mem.inode] ELSE inodes
  BY DEF WriteNewBlock, WriteNewInode, Continue, maskVars, tableVars
<1>2. /\ Links = {} /\ Linked = {RootInode} /\ blockMask = {} /\ inodeMask = {}
      /\ image = "formatted" /\ mem.inodeMask = {RootInode} /\ mem.blockMask = {RootBlock}
      /\ mem.inode = NewInode(RootInode, FALSE, RootBlock)
      /\ mem.block = DotsBlock(RootBlock, RootInode, RootInode)
      /\ \A f \in Fds : fdToInode[f] = RootInode
      /\ mem.inode.id = RootInode /\ mem.block.id = RootBlock
      /\ NoLinks(mem.block.records) /\ Proper(mem.block.records)
      /\ pc # "new_block" => blocks[RootBlock] = mem.block
      /\ RootInode \in InodeIds /\ RootBlock \in BlockIds
  BY <1>1, InitParts DEF ReserveSteps
<1>3. /\ \A b \in BlockIds : blocks'[b] = blocks[b] \/ (b = RootBlock /\ blocks'[b] = mem.block)
      /\ blocks'[RootBlock] = mem.block
      /\ pc = "new_inode" => inodes'[RootInode] = mem.inode
  BY <1>1, <1>2 DEF TypeOK, DiskTypeOK
<1>4. ASSUME NEW b \in BlockIds
      PROVE  NoLinks(blocks[b].records) /\ NoLinks(blocks'[b].records)
  <2>1. NoLinks(blocks[b].records)
    <3> SUFFICES ASSUME NEW k, IsLink(b, k) PROVE FALSE
      BY DEF NoLinks, IsLink
    <3> QED
      BY <1>2, LinkIs DEF TreeInv, DiskInv
  <2> QED
    BY <1>2, <1>3, <2>1
<1>5. Links' = {} /\ Linked' = {RootInode}
  BY <1>2, <1>4, LinksKept DEF KeepsLinks, SameLinks
<1>6. ~Mounted'
  BY <1>1, <1>2 DEF Mounted
<1>7. RecordsInv'
  BY <1>1, <1>2, <1>3 DEF TreeInv, DiskInv, RecordsInv
<1>8. DiskInv'
  BY <1>1, <1>2, <1>5, <1>6, <1>7
     DEF DiskInv, UnmountedInv, OwnedInv, DirsInv, OpenedInv, Prefix, LinksFormTree, DotsAgree,
         TableSteps
<1>9. InitInv'
  BY <1>1, <1>2, <1>3, <1>5 DEF InitInv, ReserveSteps
<1> QED
  BY <1>1, <1>8, <1>9, InitProcess DEF TreeInv

\* The root directory is there when its inode is marked; its block is marked next.
LEMMA InitWritesMasks ==
    ASSUME TypeOK, TreeInv, WriteInodesMask \/ WriteBlocksMask, mem.op = "init"
    PROVE  TreeInv'
<1>1. /\ pc \in {"inodes_mask", "blocks_mask"} /\ image' = image
      /\ \/ pc = "inodes_mask" /\ pc' = "blocks_mask" /\ mem' = mem
            /\ inodeMask' = mem.inodeMask /\ blockMask' = blockMask
         \/ pc = "blocks_mask" /\ pc' = "idle" /\ mem' = NoMem
            /\ inodeMask' = inodeMask /\ blockMask' = mem.blockMask
      /\ fdToInode' = fdToInode /\ blocks' = blocks /\ inodes' = inodes
  BY DEF WriteInodesMask, WriteBlocksMask, Continue, Return, End, maskVars, tableVars
<1>2. /\ Links = {} /\ Linked = {RootInode} /\ blockMask = {} /\ image = "formatted"
      /\ inodeMask = IF pc = "blocks_mask" THEN {RootInode} ELSE {}
      /\ mem.inodeMask = {RootInode} /\ mem.blockMask = {RootBlock}
      /\ \A f \in Fds : fdToInode[f] = RootInode
      /\ mem.inode.id = RootInode /\ mem.inode.count = 1 /\ mem.inode.ids[0] = RootBlock
      /\ mem.block.id = RootBlock /\ mem.block.owner = RootInode
      /\ mem.block.records = <<[name |-> Dot, inode |-> RootInode], [name |-> DotDot, inode |-> RootInode]>>
      /\ Proper(mem.block.records)
      /\ blocks[RootBlock] = mem.block /\ inodes[RootInode] = mem.inode
      /\ mem.inode = NewInode(RootInode, FALSE, RootBlock)
      /\ mem.block = DotsBlock(RootBlock, RootInode, RootInode)
  BY <1>1, InitParts DEF ReserveSteps
<1>3. Links' = {} /\ Linked' = {RootInode}
  BY <1>1, <1>2, LinksKept DEF KeepsLinks, SameLinks
<1>4. inodeMask' = {RootInode} /\ Mounted'
  BY <1>1, <1>2 DEF Mounted
<1>5. Mask' = {RootBlock} /\ pc' \notin {"grow_info", "grow_ids", "write_info"} /\ pc' \notin TableSteps
  BY <1>1, <1>2 DEF Mask, NoMem, TableSteps
<1>6. OwnedInv'
  <2>1. PICK inode, block : inode = mem.inode /\ block = mem.block
    OBVIOUS
  <2>2. InodeOf(RootInode)' = inode /\ BlockOf(RootBlock)' = block
    BY <1>1, <1>2, <1>5, <2>1 DEF InodeOf, BlockOf
  <2>3. /\ inode.id = RootInode /\ inode.count = 1 /\ inode.ids[0] = RootBlock
        /\ block.id = RootBlock /\ block.owner = RootInode
    BY <1>2, <2>1
  <2>4. \A s \in 0 .. (inode.count - 1) : s = 0
    BY <2>3
  <2>5. Owns(RootInode, inode)'
    BY <1>5, <2>2, <2>3, <2>4 DEF Owns
  <2>6. Owns(RootInode, InodeOf(RootInode))'
    BY <2>2, <2>5
  <2> QED
    BY <1>3, <2>6 DEF OwnedInv
<1>7. DirsInv'
  <2>1. DirBlock(RootInode)' = mem.block
    BY <1>1, <1>2 DEF DirBlock
  <2>2. Dots(RootInode, DirBlock(RootInode).records)'
    BY <1>2, <1>3, <2>1 DEF Dots
  <2> QED
    BY <1>3, <2>2 DEF DirsInv
<1>8. RecordsInv'
  BY <1>1, <1>2, NoMemParts DEF TreeInv, DiskInv, RecordsInv
<1>9. Prefix(inodeMask)'
  BY <1>4, MaskSizesAssumption DEF Prefix, RootInode, InodeIds
<1>10. DiskInv'
  BY <1>1, <1>2, <1>3, <1>4, <1>5, <1>6, <1>7, <1>8, <1>9
     DEF DiskInv, UnmountedInv, OpenedInv, LinksFormTree, DotsAgree
<1>11. ProcessInv'
  <2>1. CASE pc = "inodes_mask"
    <3>1. InitInv'
      BY <1>1, <1>2, <1>3, <1>4, <2>1 DEF InitInv, ReserveSteps
    <3> QED
      BY <1>1, <2>1, <3>1, InitProcess
  <2>2. CASE pc = "blocks_mask"
    BY <1>1, <2>2, IdleProcess DEF End
  <2> QED
    BY <1>1, <2>1, <2>2
<1> QED
  BY <1>10, <1>11 DEF TreeInv

----------------------------------------------------------------------------
(* The table is written, and the masks behind a write.                     *)

TableOps == {"open", "close", "lseek", "read"}

LEMMA WriterParts ==
    ASSUME TypeOK, TreeInv, mem.op = "write"
    PROVE  /\ Mounted /\ Busy /\ Mask = mem.blockMask
           /\ pc \in LoopSteps \cup TableSteps \cup {"inodes_mask", "blocks_mask"}
           /\ mem.inodeMask = inodeMask /\ blockMask \subseteq mem.blockMask
           /\ pc \in LoopSteps => CopyInv /\ BlockInv /\ GrownInv
           /\ Proper(mem.block.records)
<1>1. /\ pc \in LoopSteps \cup TableSteps \cup {"inodes_mask", "blocks_mask"}
      /\ mem.inodeMask = inodeMask /\ blockMask \subseteq mem.blockMask
      /\ pc \in LoopSteps => CopyInv /\ BlockInv /\ GrownInv
  BY DEF TreeInv, ProcessInv, WriteInv
<1>2. Busy
  BY DEF TreeInv, ProcessInv, RestInv
<1>3. Mounted
  BY <1>2 DEF TreeInv, DiskInv, UnmountedInv
<1> QED
  BY <1>1, <1>2, <1>3 DEF Mask, TreeInv, DiskInv, RecordsInv

LEMMA TableParts ==
    ASSUME TypeOK, TreeInv, pc \in TableSteps \cup {"read_loop"}
    PROVE  /\ mem.op \in TableOps \/ (mem.op = "write" /\ pc # "read_loop")
           /\ Mounted /\ Proper(mem.block.records)
<1>1. mem.op \in {"none", "init"} \cup PathCommands \cup FdCommands
  BY DEF TypeOK, ProcessTypeOK, Memory
<1>2. mem.op \in TableOps \/ (mem.op = "write" /\ pc # "read_loop")
  BY <1>1 DEF TreeInv, ProcessInv, RestInv, InitInv, CreateInv, WriteInv, TableCommandInv, Busy,
              TableOps, PathCommands, FdCommands, CreateSteps, ReserveSteps, TableSteps,
              LoopSteps, WriteSteps
<1>3. Mounted
  BY <1>2 DEF TreeInv, DiskInv, UnmountedInv, Busy, TableOps, TableSteps
<1> QED
  BY <1>2, <1>3 DEF TreeInv, DiskInv, RecordsInv

\* A step that writes the table or a mask, and nothing else.
LEMMA SideKeeps ==
    ASSUME TypeOK, TreeInv, Mounted, image' = image, inodeMask' = inodeMask,
           inodes' = inodes, blocks' = blocks, Mask' = Mask,
           pc \notin {"grow_info", "grow_ids", "write_info"},
           pc' \notin {"grow_info", "grow_ids", "write_info"},
           \A f \in Fds : fdToInode'[f] \in Linked,
           pc' \in TableSteps => \A f \in Fds : mem'.table.inode[f] \in Linked,
           Proper(mem'.block.records)
    PROVE  DiskInv' /\ Linked' = Linked
<1>1. Mounted' = Mounted
  BY DEF Mounted
<1>2. KeepsTree
  BY <1>1 DEF KeepsTree, KeepsLinks, SameLinks, SameDots, DirBlock
<1>3. Links' = Links /\ Linked' = Linked /\ TreeOnDisk'
  BY <1>2, TreeKept DEF TreeInv, DiskInv, TreeOnDisk
<1>4. OwnedInv'
  <2>1. \A i \in Linked : InodeOf(i)' = InodeOf(i)
    BY DEF InodeOf
  <2>2. \A b \in Mask : BlockOf(b)'.id = BlockOf(b).id /\ BlockOf(b)'.owner = BlockOf(b).owner
    BY DEF BlockOf
  <2> QED
    BY <1>1, <1>3, <2>1, <2>2, OwnedKept DEF TreeInv, DiskInv
<1>5. RecordsInv' /\ OpenedInv' /\ Prefix(inodeMask)' /\ UnmountedInv'
  BY <1>1, <1>3 DEF TreeInv, DiskInv, RecordsInv, OpenedInv, Prefix, UnmountedInv
<1> QED
  BY <1>3, <1>4, <1>5 DEF DiskInv, TreeOnDisk

LEMMA WriteTableKeeps ==
    ASSUME TypeOK, TreeInv, WriteTableReserved \/ WriteTableInode \/ WriteTablePosition
    PROVE  TreeInv'
<1>1. /\ pc \in TableSteps /\ image' = image /\ inodeMask' = inodeMask /\ blockMask' = blockMask
      /\ inodes' = inodes /\ blocks' = blocks
      /\ fdToInode' = fdToInode \/ fdToInode' = mem.table.inode
      /\ \/ mem' = mem /\ pc' \in TableSteps
         \/ mem' = mem /\ mem.op = "write" /\ pc' = "inodes_mask"
         \/ mem.op # "write" /\ Return
  BY DEF WriteTableReserved, WriteTableInode, WriteTablePosition, Continue, TableSteps, maskVars
<1>2. /\ mem.op \in TableOps \/ mem.op = "write"
      /\ Mounted /\ Proper(mem.block.records)
  BY <1>1, TableParts
<1>3. Mask' = Mask
  BY <1>1, <1>2 DEF Mask, Return, End, NoMem, TableOps
<1>4. /\ \A f \in Fds : fdToInode'[f] \in Linked
      /\ mem' = mem => \A f \in Fds : mem'.table.inode[f] \in Linked
  BY <1>1 DEF TreeInv, DiskInv, OpenedInv
<1>5. Proper(mem'.block.records)
  BY <1>1, <1>2, NoMemParts DEF Return, End
<1>6. DiskInv' /\ Linked' = Linked
  BY <1>1, <1>2, <1>3, <1>4, <1>5, SideKeeps DEF TableSteps, Return, End
<1>7. CASE mem' = mem /\ pc' \in TableSteps /\ mem.op \in TableOps
  BY <1>6, <1>7, TableProcess DEF TreeInv, TableOps
<1>8. CASE mem' = mem /\ mem.op = "write" /\ pc' \in TableSteps \cup {"inodes_mask"}
  <2>1. WriteInv'
    BY <1>1, <1>8, WriterParts DEF WriteInv, LoopSteps, WriteSteps, TableSteps
  <2> QED
    BY <1>6, <1>8, <2>1, WriteProcess DEF TreeInv
<1>9. CASE mem.op # "write" /\ Return
  BY <1>6, <1>9, IdleProcess DEF TreeInv, Return
<1> QED
  BY <1>1, <1>2, <1>7, <1>8, <1>9

LEMMA WriterWritesMasks ==
    ASSUME TypeOK, TreeInv, WriteInodesMask \/ WriteBlocksMask, mem.op = "write"
    PROVE  TreeInv'
<1>1. /\ Mounted /\ Mask = mem.blockMask /\ mem.inodeMask = inodeMask
      /\ blockMask \subseteq mem.blockMask /\ Proper(mem.block.records)
  BY WriterParts
<1>2. /\ pc \in {"inodes_mask", "blocks_mask"} /\ image' = image /\ inodeMask' = inodeMask
      /\ inodes' = inodes /\ blocks' = blocks /\ fdToInode' = fdToInode
      /\ \/ mem' = mem /\ pc' = "blocks_mask" /\ blockMask' = blockMask
         \/ blockMask' = mem.blockMask /\ (Return \/ Die)
  BY <1>1 DEF WriteInodesMask, WriteBlocksMask, Continue, maskVars, tableVars
<1>3. Mask' = Mask
  BY <1>1, <1>2 DEF Mask, Return, Die, End, NoMem
<1>4. Proper(mem'.block.records)
  BY <1>1, <1>2, NoMemParts DEF Return, Die, End
<1>5. \A f \in Fds : fdToInode'[f] \in Linked
  BY <1>2 DEF TreeInv, DiskInv, OpenedInv
<1>6. DiskInv' /\ Linked' = Linked
  BY <1>1, <1>2, <1>3, <1>4, <1>5, SideKeeps DEF TableSteps, Return, Die, End
<1>7. CASE mem' = mem /\ pc' = "blocks_mask" /\ blockMask' = blockMask
  <2>1. WriteInv'
    BY <1>1, <1>2, <1>7 DEF WriteInv, LoopSteps, WriteSteps
  <2> QED
    BY <1>6, <1>7, <2>1, WriteProcess DEF TreeInv
<1>8. CASE Return \/ Die
  BY <1>6, <1>8, IdleProcess DEF TreeInv, Return, Die
<1> QED
  BY <1>2, <1>7, <1>8

----------------------------------------------------------------------------
(* The loop of read_file.                                                  *)

LEMMA EndLoopParts ==
    ASSUME TypeOK, OpenedInv, NEW m \in Memory, EndLoop(m)
    PROVE  /\ pc' = "table_reserved" /\ mem'.op = m.op /\ mem'.block = m.block
           /\ mem'.inodeMask = m.inodeMask /\ mem'.blockMask = m.blockMask
           /\ \A g \in Fds : mem'.table.inode[g] \in Linked
<1>1. /\ pc' = "table_reserved" /\ mem'.op = m.op /\ mem'.block = m.block
      /\ mem'.inodeMask = m.inodeMask /\ mem'.blockMask = m.blockMask
      /\ mem'.table = SetPosition(DiskTable, m.fd, m.pos)
  BY DEF EndLoop, Continue, Memory
<1>2. m.fd \in Fds /\ m.pos \in Nat
  BY DEF Memory
<1> QED
  BY <1>1, <1>2, TableLinked

LEMMA ReadKeeps ==
    ASSUME TypeOK, TreeInv, ReadTurn \/ ReadEnds
    PROVE  TreeInv'
<1>1. /\ pc = "read_loop" /\ UNCHANGED diskVars
  BY DEF ReadTurn, ReadEnds
<1>2. mem.op \in TableOps /\ Mounted /\ Proper(mem.block.records) /\ mem \in Memory
  BY <1>1, TableParts, MemoryParts
<1>3. Settled
  BY <1>2, SettledOutside DEF TreeInv, Window, TableOps
<1>4. CASE Spin \/ Die
  BY <1>1, <1>3, <1>4, EndKeeps DEF Spin, Die, TreeInv
<1>5. CASE EndLoop(mem)
  <2>1. /\ pc' = "table_reserved" /\ mem'.op = mem.op /\ mem'.block = mem.block
        /\ \A g \in Fds : mem'.table.inode[g] \in Linked
    BY <1>2, <1>5, EndLoopParts DEF TreeInv, DiskInv
  <2>2. DiskInv'
    BY <1>1, <1>2, <1>3, <2>1, CalmKeeps DEF TreeInv, TableOps
  <2> QED
    BY <1>2, <2>1, <2>2, TableProcess DEF TreeInv, TableOps, TableSteps
<1>6. CASE pc' = "read_loop" /\ mem'.op = mem.op /\ mem'.block = mem.block
  <2>1. DiskInv'
    BY <1>1, <1>2, <1>3, <1>6, CalmKeeps DEF TreeInv, TableOps, TableSteps
  <2> QED
    BY <1>2, <1>6, <2>1, TableProcess DEF TreeInv, TableOps
<1>7. ASSUME NEW m, m.op = mem.op, m.block = mem.block, Continue("read_loop", m)
      PROVE  TreeInv'
  BY <1>6, <1>7 DEF Continue
<1>8. \A pos, need : LET m == [mem EXCEPT !.pos = pos, !.need = need]
                     IN  m.op = mem.op /\ m.block = mem.block
  BY <1>2 DEF Memory
<1>9. CASE ReadEnds
  BY <1>5, <1>9 DEF ReadEnds
<1>10. CASE ReadTurn
  BY <1>4, <1>5, <1>7, <1>8, <1>10 DEF ReadTurn
<1> QED
  BY <1>9, <1>10

----------------------------------------------------------------------------
(* The loop of write_to_file.                                              *)

\* A turn that has not grown the file leaves a settled image; one that is
\* about to use a block of the file has not grown it.
LEMMA LoopParts ==
    ASSUME TypeOK, TreeInv, pc \in LoopSteps
    PROVE  /\ mem.op = "write" /\ Mounted /\ Mask = mem.blockMask
           /\ mem.inodeMask = inodeMask /\ blockMask \subseteq mem.blockMask
           /\ CopyInv /\ BlockInv /\ GrownInv /\ Proper(mem.block.records)
           /\ mem.blockMask = blockMask => Settled
           /\ mem.inode.id \in Linked /\ mem.inode.id \in InodeIds
           /\ mem \in Memory /\ mem.inode \in Inodes /\ mem.block \in BlockContents
<1>1. mem.op = "write"
  <2>1. mem.op \in {"none", "init"} \cup PathCommands \cup FdCommands
    BY DEF TypeOK, ProcessTypeOK, Memory
  <2> QED
    BY <2>1 DEF TreeInv, ProcessInv, RestInv, InitInv, CreateInv, TableCommandInv, Busy,
                PathCommands, FdCommands, CreateSteps, ReserveSteps, TableSteps, LoopSteps, WriteSteps
<1>2. /\ Mounted /\ Mask = mem.blockMask
      /\ mem.inodeMask = inodeMask /\ blockMask \subseteq mem.blockMask
      /\ CopyInv /\ BlockInv /\ GrownInv /\ Proper(mem.block.records)
  BY <1>1, WriterParts
<1>3. mem.blockMask = blockMask => Settled
  BY <1>1, SettledOutside DEF TreeInv, Window
<1> QED
  BY <1>1, <1>2, <1>3, MemoryParts, InodeParts DEF CopyInv

\* The loop goes on to write the table.
LEMMA LoopEnds ==
    ASSUME TypeOK, TreeInv, pc = "write_loop", UNCHANGED diskVars,
           NEW m \in Memory, m.op = "write", m.block = mem.block, m.inodeMask = mem.inodeMask,
           mem.blockMask \subseteq m.blockMask, EndLoop(m)
    PROVE  TreeInv'
<1>1. /\ mem.op = "write" /\ Mounted /\ Mask = mem.blockMask /\ Proper(mem.block.records)
      /\ mem.inodeMask = inodeMask /\ blockMask \subseteq mem.blockMask
  BY LoopParts DEF LoopSteps
<1>2. /\ pc' = "table_reserved" /\ mem'.op = "write" /\ mem'.block = mem.block
      /\ mem'.inodeMask = mem.inodeMask /\ mem'.blockMask = m.blockMask
      /\ \A g \in Fds : mem'.table.inode[g] \in Linked
  BY EndLoopParts DEF TreeInv, DiskInv
<1>3. /\ inodes' = inodes /\ blocks' = blocks /\ inodeMask' = inodeMask /\ blockMask' = blockMask
  BY SameDiskKeepsTree
<1>4. /\ Mask' = m.blockMask /\ (\A i \in Linked : InodeOf(i)' = InodeOf(i))
      /\ \A b \in Mask : BlockOf(b)' = BlockOf(b)
  BY <1>2, <1>3 DEF Mask, InodeOf, BlockOf
<1>5. DiskInv'
  BY <1>1, <1>2, <1>4, QuietKeeps DEF TreeInv
<1>6. WriteInv'
  BY <1>1, <1>2, <1>3 DEF WriteInv, TableSteps, LoopSteps, WriteSteps
<1> QED
  BY <1>2, <1>5, <1>6, WriteProcess DEF TreeInv

\* The block under the position is written.
LEMMA TurnOverwrites ==
    ASSUME TypeOK, TreeInv, pc = "write_loop", UNCHANGED diskVars,
           mem.need # 0, BlockIndex < mem.inode.count,
           Continue("write_info", [mem EXCEPT !.block = blocks[mem.inode.ids[BlockIndex]]])
    PROVE  TreeInv'
<1> DEFINE b == mem.inode.ids[BlockIndex]
           i == mem.inode.id
<1>1. /\ mem.op = "write" /\ Mounted /\ mem.inodeMask = inodeMask /\ CopyInv /\ GrownInv
      /\ mem.blockMask = blockMask => Settled
      /\ i \in Linked /\ mem \in Memory /\ mem.inode \in Inodes
  BY LoopParts DEF LoopSteps
<1>2. BlockIndex \in 0 .. (mem.inode.count - 1)
  BY <1>1, ChunkFits, InodeParts
<1>3. mem.blockMask = blockMask
  BY <1>1, <1>2, InodeParts DEF GrownInv
<1>4. mem.inode = inodes[i]
  BY <1>1 DEF CopyInv
<1>5. b \in blockMask /\ blocks[b].id = b /\ b \in BlockIds
  BY <1>1, <1>2, <1>3, <1>4, SettledOwns, DiskParts DEF TreeInv
<1>6. b \in BlocksOf(mem.inode)
  BY <1>2 DEF BlocksOf
<1> HIDE DEF b
<1>7. /\ pc' = "write_info" /\ mem'.op = "write" /\ mem'.block = blocks[b] /\ mem'.fd = mem.fd
      /\ mem'.inode = mem.inode /\ mem'.inodeMask = inodeMask /\ mem'.blockMask = blockMask
  BY <1>1, <1>3 DEF Continue, Memory, b
<1>8. /\ KeepsTree /\ inodes' = inodes /\ blocks' = blocks /\ inodeMask' = inodeMask
      /\ blockMask' = blockMask /\ fdToInode' = fdToInode
  BY SameDiskKeepsTree
<1>9. DiskInv'
  <2>1. /\ Mask = blockMask /\ Mask' = blockMask
        /\ \A x \in Linked : InodeOf(x)' = InodeOf(x)
        /\ \A c \in Mask : BlockOf(c)' = BlockOf(c)
    BY <1>1, <1>3, <1>5, <1>7, <1>8 DEF Mask, InodeOf, BlockOf
  <2>2. Proper(mem'.block.records)
    BY <1>5, <1>7 DEF TreeInv, DiskInv, RecordsInv
  <2> QED
    BY <1>1, <1>7, <2>1, <2>2, QuietKeeps DEF TreeInv, TableSteps
<1>10. Linked' = Linked
  BY <1>8, LinksKept DEF KeepsTree
<1>11. CopyInv' /\ BlockInv' /\ GrownInv'
  BY <1>1, <1>5, <1>6, <1>7, <1>8, <1>10 DEF CopyInv, BlockInv, GrownInv
<1>12. WriteInv'
  BY <1>7, <1>8, <1>11 DEF WriteInv, LoopSteps, WriteSteps
<1> QED
  BY <1>7, <1>9, <1>12, WriteProcess DEF TreeInv

LEMMA WithBlockParts ==
    ASSUME NEW inode \in Inodes, NEW b \in BlockIds, inode.count # BlocksCountInInode
    PROVE  /\ WithBlock(inode, b).id = inode.id /\ WithBlock(inode, b).isFile = inode.isFile
           /\ WithBlock(inode, b).count = inode.count + 1 /\ inode.count \in Nat
           /\ WithBlock(inode, b).ids[inode.count] = b
           /\ \A s \in 0 .. (inode.count - 1) : WithBlock(inode, b).ids[s] = inode.ids[s]
<1>1. /\ inode.count \in 0 .. BlocksCountInInode /\ inode.ids \in [Slots -> BlockIds]
      /\ BlocksCountInInode \in Nat
  BY BlocksAssumption DEF Inodes
<1>2. inode.count \in Slots /\ \A s \in 0 .. (inode.count - 1) : s \in Slots /\ s # inode.count
  BY <1>1 DEF Slots
<1>3. /\ WithBlock(inode, b).id = inode.id /\ WithBlock(inode, b).isFile = inode.isFile
      /\ WithBlock(inode, b).count = inode.count + 1
      /\ WithBlock(inode, b).ids = [inode.ids EXCEPT ![inode.count] = b]
  BY DEF WithBlock, Inodes
<1> QED
  BY <1>1, <1>2, <1>3

\* A block is reserved for the end of the file.
LEMMA TurnGrows ==
    ASSUME TypeOK, TreeInv, pc = "write_loop", UNCHANGED diskVars,
           NEW b \in BlockIds, b \notin mem.blockMask,
           BlockIndex >= mem.inode.count, mem.inode.count # BlocksCountInInode,
           Continue("grow_info", [mem EXCEPT !.blockMask = @ \cup {b},
                                             !.inode = WithBlock(mem.inode, b),
                                             !.block = NewBlock(b, fdToInode[mem.fd])])
    PROVE  TreeInv'
<1>1. PICK i, inode, grown : i = mem.inode.id /\ inode = mem.inode /\ grown = WithBlock(inode, b)
  OBVIOUS
<1>2. /\ mem.op = "write" /\ Mounted /\ Mask = mem.blockMask
      /\ mem.inodeMask = inodeMask /\ blockMask \subseteq mem.blockMask
      /\ CopyInv /\ i \in Linked /\ i \in InodeIds /\ mem \in Memory /\ inode \in Inodes
  BY <1>1, LoopParts DEF LoopSteps
<1>3. /\ inode = inodes[i] /\ inode.id = i /\ fdToInode[mem.fd] = i /\ inode.count # 0
  BY <1>1, <1>2 DEF CopyInv
<1>4. /\ grown.id = i /\ grown.isFile = inode.isFile
      /\ grown.count = inode.count + 1 /\ inode.count \in Nat
      /\ grown.ids[inode.count] = b
      /\ \A s \in 0 .. (inode.count - 1) : grown.ids[s] = inode.ids[s]
  <2>1. inode.count # BlocksCountInInode /\ grown = WithBlock(inode, b)
    BY <1>1
  <2>2. /\ WithBlock(inode, b).id = inode.id /\ WithBlock(inode, b).isFile = inode.isFile
        /\ WithBlock(inode, b).count = inode.count + 1 /\ inode.count \in Nat
        /\ WithBlock(inode, b).ids[inode.count] = b
    BY <1>2, <2>1, WithBlockParts
  <2>3. \A s \in 0 .. (inode.count - 1) : WithBlock(inode, b).ids[s] = inode.ids[s]
    BY <1>2, <2>1, WithBlockParts
  <2> QED
    BY <1>3, <2>1, <2>2, <2>3
<1>5. /\ pc' = "grow_info" /\ mem'.op = "write" /\ mem'.fd = mem.fd /\ mem'.pos = mem.pos
      /\ mem'.inode = grown /\ mem'.block = NewBlock(b, i)
      /\ mem'.inodeMask = inodeMask /\ mem'.blockMask = mem.blockMask \cup {b}
  BY <1>1, <1>2, <1>3 DEF Continue, Memory
<1>6. mem'.block.id = b /\ mem'.block.owner = i /\ mem'.block.records = <<>> /\ Proper(mem'.block.records)
  BY <1>5, NewBlockParts
<1>7. /\ KeepsTree /\ inodes' = inodes /\ blocks' = blocks /\ inodeMask' = inodeMask
      /\ blockMask' = blockMask /\ fdToInode' = fdToInode /\ Mounted' = Mounted
  BY SameDiskKeepsTree
<1>8. Links' = Links /\ Linked' = Linked /\ TreeOnDisk'
  BY <1>2, <1>7, TreeKept DEF TreeInv, DiskInv, TreeOnDisk
<1>9. /\ Mask' = mem.blockMask \cup {b}
      /\ \A x : InodeOf(x)' = IF x = i THEN grown ELSE inodes[x]
      /\ \A c : BlockOf(c)' = IF c = b THEN mem'.block ELSE blocks[c]
      /\ \A x : InodeOf(x) = inodes[x]
      /\ \A c : BlockOf(c) = blocks[c]
  BY <1>4, <1>5, <1>6, <1>7 DEF Mask, InodeOf, BlockOf
<1>10. ASSUME NEW x \in Linked
       PROVE  /\ inodes[x].id = x /\ inodes[x].count # 0
              /\ \A s \in 0 .. (inodes[x].count - 1) :
                    /\ inodes[x].ids[s] \in mem.blockMask /\ inodes[x].ids[s] # b
                    /\ blocks[inodes[x].ids[s]].id = inodes[x].ids[s]
                    /\ blocks[inodes[x].ids[s]].owner = x
              /\ \A s, t \in 0 .. (inodes[x].count - 1) : inodes[x].ids[s] = inodes[x].ids[t] => s = t
  <2>1. Owns(x, inodes[x])
    BY <1>2, <1>9 DEF TreeInv, DiskInv, OwnedInv
  <2> QED
    BY <1>2, <1>9, <2>1 DEF Owns
<1>11. OwnedInv'
  <2> SUFFICES ASSUME NEW x \in Linked
               PROVE  Owns(x, InodeOf(x))'
    BY <1>8 DEF OwnedInv
  <2>1. CASE x # i
    <3>1. Owns(x, inodes[x])'
      BY <1>7, <1>9, <1>10, <2>1 DEF Owns
    <3> QED
      BY <1>7, <1>9, <2>1, <3>1
  <2>2. CASE x = i
    <3>1. /\ \A s \in 0 .. (inode.count - 1) :
                /\ inode.ids[s] \in mem.blockMask /\ inode.ids[s] # b
                /\ blocks[inode.ids[s]].id = inode.ids[s]
                /\ blocks[inode.ids[s]].owner = i
          /\ \A s, t \in 0 .. (inode.count - 1) : inode.ids[s] = inode.ids[t] => s = t
      BY <1>3, <1>10, <2>2
    <3>2. \A s \in 0 .. (grown.count - 1) : s \in 0 .. (inode.count - 1) \/ s = inode.count
      BY <1>4
    <3>3. \A s \in 0 .. (grown.count - 1) :
             /\ grown.ids[s] \in Mask'
             /\ BlockOf(grown.ids[s])'.id = grown.ids[s] /\ BlockOf(grown.ids[s])'.owner = i
      BY <1>4, <1>6, <1>9, <3>1, <3>2
    <3>4. \A s, t \in 0 .. (grown.count - 1) : grown.ids[s] = grown.ids[t] => s = t
      BY <1>4, <3>1, <3>2
    <3>5. Owns(i, grown)'
      BY <1>4, <3>3, <3>4 DEF Owns
    <3> QED
      BY <1>9, <2>2, <3>5
  <2> QED
    BY <2>1, <2>2
<1>12. DiskInv'
  BY <1>2, <1>5, <1>6, <1>7, <1>8, <1>11
     DEF TreeInv, DiskInv, TreeOnDisk, UnmountedInv, RecordsInv, OpenedInv, Prefix, TableSteps
<1>13. CopyInv'
  BY <1>2, <1>3, <1>4, <1>5, <1>7, <1>8 DEF CopyInv
<1>14. BlockInv'
  <2>1. b \in BlocksOf(grown)
    BY <1>4 DEF BlocksOf
  <2>2. \A x \in Linked : inodes[x].ids[0] # b
    <3> SUFFICES ASSUME NEW x \in Linked PROVE inodes[x].ids[0] # b
      OBVIOUS
    <3>1. inodes[x].count \in Nat \ {0}
      BY <1>10, LinkedType, DiskParts, InodeParts
    <3> QED
      BY <1>10, <3>1
  <2>3. NoLinks(blocks[b].records)
    BY <2>2, FreshHasNoLinks DEF TreeInv, DiskInv
  <2>4. grown.ids[0] # b
    BY <1>2, <1>3, <1>4, <2>2
  <2> QED
    BY <1>2, <1>5, <1>6, <1>7, <2>1, <2>3, <2>4 DEF BlockInv
<1>15. GrownInv'
  <2>1. BlockIndex' = BlockIndex
    BY <1>5 DEF BlockIndex
  <2>2. BlockIndex' >= mem'.inode.count - 1
    BY <1>1, <1>4, <1>5, <2>1
  <2> QED
    BY <1>5, <1>6, <2>2 DEF GrownInv
<1>16. WriteInv'
  BY <1>2, <1>5, <1>7, <1>13, <1>14, <1>15 DEF WriteInv, LoopSteps, WriteSteps
<1> QED
  BY <1>5, <1>12, <1>16, WriteProcess DEF TreeInv

LEMMA WriteLoopKeeps ==
    ASSUME TypeOK, TreeInv, WriteTurn \/ WriteEnds
    PROVE  TreeInv'
<1> DEFINE b == ReserveBlock(mem.blockMask)
<1>1. /\ pc = "write_loop" /\ UNCHANGED diskVars
  BY DEF WriteTurn, WriteEnds
<1>2. /\ mem.op = "write" /\ mem \in Memory /\ GrownInv
      /\ mem.blockMask = blockMask => Settled
      /\ mem.inode \in Inodes
  BY <1>1, LoopParts DEF LoopSteps
<1>3. CASE EndLoop(mem)
  BY <1>1, <1>2, <1>3, LoopEnds
<1>4. CASE WriteTurn
  <2>1. CASE /\ BlockIndex < mem.inode.count /\ (Spin \/ Die)
    <3>1. mem.blockMask = blockMask
      BY <1>1, <1>2, <1>4, <2>1, ChunkFits, InodeParts DEF GrownInv, WriteTurn
    <3> QED
      BY <1>1, <1>2, <2>1, <3>1, EndKeeps DEF Spin, Die, TreeInv
  <2>2. CASE /\ BlockIndex < mem.inode.count
             /\ Continue("write_info", [mem EXCEPT !.block = blocks[mem.inode.ids[BlockIndex]]])
    BY <1>1, <1>4, <2>2, TurnOverwrites DEF WriteTurn
  <2>3. CASE b # BlocksCount /\ EndLoop([mem EXCEPT !.blockMask = @ \cup {b}])
    <3> DEFINE m == [mem EXCEPT !.blockMask = @ \cup {b}]
    <3>1. b \in BlockIds /\ mem.blockMask \subseteq BlockIds
      BY <2>3, ReserveType, MemoryParts
    <3> HIDE DEF b
    <3>2. /\ m \in Memory /\ m.op = "write" /\ m.block = mem.block /\ m.inodeMask = mem.inodeMask
          /\ mem.blockMask \subseteq m.blockMask
      BY <1>2, <3>1 DEF Memory
    <3> HIDE DEF m
    <3>3. EndLoop(m)
      BY <2>3 DEF m
    <3> QED
      BY <1>1, <3>2, <3>3, LoopEnds
  <2>4. CASE /\ BlockIndex >= mem.inode.count /\ b # BlocksCount
             /\ mem.inode.count # BlocksCountInInode
             /\ Continue("grow_info", [mem EXCEPT !.blockMask = @ \cup {b},
                                                  !.inode = WithBlock(mem.inode, b),
                                                  !.block = NewBlock(b, fdToInode[mem.fd])])
    <3>1. b \in BlockIds \ mem.blockMask
      BY <2>4, ReserveType
    <3> HIDE DEF b
    <3> QED
      BY <1>1, <2>4, <3>1, TurnGrows
  <2> QED
    BY <1>3, <1>4, <2>1, <2>2, <2>3, <2>4 DEF WriteTurn
<1> QED
  BY <1>3, <1>4 DEF WriteEnds

\* The grown inode is written.
LEMMA GrowKeeps ==
    ASSUME TypeOK, TreeInv, GrowInfo \/ GrowIds
    PROVE  TreeInv' /\ KeepsTree
<1>1. PICK i, inode : i = mem.inode.id /\ inode = mem.inode
  OBVIOUS
<1>2. /\ pc \in {"grow_info", "grow_ids"} /\ mem' = mem /\ image' = image
      /\ pc' = IF pc = "grow_info" THEN "grow_ids" ELSE "write_info"
      /\ inodeMask' = inodeMask /\ blockMask' = blockMask /\ fdToInode' = fdToInode
      /\ blocks' = blocks
      /\ inodes' = IF pc = "grow_info"
                   THEN [inodes EXCEPT ![i] = [inode EXCEPT !.ids = inodes[i].ids]]
                   ELSE [inodes EXCEPT ![i].ids = inode.ids]
  BY <1>1 DEF GrowInfo, GrowIds, Continue, maskVars, tableVars
<1>3. /\ mem.op = "write" /\ Mounted /\ Mask = mem.blockMask
      /\ mem.inodeMask = inodeMask /\ blockMask \subseteq mem.blockMask
      /\ CopyInv /\ BlockInv /\ GrownInv /\ Proper(mem.block.records)
      /\ i \in Linked /\ i \in InodeIds /\ inode \in Inodes
  BY <1>1, <1>2, LoopParts DEF LoopSteps, WriteSteps
<1>4. inodes \in [InodeIds -> Inodes]
  BY DEF TypeOK, DiskTypeOK
<1>5. /\ inode.id = i /\ inodes[i].id = i /\ inode.isFile = inodes[i].isFile
      /\ pc = "grow_info" => inode.count = inodes[i].count + 1
      /\ pc = "grow_ids" => inode.count = inodes[i].count
      /\ inode.count # 0
      /\ \A s \in 0 .. (inode.count - 1) :
            inode.ids[s] = inodes[i].ids[s] \/ (s = inode.count - 1 /\ s # 0)
  BY <1>1, <1>2, <1>3 DEF CopyInv
<1>6. /\ \A x \in InodeIds : x # i => inodes'[x] = inodes[x]
      /\ inodes'[i].id = i /\ inodes'[i].isFile = inode.isFile
      /\ inodes'[i].count = inode.count
      /\ pc = "grow_info" => inodes'[i].ids = inodes[i].ids
      /\ pc = "grow_ids" => inodes'[i].ids = inode.ids
  <2>1. CASE pc = "grow_info"
    <3>1. inodes' = [inodes EXCEPT ![i] = [inode EXCEPT !.ids = inodes[i].ids]]
      BY <1>2, <2>1
    <3> QED
      BY <1>3, <1>4, <1>5, <2>1, <3>1 DEF Inodes
  <2>2. CASE pc = "grow_ids"
    <3>1. inodes' = [inodes EXCEPT ![i].ids = inode.ids]
      BY <1>2, <2>2
    <3> QED
      BY <1>3, <1>4, <1>5, <2>2, <3>1 DEF Inodes
  <2> QED
    BY <1>2, <2>1, <2>2
<1>7. inode.ids[0] = inodes[i].ids[0]
  <2>1. 0 \in 0 .. (inode.count - 1)
    BY <1>3, <1>5, InodeParts
  <2> QED
    BY <1>5, <2>1
<1>8. pc = "grow_ids" => inodes'[i] = inode
  <2> SUFFICES ASSUME pc = "grow_ids" PROVE inodes'[i] = inode
    OBVIOUS
  <2>1. inodes' = [inodes EXCEPT ![i].ids = inode.ids] /\ inode.count = inodes[i].count
    BY <1>2, <1>5
  <2>2. inodes[i] \in Inodes
    BY <1>3, <1>4
  <2>3. inodes'[i] = [inodes[i] EXCEPT !.ids = inode.ids]
    BY <1>3, <1>4, <2>1
  <2>4. [inodes[i] EXCEPT !.ids = inode.ids] = inode
    BY <1>3, <1>5, <2>1, <2>2 DEF Inodes
  <2> QED
    BY <2>3, <2>4
<1>9. KeepsTree
  BY <1>2, <1>3, <1>5, <1>6, <1>7, LinkedType
     DEF KeepsTree, KeepsLinks, SameLinks, SameDots, Mounted, DirBlock
<1>10. Links' = Links /\ Linked' = Linked /\ TreeOnDisk' /\ Mounted' = Mounted
  BY <1>9, TreeKept DEF TreeInv, DiskInv, TreeOnDisk, KeepsTree
<1>11. OwnedInv'
  <2>1. Mask' = Mask
    BY <1>2, <1>3 DEF Mask
  <2>2. ASSUME NEW x \in Linked
        PROVE  InodeOf(x)' = InodeOf(x)
    <3>1. x \in InodeIds
      BY LinkedType
    <3>2. InodeOf(x) = IF x = i THEN inode ELSE inodes[x]
      BY <1>1, <1>2 DEF InodeOf
    <3>3. InodeOf(x)' = IF pc = "grow_info" /\ x = i THEN inode ELSE inodes'[x]
      BY <1>1, <1>2 DEF InodeOf
    <3> QED
      BY <1>2, <1>6, <1>8, <3>1, <3>2, <3>3
  <2>3. \A b : BlockOf(b)' = BlockOf(b)
    BY <1>2 DEF BlockOf
  <2> QED
    BY <1>10, <2>1, <2>2, <2>3, OwnedKept DEF TreeInv, DiskInv
<1>12. DiskInv'
  BY <1>2, <1>3, <1>10, <1>11
     DEF TreeInv, DiskInv, TreeOnDisk, UnmountedInv, RecordsInv, OpenedInv, Prefix, TableSteps
<1>13. CopyInv'
  <2>1. CASE pc = "grow_info"
    BY <1>1, <1>2, <1>3, <1>5, <1>6, <1>10, <2>1 DEF CopyInv
  <2>2. CASE pc = "grow_ids"
    BY <1>1, <1>2, <1>3, <1>5, <1>8, <1>10, <2>2 DEF CopyInv
  <2> QED
    BY <1>2, <2>1, <2>2
<1>14. BlockInv'
  BY <1>2, <1>3 DEF BlockInv, NoLinks, BlocksOf
<1>15. GrownInv'
  BY <1>2, <1>3 DEF GrownInv, WriteSteps, BlockIndex
<1>16. WriteInv'
  BY <1>2, <1>3, <1>13, <1>14, <1>15 DEF WriteInv, LoopSteps, WriteSteps
<1> QED
  BY <1>9, <1>2, <1>3, <1>12, <1>16, WriteProcess DEF TreeInv

\* A file's block that is not its first is the first of no directory.
LEMMA BehindFirst ==
    ASSUME TypeOK, DiskInv, Mounted, CopyInv, mem.inode.id \in InodeIds,
           pc \notin {"grow_info", "grow_ids"},
           NEW b \in BlocksOf(mem.inode), b # mem.inode.ids[0]
    PROVE  \A x \in Linked : inodes[x].ids[0] # b
<1> DEFINE i == mem.inode.id
<1>1. i \in Linked /\ inodes[i] = mem.inode
  BY DEF CopyInv
<1>2. \A x \in Linked : Owns(x, inodes[x])
  BY DEF DiskInv, OwnedInv, InodeOf
<1>3. BlockOf(b).owner = i
  BY <1>1, <1>2 DEF Owns, BlocksOf
<1> SUFFICES ASSUME NEW x \in Linked, inodes[x].ids[0] = b PROVE FALSE
  OBVIOUS
<1>4. 0 \in 0 .. (inodes[x].count - 1)
  <2>1. inodes[x] \in Inodes
    BY LinkedType, DiskParts
  <2> QED
    BY <1>2, <2>1, InodeParts DEF Owns
<1>5. BlockOf(b).owner = x
  BY <1>2, <1>4 DEF Owns
<1> QED
  BY <1>1, <1>3, <1>5

\* The data of the turn is written: no record comes or goes.
LEMMA WriteInfoKeeps == TypeOK /\ TreeInv /\ WriteInfo => TreeInv' /\ KeepsTree
<1> SUFFICES ASSUME TypeOK, TreeInv, WriteInfo PROVE TreeInv' /\ KeepsTree
  OBVIOUS
<1>1. PICK b, block, size, torn :
          /\ b = mem.block.id /\ block = [mem.block EXCEPT !.size = size, !.torn = torn]
          /\ size = Offset + Chunk
          /\ blocks' = [blocks EXCEPT ![b] = block]
          /\ IF Mixed(block) THEN Die ELSE Continue("write_data", [mem EXCEPT !.block = block])
  <2> DEFINE block == [mem.block EXCEPT !.size = Offset + Chunk, !.torn = @ \/ mem.block.size = 0]
  <2>1. /\ blocks' = [blocks EXCEPT ![block.id] = block]
        /\ IF Mixed(block) THEN Die ELSE Continue("write_data", [mem EXCEPT !.block = block])
    BY DEF WriteInfo
  <2>2. block.id = mem.block.id
    BY MemoryParts DEF BlockContents
  <2>3. PICK torn : torn = (mem.block.torn \/ mem.block.size = 0)
    OBVIOUS
  <2>4. block = [mem.block EXCEPT !.size = Offset + Chunk, !.torn = torn]
    BY <2>3
  <2> QED
    BY <2>1, <2>2, <2>4
<1>2. /\ pc = "write_info" /\ image' = image /\ inodeMask' = inodeMask /\ blockMask' = blockMask
      /\ fdToInode' = fdToInode /\ inodes' = inodes
  BY DEF WriteInfo, maskVars, tableVars
<1>3. /\ mem.op = "write" /\ Mounted /\ Mask = mem.blockMask
      /\ mem.inodeMask = inodeMask /\ blockMask \subseteq mem.blockMask
      /\ CopyInv /\ BlockInv /\ GrownInv /\ Proper(mem.block.records)
      /\ mem \in Memory /\ mem.block \in BlockContents /\ mem.inode.id \in InodeIds
  BY <1>2, LoopParts DEF LoopSteps, WriteSteps
<1>4. /\ block.id = b /\ block.owner = mem.block.owner /\ block.records = mem.block.records
      /\ b \in BlockIds /\ mem.block.id = b
  BY <1>1, <1>3 DEF BlockContents
<1>5. /\ blocks'[b] = block /\ \A c \in BlockIds : c # b => blocks'[c] = blocks[c]
  BY <1>1, <1>4 DEF TypeOK, DiskTypeOK
<1>6. /\ b \in BlocksOf(mem.inode)
      /\ \/ mem.block = blocks[b]
         \/ /\ mem.blockMask # blockMask /\ b # mem.inode.ids[0]
            /\ mem.block.records = <<>> /\ NoLinks(blocks[b].records)
  BY <1>1, <1>2, <1>3 DEF BlockInv
<1>7. KeepsLinks
  <2>1. SameLinks(blocks[b], blocks'[b])
    <3>1. mem.block.records = <<>> => NoLinks(mem.block.records)
      BY DEF NoLinks
    <3> QED
      BY <1>4, <1>5, <1>6, <3>1 DEF SameLinks
  <2> QED
    BY <1>5, <2>1 DEF KeepsLinks, SameLinks
<1>8. ASSUME NEW x \in Linked
      PROVE  blocks'[inodes[x].ids[0]].records = blocks[inodes[x].ids[0]].records
  <2>1. inodes[x].ids[0] \in BlockIds
    BY LinkedType, DiskParts, InodeParts
  <2>2. CASE mem.block = blocks[b]
    BY <1>4, <1>5, <2>1, <2>2
  <2>3. CASE b # mem.inode.ids[0]
    BY <1>2, <1>3, <1>5, <1>6, <2>1, <2>3, BehindFirst DEF TreeInv
  <2> QED
    BY <1>6, <2>2, <2>3
<1>9. KeepsTree
  BY <1>2, <1>7, <1>8 DEF KeepsTree, Mounted, DirBlock, SameDots
<1>10. Links' = Links /\ Linked' = Linked /\ TreeOnDisk' /\ Mounted' = Mounted
  BY <1>9, TreeKept DEF TreeInv, DiskInv, TreeOnDisk, KeepsTree
<1>11. \A c \in BlockIds : Proper(blocks'[c].records)
  BY <1>3, <1>4, <1>5 DEF TreeInv, DiskInv, RecordsInv
<1>12. CASE Mixed(block) /\ Die
  <2>1. mem.block.records # <<>>
    BY <1>4, <1>12 DEF Mixed
  <2>2. mem.blockMask = blockMask
    BY <1>2, <1>3, <2>1 DEF GrownInv, WriteSteps
  <2>3. pc' = "dead" /\ mem' = NoMem
    BY <1>12 DEF Die, End
  <2>4. ProcessInv' /\ Proper(mem'.block.records)
    BY <1>12, IdleProcess DEF Die
  <2>5. OwnedInv'
    <3>1. Mask' = Mask
      BY <1>2, <1>3, <2>2, <2>3 DEF Mask, NoMem
    <3>2. \A x : InodeOf(x)' = InodeOf(x)
      BY <1>2, <2>3 DEF InodeOf
    <3>3. ASSUME NEW c \in Mask
          PROVE  BlockOf(c)'.id = BlockOf(c).id /\ BlockOf(c)'.owner = BlockOf(c).owner
      <4>1. BlockOf(c)' = blocks'[c]
        BY <2>3 DEF BlockOf
      <4>2. c \in BlockIds
        BY <1>3, MemoryParts
      <4>3. BlockOf(c) = IF c = b THEN mem.block ELSE blocks[c]
        BY <1>1, <1>2 DEF BlockOf
      <4>4. CASE c = b
        BY <1>4, <1>5, <4>1, <4>2, <4>3, <4>4
      <4>5. CASE c # b
        BY <1>5, <4>1, <4>2, <4>3, <4>5
      <4> QED
        BY <4>4, <4>5
    <3> QED
      BY <1>10, <3>1, <3>2, <3>3, OwnedKept DEF TreeInv, DiskInv
  <2>6. DiskInv'
    BY <1>2, <1>3, <1>10, <1>11, <2>3, <2>4, <2>5
       DEF TreeInv, DiskInv, TreeOnDisk, UnmountedInv, RecordsInv, OpenedInv, Prefix, TableSteps
  <2> QED
    BY <1>9, <2>4, <2>6 DEF TreeInv
<1>13. CASE Continue("write_data", [mem EXCEPT !.block = block])
  <2>1. /\ pc' = "write_data" /\ mem'.op = "write" /\ mem'.block = block /\ mem'.fd = mem.fd
        /\ mem'.inode = mem.inode /\ mem'.inodeMask = mem.inodeMask
        /\ mem'.blockMask = mem.blockMask /\ mem'.pos = mem.pos
    BY <1>3, <1>13 DEF Continue, Memory
  <2>2. OwnedInv'
    <3>1. Mask' = Mask
      BY <1>3, <2>1 DEF Mask
    <3>2. \A x : InodeOf(x)' = InodeOf(x)
      BY <1>2, <2>1 DEF InodeOf
    <3>3. ASSUME NEW c \in Mask
          PROVE  BlockOf(c)'.id = BlockOf(c).id /\ BlockOf(c)'.owner = BlockOf(c).owner
      <4>1. BlockOf(c)' = blocks'[c]
        BY <2>1 DEF BlockOf
      <4>2. c \in BlockIds
        BY <1>3, MemoryParts
      <4>3. BlockOf(c) = IF c = b THEN mem.block ELSE blocks[c]
        BY <1>1, <1>2 DEF BlockOf
      <4>4. CASE c = b
        BY <1>4, <1>5, <4>1, <4>2, <4>3, <4>4
      <4>5. CASE c # b
        BY <1>5, <4>1, <4>2, <4>3, <4>5
      <4> QED
        BY <4>4, <4>5
    <3> QED
      BY <1>10, <3>1, <3>2, <3>3, OwnedKept DEF TreeInv, DiskInv
  <2>3. Proper(mem'.block.records)
    BY <1>3, <1>4, <2>1
  <2>4. DiskInv'
    BY <1>2, <1>3, <1>10, <1>11, <2>1, <2>2, <2>3
       DEF TreeInv, DiskInv, TreeOnDisk, UnmountedInv, RecordsInv, OpenedInv, Prefix, TableSteps
  <2>5. CopyInv' /\ BlockInv'
    BY <1>2, <1>3, <1>10, <2>1 DEF CopyInv, BlockInv
  <2>6. GrownInv'
    BY <1>2, <1>3, <1>4, <2>1 DEF GrownInv, WriteSteps, BlockIndex
  <2>7. WriteInv'
    BY <1>2, <1>3, <2>1, <2>5, <2>6 DEF WriteInv, LoopSteps, WriteSteps
  <2> QED
    BY <1>9, <2>1, <2>4, <2>7, WriteProcess DEF TreeInv
<1> QED
  BY <1>1, <1>12, <1>13

\* Division by the size of a block.
LEMMA Division ==
    ASSUME NEW p \in Nat, NEW d \in Nat \ {0}
    PROVE  /\ p \div d \in Nat /\ p % d \in 0 .. (d - 1)
           /\ p = d * (p \div d) + (p % d)
           /\ (p * d) \div d = p
OBVIOUS

\* A chunk that is not all that is left ends at the end of its block.
LEMMA ChunkEndsBlock ==
    ASSUME mem \in Memory, NEW pos, pos = mem.pos + Chunk, Chunk # mem.need
    PROVE  pos \div MaxData = BlockIndex + 1
<1>1. mem.pos \in Nat /\ mem.need \in Nat /\ MaxData \in Nat \ {0}
  BY BlocksAssumption DEF Memory
<1>2. Offset \in 0 .. (MaxData - 1) /\ BlockIndex \in Nat
      /\ mem.pos = MaxData * BlockIndex + Offset
  BY <1>1, Division DEF Offset, BlockIndex
<1>3. Chunk = MaxData - Offset
  BY DEF Chunk, Smaller
<1>4. pos = (BlockIndex + 1) * MaxData
  BY <1>1, <1>2, <1>3
<1>5. ((BlockIndex + 1) * MaxData) \div MaxData = BlockIndex + 1
  BY <1>1, <1>2, Division
<1> QED
  BY <1>4, <1>5

LEMMA WriteDataKeeps == TypeOK /\ TreeInv /\ WriteData => TreeInv' /\ KeepsTree
<1> SUFFICES ASSUME TypeOK, TreeInv, WriteData PROVE TreeInv' /\ KeepsTree
  OBVIOUS
<1>1. PICK b, chunk : b = mem.block.id /\ chunk = Chunk
  OBVIOUS
<1>2. /\ pc = "write_data" /\ image' = image /\ inodeMask' = inodeMask /\ blockMask' = blockMask
      /\ fdToInode' = fdToInode /\ inodes' = inodes
      /\ blocks' = [blocks EXCEPT ![b].torn = FALSE]
      /\ Continue("write_loop", [mem EXCEPT !.pos = @ + chunk, !.need = @ - chunk])
  BY <1>1 DEF WriteData, maskVars, tableVars
<1>3. /\ mem.op = "write" /\ Mounted /\ Mask = mem.blockMask
      /\ mem.inodeMask = inodeMask /\ blockMask \subseteq mem.blockMask
      /\ CopyInv /\ GrownInv /\ Proper(mem.block.records)
      /\ mem \in Memory /\ mem.inode \in Inodes /\ mem.inode.id \in InodeIds
  BY <1>2, LoopParts DEF LoopSteps, WriteSteps
<1>4. /\ pc' = "write_loop" /\ mem'.op = "write" /\ mem'.block = mem.block /\ mem'.fd = mem.fd
      /\ mem'.inode = mem.inode /\ mem'.inodeMask = mem.inodeMask
      /\ mem'.blockMask = mem.blockMask
      /\ mem'.pos = mem.pos + chunk /\ mem'.need = mem.need - chunk
  BY <1>2, <1>3 DEF Continue, Memory
<1>5. \A c \in BlockIds : /\ blocks'[c].id = blocks[c].id /\ blocks'[c].owner = blocks[c].owner
                          /\ blocks'[c].records = blocks[c].records
  BY <1>2 DEF TypeOK, DiskTypeOK, BlockContents
<1>6. KeepsTree
  <2>1. \A x \in Linked : inodes[x].ids[0] \in BlockIds
    BY LinkedType, DiskParts, InodeParts
  <2> QED
    BY <1>2, <1>5, <2>1 DEF KeepsTree, KeepsLinks, SameLinks, SameDots, Mounted, DirBlock
<1>7. Links' = Links /\ Linked' = Linked /\ TreeOnDisk' /\ Mounted' = Mounted
  BY <1>6, TreeKept DEF TreeInv, DiskInv, TreeOnDisk, KeepsTree
<1>8. OwnedInv'
  <2>1. Mask' = Mask
    BY <1>3, <1>4 DEF Mask
  <2>2. \A x : InodeOf(x)' = InodeOf(x)
    BY <1>2, <1>4 DEF InodeOf
  <2>3. ASSUME NEW c \in Mask
        PROVE  BlockOf(c)'.id = BlockOf(c).id /\ BlockOf(c)'.owner = BlockOf(c).owner
    <3>1. BlockOf(c)' = blocks'[c] /\ BlockOf(c) = blocks[c] /\ c \in BlockIds
      BY <1>2, <1>3, <1>4, MemoryParts DEF BlockOf
    <3> QED
      BY <1>5, <3>1
  <2> QED
    BY <1>7, <2>1, <2>2, <2>3, OwnedKept DEF TreeInv, DiskInv
<1>9. DiskInv'
  BY <1>2, <1>3, <1>4, <1>5, <1>7, <1>8
     DEF TreeInv, DiskInv, TreeOnDisk, UnmountedInv, RecordsInv, OpenedInv, Prefix, TableSteps
<1>10. CopyInv' /\ BlockInv'
  BY <1>2, <1>3, <1>4, <1>7 DEF CopyInv, BlockInv
<1>11. GrownInv'
  <2> SUFFICES ASSUME mem.blockMask # blockMask, mem'.need # 0
               PROVE  BlockIndex' >= mem.inode.count
    BY <1>2, <1>4 DEF GrownInv, WriteSteps
  <2>1. BlockIndex >= mem.inode.count - 1
    BY <1>2, <1>3 DEF GrownInv, WriteSteps
  <2>2. chunk # mem.need
    BY <1>1, <1>3, <1>4, ChunkFits DEF Memory
  <2>3. mem'.pos \div MaxData = BlockIndex + 1
    BY <1>1, <1>3, <1>4, <2>2, ChunkEndsBlock
  <2>4. BlockIndex' = BlockIndex + 1
    BY <2>3 DEF BlockIndex
  <2> QED
    BY <1>3, <2>1, <2>4, ChunkFits, InodeParts
<1>12. WriteInv'
  BY <1>2, <1>3, <1>4, <1>10, <1>11 DEF WriteInv, LoopSteps, WriteSteps
<1> QED
  BY <1>6, <1>4, <1>9, <1>12, WriteProcess DEF TreeInv

----------------------------------------------------------------------------
(* The invariant.                                                          *)

LEMMA TreeInit == Init => TreeInv
<1> SUFFICES ASSUME Init PROVE TreeInv
  OBVIOUS
<1>1. /\ image = "empty" /\ inodeMask = {} /\ blockMask = {} /\ fdToInode = [f \in Fds |-> 0]
      /\ blocks = [b \in BlockIds |-> ZeroBlock] /\ pc = "idle" /\ mem = NoMem
  BY DEF Init, EmptyTable
<1>2. ~Mounted /\ \A b \in BlockIds : blocks[b].records = <<>>
  BY <1>1 DEF Mounted, ZeroBlock
<1>3. Links = {} /\ Linked = {RootInode}
  BY <1>2 DEF Links, Linked
<1>4. RecordsInv
  BY <1>1, <1>2, NoMemParts, BlocksAssumption DEF RecordsInv, Proper, Unique
<1>5. DiskInv
  BY <1>1, <1>2, <1>3, <1>4
     DEF DiskInv, UnmountedInv, OwnedInv, DirsInv, OpenedInv, Prefix, LinksFormTree, DotsAgree,
         TableSteps, Busy, RootInode
<1>6. ProcessInv
  BY <1>1 DEF ProcessInv, RestInv, WalkInv, CreateInv, InitInv, WriteInv, TableCommandInv,
              Busy, NoMem
<1> QED
  BY <1>5, <1>6 DEF TreeInv

LEMMA StepKeeps == TypeOK /\ TreeInv /\ Step => TreeInv'
<1> SUFFICES ASSUME TypeOK, TreeInv, Step PROVE TreeInv'
  OBVIOUS
<1>1. CASE FormatSuperblock \/ FormatTable
  BY <1>1, FormatSuperblockKeeps, FormatTableKeeps
<1>2. CASE DirUnreadable \/ Walk \/ List \/ Create \/ Open
  BY <1>2, DirUnreadableKeeps, WalkKeeps, CreateKeeps, OpenKeeps
<1>3. CASE WriteNewBlock \/ WriteNewInode
  <2>1. mem.op \in MakeOps \cup {"init"}
    BY <1>3, MakerOp DEF TreeInv, WriteNewBlock, WriteNewInode, CreateSteps
  <2> QED
    BY <1>3, <2>1, MakerWritesBlock, MakerWritesInode, InitWritesNode
<1>4. CASE WriteInodesMask \/ WriteBlocksMask
  <2>1. mem.op \in MakeOps \cup {"init", "write"}
    BY <1>4, MakerOp DEF TreeInv, WriteInodesMask, WriteBlocksMask, CreateSteps
  <2> QED
    BY <1>4, <2>1, MakerWritesMasks, InitWritesMasks, WriterWritesMasks
<1>5. CASE Link \/ LinkInfo \/ LinkInode \/ LinkName
  BY <1>5, LinkKeeps, LinkBlankKeeps, LinkNameKeeps
<1>6. CASE WriteTableReserved \/ WriteTableInode \/ WriteTablePosition
  BY <1>6, WriteTableKeeps
<1>7. CASE ReadTurn \/ ReadEnds
  BY <1>7, ReadKeeps
<1>8. CASE WriteTurn \/ WriteEnds \/ GrowInfo \/ GrowIds \/ WriteInfo \/ WriteData
  BY <1>8, WriteLoopKeeps, GrowKeeps, WriteInfoKeeps, WriteDataKeeps
<1> QED
  BY <1>1, <1>2, <1>3, <1>4, <1>5, <1>6, <1>7, <1>8 DEF Step

LEMMA TreeStep ==
    ASSUME TypeOK, TreeInv, [Next]_vars, ~(Window /\ (Crash \/ WriteFails))
    PROVE  TreeInv'
<1>1. CASE Command
  BY <1>1, CommandKeeps
<1>2. CASE Step
  BY <1>2, StepKeeps
<1>3. CASE Crash \/ WriteFails \/ Restart
  BY <1>3, EndingKeeps
<1>4. CASE UNCHANGED vars
  <2>1. /\ image' = image /\ inodeMask' = inodeMask /\ blockMask' = blockMask
        /\ fdToInode' = fdToInode /\ inodes' = inodes /\ blocks' = blocks
        /\ pc' = pc /\ mem' = mem
    BY <1>4 DEF vars, diskVars, maskVars, tableVars
  <2>0. KeepsTree
    BY <2>1 DEF KeepsTree, KeepsLinks, SameLinks, SameDots, Mounted, DirBlock
  <2>2. /\ Links' = Links /\ Linked' = Linked /\ TreeOnDisk' /\ Mounted' = Mounted
        /\ Mask' = Mask /\ Busy' = Busy /\ BlockIndex' = BlockIndex
    BY <2>0, <2>1, TreeKept
       DEF TreeInv, DiskInv, TreeOnDisk, KeepsTree, Mask, Busy, BlockIndex
  <2>3. \A i : InodeOf(i)' = InodeOf(i) /\ DirBlock(i)' = DirBlock(i)
    BY <2>1 DEF InodeOf, DirBlock
  <2>4. \A i, inode : Owns(i, inode)' <=> Owns(i, inode)
    BY <2>1, <2>2 DEF Owns, BlockOf
  <2>5. \A i, records : Dots(i, records)' <=> Dots(i, records)
    BY <2>2 DEF Dots
  <2>6. UnmountedInv' /\ RecordsInv' /\ OpenedInv' /\ Prefix(inodeMask)'
    BY <2>1, <2>2 DEF TreeInv, DiskInv, UnmountedInv, RecordsInv, OpenedInv, Prefix
  <2>7. OwnedInv'
    BY <2>2, <2>3, <2>4 DEF TreeInv, DiskInv, OwnedInv
  <2>8. DirsInv'
    BY <2>1, <2>2, <2>3, <2>5 DEF TreeInv, DiskInv, DirsInv
  <2>9. LinksFormTree' /\ DotsAgree'
    BY <2>2 DEF TreeOnDisk
  <2>10. RestInv' /\ WalkInv' /\ InitInv' /\ TableCommandInv'
    BY <2>1, <2>2 DEF TreeInv, ProcessInv, RestInv, WalkInv, InitInv, TableCommandInv
  <2>11. CreateInv'
    BY <2>1, <2>2, <2>3
       DEF TreeInv, ProcessInv, CreateInv, NodeInv, ProgressInv, RecordInv, NodeBlock, Prefix
  <2>12. WriteInv'
    BY <2>1, <2>2 DEF TreeInv, ProcessInv, WriteInv, CopyInv, BlockInv, GrownInv
  <2> QED
    BY <2>6, <2>7, <2>8, <2>9, <2>10, <2>11, <2>12 DEF TreeInv, DiskInv, ProcessInv
<1> QED
  BY <1>1, <1>2, <1>3, <1>4 DEF Next

=============================================================================
