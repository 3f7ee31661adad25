--------------------------- MODULE ExtFSInvariant ---------------------------
(***************************************************************************)
(* What holds between the image and the locals of the command at work, at  *)
(* every point where the command can be interrupted: the invariant behind  *)
(* LinksFormTree, DotsAgree, NamesUnique and BlocksOwned.  It speaks about *)
(* Spec when the windows are not interrupted.                              *)
(***************************************************************************)
EXTENDS ExtFS

(* The image as it will be when write_to_file has written what the turn    *)
(* under way has decided: its mask, its inode and its block.               *)
Mask == IF mem.op \in {"init", "write"} THEN mem.blockMask ELSE blockMask
InodeOf(i) == IF pc \in {"grow_info", "grow_ids"} /\ i = mem.inode.id THEN mem.inode ELSE inodes[i]
BlockOf(b) == IF pc \in {"grow_info", "grow_ids", "write_info"} /\ b = mem.block.id
              THEN mem.block ELSE blocks[b]

\* The inode's blocks are reserved, are its own, and are counted once.
Owns(i, inode) ==
    /\ inode.id = i /\ inode.count # 0
    /\ \A s \in 0 .. (inode.count - 1) :
          /\ inode.ids[s] \in Mask
          /\ BlockOf(inode.ids[s]).id = inode.ids[s] /\ BlockOf(inode.ids[s]).owner = i
    /\ \A s, t \in 0 .. (inode.count - 1) : inode.ids[s] = inode.ids[t] => s = t

\* The ids are handed out in their order.
Prefix(mask) == \A i \in mask, j \in InodeIds : j < i => j \in mask

\* The records of a directory begin with "." and "..".
Dots(dir, records) ==
    /\ Len(records) >= 2
    /\ records[1] = [name |-> Dot, inode |-> dir]
    /\ records[2].name = DotDot /\ records[2].inode \in Linked

Unique(records) ==
    \A j, k \in DOMAIN records :
        records[j].name = records[k].name /\ records[j].name # NoName => j = k

\* Each name once, and no more records than the block has room for.
Proper(records) == Unique(records) /\ Len(records) <= MaxRecords

NoLinks(records) == \A k \in DOMAIN records : records[k].name \notin Names

----------------------------------------------------------------------------
\* The image.
UnmountedInv == ~Mounted => /\ Links = {} /\ inodeMask = {} /\ blockMask = {}
                            /\ ~Busy \/ mem.op = "init"
OwnedInv == Mounted => \A i \in Linked : Owns(i, InodeOf(i))
DirsInv == Mounted => \A i \in Linked : ~inodes[i].isFile => Dots(i, DirBlock(i).records)
RecordsInv == /\ \A b \in BlockIds : Proper(blocks[b].records)
              /\ Proper(mem.block.records)
OpenedInv == /\ \A f \in Fds : fdToInode[f] \in Linked
             /\ pc \in TableSteps => \A f \in Fds : mem.table.inode[f] \in Linked

----------------------------------------------------------------------------
\* The command at work.
RestInv == (mem.op = "none" <=> ~Busy)

WalkInv ==
    pc = "walk" =>
        /\ mem.op \in PathCommands
        /\ mem.op # "ls" => /\ mem.dir \in Linked /\ mem.name # NoName
                            /\ \A k \in DOMAIN mem.path : mem.path[k] # NoName

\* The block of the directory or file that is made.
NodeBlock ==
    IF mem.op = "touch" THEN NewBlock(mem.inode.ids[0], mem.inode.id)
    ELSE DotsBlock(mem.inode.ids[0], mem.inode.id, mem.dir)

ReserveSteps == {"new_block", "new_inode", "inodes_mask", "blocks_mask"}
LinkSteps == {"link_info", "link_inode", "link_name"}

\* The new node, which no link leads to, and the directory it is made in.
NodeInv ==
    /\ mem.dir \in Linked /\ ~inodes[mem.dir].isFile /\ mem.name \in Names
    /\ mem.inode = NewInode(mem.inode.id, mem.op = "touch", mem.inode.ids[0])
    /\ mem.inode.id \notin Linked /\ mem.dir < mem.inode.id
    /\ \A i \in Linked : mem.inode.ids[0] \notin BlocksOf(inodes[i])

\* How much of it the image holds.
ProgressInv ==
    /\ pc # "new_block" => blocks[mem.inode.ids[0]] = NodeBlock
    /\ pc \notin {"new_block", "new_inode"} => inodes[mem.inode.id] = mem.inode
    /\ pc \in ReserveSteps =>
          /\ mem.block = NodeBlock
          /\ mem.inodeMask = inodeMask \cup {mem.inode.id}
          /\ mem.blockMask = blockMask \cup {mem.inode.ids[0]}
          /\ Prefix(mem.inodeMask) /\ mem.inode.ids[0] \notin blockMask
    /\ pc \notin {"new_block", "new_inode", "inodes_mask"} => mem.inode.id \in inodeMask
    /\ pc \notin ReserveSteps => mem.inode.ids[0] \in blockMask

\* The record that is appended to the directory's block.
RecordInv ==
    /\ pc \notin LinkSteps => ~HasName(DirBlock(mem.dir), mem.name)
    /\ pc \in LinkSteps =>
          /\ mem.block.id = inodes[mem.dir].ids[0] /\ mem.block.owner = mem.dir
          /\ ~HasName(mem.block, mem.name) /\ Len(mem.block.records) < MaxRecords
          /\ \/ DirBlock(mem.dir).records = mem.block.records
             \/ \E record \in Records :
                   /\ record.name = NoName
                   /\ DirBlock(mem.dir).records = Append(mem.block.records, record)

CreateInv ==
    mem.op \in {"mkdir", "touch"} =>
        /\ pc \in {"walk"} \cup CreateSteps
        /\ pc \in CreateSteps => NodeInv /\ ProgressInv /\ RecordInv

InitInv ==
    mem.op = "init" =>
        /\ pc \in {"format_superblock", "format_table"} \cup ReserveSteps
        /\ Links = {} /\ blockMask = {} /\ \A f \in Fds : fdToInode[f] = RootInode
        /\ inodeMask = IF pc = "blocks_mask" THEN {RootInode} ELSE {}
        /\ pc # "format_superblock" => image = "formatted"
        /\ pc \notin ReserveSteps => mem.inodeMask = {} /\ mem.blockMask = {}
        /\ pc \in ReserveSteps =>
              /\ mem.inodeMask = {RootInode} /\ mem.blockMask = {RootBlock}
              /\ mem.inode = NewInode(RootInode, FALSE, RootBlock)
              /\ mem.block = DotsBlock(RootBlock, RootInode, RootInode)
              /\ pc # "new_block" => blocks[RootBlock] = mem.block
              /\ pc \notin {"new_block", "new_inode"} => inodes[RootInode] = mem.inode

----------------------------------------------------------------------------
\* write_to_file: the inode in the process and the one on the image.
LoopSteps == {"write_loop"} \cup WriteSteps

CopyInv ==
    /\ mem.inode.id \in Linked /\ fdToInode[mem.fd] = mem.inode.id
    /\ inodes[mem.inode.id].id = mem.inode.id
    /\ pc \notin {"grow_info", "grow_ids"} => inodes[mem.inode.id] = mem.inode
    /\ mem.inode.isFile = inodes[mem.inode.id].isFile
    /\ pc = "grow_info" => mem.inode.count = inodes[mem.inode.id].count + 1
    /\ pc = "grow_ids" => mem.inode.count = inodes[mem.inode.id].count
    /\ mem.inode.count # 0
    /\ \A s \in 0 .. (mem.inode.count - 1) :
          \/ mem.inode.ids[s] = inodes[mem.inode.id].ids[s]
          \/ pc \in {"grow_info", "grow_ids"} /\ s = mem.inode.count - 1 /\ s # 0

\* The block in the process and the one on the image.
BlockInv ==
    pc \in {"grow_info", "grow_ids", "write_info"} =>
        /\ mem.block.id \in BlocksOf(mem.inode)
        /\ \/ pc = "write_info" /\ mem.block = blocks[mem.block.id]
           \/ /\ mem.blockMask # blockMask /\ mem.block.id # mem.inode.ids[0]
              /\ mem.block.records = <<>> /\ NoLinks(blocks[mem.block.id].records)

\* Once the file has grown, all that is left goes to blocks behind its old end.
GrownInv ==
    mem.blockMask # blockMask =>
        /\ pc = "write_loop" => mem.need = 0 \/ BlockIndex >= mem.inode.count
        /\ pc \in WriteSteps => BlockIndex >= mem.inode.count - 1 /\ mem.block.records = <<>>

WriteInv ==
    mem.op = "write" =>
        /\ pc \in LoopSteps \cup TableSteps \cup {"inodes_mask", "blocks_mask"}
        /\ mem.inodeMask = inodeMask /\ blockMask \subseteq mem.blockMask
        /\ pc \in LoopSteps => CopyInv /\ BlockInv /\ GrownInv

\* The other commands.
TableCommandInv ==
    /\ mem.op \in {"open", "close", "lseek", "read"} => pc \in {"walk", "read_loop"} \cup TableSteps
    /\ mem.op = "ls" => pc = "walk"

DiskInv == /\ UnmountedInv /\ OwnedInv /\ DirsInv /\ RecordsInv /\ OpenedInv
           /\ Prefix(inodeMask) /\ LinksFormTree /\ DotsAgree
ProcessInv == RestInv /\ WalkInv /\ CreateInv /\ InitInv /\ WriteInv /\ TableCommandInv

(* At every point of every command, wherever it is interrupted outside the  *)
(* windows: the image holds a tree whose nodes own their blocks, and the    *)
(* command at work knows what it has reserved and not linked yet.           *)
TreeInv == DiskInv /\ ProcessInv

(* init_fs mends whatever it finds; and what it has made stays whole until *)
(* a command is interrupted within a window, all other steps included.     *)
OnlyWindowsHurt ==
    [][InitFs \/ (TreeInv /\ ~(Window /\ (Crash \/ WriteFails))) => TreeInv']_vars

----------------------------------------------------------------------------
(* The space.  What is reserved is what a link leads to, or what the       *)
(* command at work is about to link; the rest is lost, as nothing ever     *)
(* frees it.                                                               *)
MakerAt(steps) == mem.op \in {"mkdir", "touch"} /\ pc \in steps

\* Reserved on the image and not linked yet.
NewInodes == IF MakerAt({"blocks_mask", "link"} \cup LinkSteps) THEN {mem.inode.id} ELSE {}
NewBlocks == IF MakerAt({"link"} \cup LinkSteps) THEN {mem.inode.ids[0]} ELSE {}

Owned == UNION {BlocksOf(InodeOf(i)) : i \in Linked}

LostInodes == inodeMask \ (Linked \cup NewInodes)
LostBlocks == Mask \ (Owned \cup NewBlocks)

\* Where a command reserves before it looks: the node is there and the directory
\* has no room; a block is free and the inode has no slot.
ParentFull == MakerAt({"link"}) /\ Len(DirBlock(mem.dir).records) = MaxRecords
FileFull == /\ pc = "write_loop" /\ mem.need # 0 /\ BlockIndex >= mem.inode.count
            /\ mem.inode.count = BlocksCountInInode /\ ReserveBlock(mem.blockMask) # BlocksCount

Interrupted == Crash \/ WriteFails

(* create_dir, create_file and write_to_file, however often they run out   *)
(* of inodes, blocks, records or slots, and interrupted anywhere outside   *)
(* the windows: of a new image nothing is lost, and a step loses exactly   *)
(* the node at work when it is interrupted or finds its directory full,    *)
(* and one block when it finds its file full.                              *)
SpaceAccounted ==
    [][Mounted' =>
        /\ LostInodes' = (IF Mounted THEN LostInodes ELSE {})
                            \cup (IF ParentFull \/ Interrupted THEN NewInodes ELSE {})
        /\ LostBlocks' = (IF Mounted THEN LostBlocks ELSE {})
                            \cup (IF ParentFull \/ Interrupted THEN NewBlocks ELSE {})
                            \cup (IF FileFull /\ ~Interrupted
                                  THEN {ReserveBlock(mem.blockMask)} ELSE {})]_vars

\* The directory was read before the node was reserved, and is read again after.
ParentInv ==
    MakerAt(ReserveSteps \cup {"link"}) =>
        Readable(inodes[mem.dir].ids[0]) /\ ~Mixed(DirBlock(mem.dir))

\* The new inode was free, as its block was.
FreshInv == MakerAt({"new_block", "new_inode", "inodes_mask"}) => mem.inode.id \notin inodeMask

(* What SpaceAccounted rests on beside TreeInv: the second look at the      *)
(* directory finds it as the first has left it.                            *)
SpaceInv == ParentInv /\ FreshInv
=============================================================================
