------------------------------- MODULE ExtFS --------------------------------
(***************************************************************************)
(* The file system: one process that executes one shell command after      *)
(* another against one image file, and the image it leaves behind when it  *)
(* is interrupted.                                                         *)
(*                                                                         *)
(* A command is split into one action per write_while() call on the image  *)
(* that changes bytes: the process may be killed between two of them       *)
(* (Crash), a write may fail and send it down its error path (WriteFails), *)
(* and what is on the image is all the next process knows.  What a command *)
(* reads and computes between two writes belongs to the action before.     *)
(***************************************************************************)
EXTENDS DescriptorsTable, Blocks

CONSTANTS Commands,        \* the shell commands given in this instance
          Paths,           \* the directory paths given, as sequences of names
          Sizes,           \* the sizes passed to read and write
          Positions,       \* the positions passed to lseek
          Interruptions,   \* may the process be killed, may its writes fail
          WindowCrashes    \* ... also inside the two windows (see Window)

PathCommands == {"mkdir", "touch", "open", "ls"}
FdCommands == {"close", "lseek", "read", "write"}

ASSUME ExtFSAssumption ==
    /\ Commands \subseteq {"init"} \cup PathCommands \cup FdCommands
    /\ Paths \subseteq Seq(AllNames)
    /\ Sizes \subseteq Nat
    /\ Positions \subseteq Nat
    /\ Interruptions \in BOOLEAN
    /\ WindowCrashes \in BOOLEAN

VARIABLES
    image,          \* "empty": no valid superblock; "formatted": magic present
    inodeMask,      \* superblock.reserved_inodes_mask
    blockMask,      \* superblock.reserved_blocks_mask
    reservedFd,     \* descriptors_table.reserved_fd
    fdToInode,      \* descriptors_table.fd_to_inode
    fdToPosition,   \* descriptors_table.fd_to_position
    inodes,         \* the inodes area
    blocks,         \* the blocks area
    pc,             \* where the process is
    mem             \* the locals of the command being executed

tableVars == <<reservedFd, fdToInode, fdToPosition>>
maskVars == <<inodeMask, blockMask>>
diskVars == <<image, maskVars, tableVars, inodes, blocks>>
vars == <<diskVars, pc, mem>>

(***************************************************************************)
(* The process.  "idle" waits for a command, "dead" has ended, "stuck"     *)
(* spins in read_while() at the end of the image.  Every other value names *)
(* the write that comes next, or the loop the command is in.               *)
(***************************************************************************)
CreateSteps == {"new_block", "new_inode", "inodes_mask", "blocks_mask",
                "link", "link_info", "link_inode", "link_name"}
WriteSteps == {"grow_info", "grow_ids", "write_info", "write_data"}
TableSteps == {"table_reserved", "table_inode", "table_position"}
Pcs == {"idle", "dead", "stuck", "walk", "read_loop", "write_loop",
        "format_superblock", "format_table"}
         \cup CreateSteps \cup WriteSteps \cup TableSteps

Memory == [op        : {"none", "init"} \cup PathCommands \cup FdCommands,
           path      : Seq(AllNames),   \* what is left of the path to walk
           name      : AllNames,        \* the last component
           dir       : InodeIds,        \* current_inode_id
           fd        : Fds,
           pos       : Nat,             \* fd_position
           need      : Nat,             \* need_to_write_size, need_to_read
           inodeMask : SUBSET InodeIds,
           blockMask : SUBSET BlockIds,
           table     : Tables,
           inode     : Inodes,
           block     : BlockContents]

NoMem == [op |-> "none", path |-> <<>>, name |-> NoName, dir |-> RootInode,
          fd |-> 0, pos |-> 0, need |-> 0, inodeMask |-> {}, blockMask |-> {},
          table |-> EmptyTable, inode |-> ZeroInode, block |-> ZeroBlock]

Busy == pc \notin {"idle", "dead", "stuck"}

\* The table read_descriptors_table returns.
DiskTable == [reserved |-> reservedFd, inode |-> fdToInode, position |-> fdToPosition]

\* The checks at the head of every command but init.
Mounted == image = "formatted" /\ RootInode \in inodeMask

(* read_block(b) ends only if the image is long enough: a later block was  *)
(* written, or this one and everything its block_info promises.            *)
Readable(b) == \E c \in BlockIds : /\ blocks[c] # ZeroBlock
                                   /\ c > b \/ (c = b /\ ~blocks[b].torn)

DirBlock(i) == blocks[inodes[i].ids[0]]

Init ==
    /\ image = "empty"
    /\ inodeMask = {} /\ blockMask = {}
    /\ reservedFd = EmptyTable.reserved
    /\ fdToInode = EmptyTable.inode
    /\ fdToPosition = EmptyTable.position
    /\ inodes = [i \in InodeIds |-> ZeroInode]
    /\ blocks = [b \in BlockIds |-> ZeroBlock]
    /\ pc = "idle" /\ mem = NoMem

\* The ways a command leaves the program: every local is gone.
End(status) == pc' = status /\ mem' = NoMem
Return == End("idle")
Die == End("dead")
Spin == End("stuck")

(* create_file and create_dir use what they have just freed: the process   *)
(* dies or survives, and as the image is closed it is not written again.   *)
UndefinedBehaviour == Return \/ Die

Continue(step, m) == pc' = step /\ mem' = m

----------------------------------------------------------------------------
(* A command on an image without a file system: read_super_block spins at  *)
(* the end of an empty file; without the root directory the command exits. *)
MountFails ==
    /\ pc = "idle" /\ ~Mounted
    /\ Commands \ {"init"} # {}
    /\ IF image = "empty" THEN Spin ELSE Die
    /\ UNCHANGED diskVars

\* create_*_helper once both ids are reserved: all that remains is writing.
Register(m, i, b, isFile, newBlock) ==
    Continue("new_block", [m EXCEPT !.inodeMask = @ \cup {i},
                                    !.blockMask = @ \cup {b},
                                    !.inode = NewInode(i, isFile, b),
                                    !.block = newBlock])

----------------------------------------------------------------------------
(* init_fs: open() truncates the image; the superblock (empty masks), the  *)
(* descriptor table and then the root directory are written.               *)
InitFs_KeepsImage ==
    /\ pc = "idle" /\ "init" \in Commands
    /\ Continue("format_superblock", [NoMem EXCEPT !.op = "init"])
    /\ UNCHANGED diskVars

InitFs ==
    /\ pc = "idle" /\ "init" \in Commands
    /\ image' = "empty"
    /\ inodeMask' = {} /\ blockMask' = {}
    /\ reservedFd' = EmptyTable.reserved
    /\ fdToInode' = EmptyTable.inode
    /\ fdToPosition' = EmptyTable.position
    /\ inodes' = [i \in InodeIds |-> ZeroInode]
    /\ blocks' = [b \in BlockIds |-> ZeroBlock]
    /\ Continue("format_superblock", [NoMem EXCEPT !.op = "init"])

FormatSuperblock ==
    /\ pc = "format_superblock"
    /\ image' = "formatted"
    /\ Continue("format_table", mem)
    /\ UNCHANGED <<maskVars, tableVars, inodes, blocks>>

(* The empty table; then create_dir_helper(is_root) takes the first inode  *)
(* and the first block.                                                    *)
FormatTable ==
    LET i == ReserveInode({})
        b == ReserveBlock({})
    IN  /\ pc = "format_table"
        /\ reservedFd' = EmptyTable.reserved
        /\ fdToInode' = EmptyTable.inode
        /\ fdToPosition' = EmptyTable.position
        /\ Register(mem, i, b, FALSE, DotsBlock(b, i, i))
        /\ UNCHANGED <<image, maskVars, inodes, blocks>>

----------------------------------------------------------------------------
(* get_inode_id_of_dir: from the root, one component of the path a step.   *)
Resolve(op, path, name) ==
    /\ pc = "idle" /\ Mounted /\ op \in Commands
    /\ Continue("walk", [NoMem EXCEPT !.op = op, !.path = path, !.name = name])
    /\ UNCHANGED diskVars

\* The directory reached is one whose block can be read.
DirReadable == /\ pc = "walk"
               /\ ~inodes[mem.dir].isFile
               /\ Readable(inodes[mem.dir].ids[0])
               /\ ~Mixed(DirBlock(mem.dir))

(* The refusals and the accidents shared by all path commands: a file in   *)
(* the place of a directory; a block whose end is missing; a block with    *)
(* data and records, on which read_block dereferences a null pointer.      *)
DirUnreadable ==
    /\ pc = "walk" /\ ~DirReadable
    /\ \/ inodes[mem.dir].isFile /\ Return
       \/ /\ ~inodes[mem.dir].isFile
          /\ IF Readable(inodes[mem.dir].ids[0]) THEN Die ELSE Spin
    /\ UNCHANGED diskVars

\* One level of get_inode_id_of_dir_rec.
Walk ==
    /\ DirReadable /\ mem.path # <<>>
    /\ IF HasName(DirBlock(mem.dir), Head(mem.path))
       THEN Continue("walk", [mem EXCEPT !.path = Tail(@),
                                         !.dir = Lookup(DirBlock(mem.dir), Head(mem.path))])
       ELSE Return
    /\ UNCHANGED diskVars

\* The loop of ls changes nothing.
List ==
    /\ DirReadable /\ mem.path = <<>> /\ mem.op = "ls"
    /\ Return
    /\ UNCHANGED diskVars

----------------------------------------------------------------------------
(* create_dir and create_file, and the helpers they call: look for the     *)
(* name, reserve an inode and a block; then write the new block, the new   *)
(* inode, the two masks, and at last the record in the parent directory.   *)
(* When nothing is left to reserve the caller goes on with what it freed.  *)
Create ==
    LET i == ReserveInode(inodeMask)
        b == ReserveBlock(blockMask)
        isFile == mem.op = "touch"
    IN  /\ DirReadable /\ mem.path = <<>> /\ mem.op \in {"mkdir", "touch"}
        /\ \/ HasName(DirBlock(mem.dir), mem.name) /\ Return
           \/ /\ ~HasName(DirBlock(mem.dir), mem.name)
              /\ i = InodesCount \/ b = BlocksCount
              /\ UndefinedBehaviour
           \/ /\ ~HasName(DirBlock(mem.dir), mem.name)
              /\ i # InodesCount /\ b # BlocksCount
              /\ Register([mem EXCEPT !.inodeMask = inodeMask, !.blockMask = blockMask],
                          i, b, isFile,
                          IF isFile THEN NewBlock(b, i) ELSE DotsBlock(b, i, mem.dir))
        /\ UNCHANGED diskVars

(* write_block of the new block.  Nothing on the image refers to it yet,   *)
(* so its writes are one step.                                             *)
WriteNewBlock ==
    /\ pc = "new_block"
    /\ blocks' = [blocks EXCEPT ![mem.block.id] = mem.block]
    /\ Continue("new_inode", mem)
    /\ UNCHANGED <<image, maskVars, tableVars, inodes>>

WriteNewInode_FileSkipsSuperblock ==
    /\ pc = "new_inode"
    /\ inodes' = [inodes EXCEPT ![mem.inode.id] = mem.inode]
    /\ Continue(IF mem.op = "touch" THEN "link" ELSE "inodes_mask", mem)
    /\ UNCHANGED <<image, maskVars, tableVars, blocks>>

\* write_inode of the new inode, of which the same holds.
WriteNewInode ==
    /\ pc = "new_inode"
    /\ inodes' = [inodes EXCEPT ![mem.inode.id] = mem.inode]
    /\ Continue("inodes_mask", mem)
    /\ UNCHANGED <<image, maskVars, tableVars, blocks>>

\* write_super_block, the last step of init, mkdir, touch and write.
WriteInodesMask ==
    /\ pc = "inodes_mask"
    /\ inodeMask' = mem.inodeMask
    /\ Continue("blocks_mask", mem)
    /\ UNCHANGED <<image, blockMask, tableVars, inodes, blocks>>

(* A write that could not write everything has left its loop with the      *)
(* superblock and the table released, and releases them again.             *)
WriteBlocksMask ==
    /\ pc = "blocks_mask"
    /\ blockMask' = mem.blockMask
    /\ CASE mem.op = "init" -> Return
         [] mem.op = "write" -> IF mem.need = 0 THEN Return ELSE Die
         [] OTHER -> Continue("link", mem)
    /\ UNCHANGED <<image, inodeMask, tableVars, inodes, blocks>>

(* The parent's block is read again.  If it is full the new inode and its  *)
(* block stay reserved though nothing refers to them: create_file returns, *)
(* create_dir goes on with what it freed.                                  *)
Link ==
    LET parent == DirBlock(mem.dir)
    IN  /\ pc = "link"
        /\ \/ ~Readable(inodes[mem.dir].ids[0]) /\ Spin
           \/ Readable(inodes[mem.dir].ids[0]) /\ Mixed(parent) /\ Die
           \/ /\ Readable(inodes[mem.dir].ids[0]) /\ ~Mixed(parent)
              /\ DirectoryFull(parent)
              /\ IF mem.op = "touch" THEN Return ELSE UndefinedBehaviour
           \/ /\ Readable(inodes[mem.dir].ids[0]) /\ ~Mixed(parent)
              /\ ~DirectoryFull(parent)
              /\ Continue("link_info", [mem EXCEPT !.block = parent])
        /\ UNCHANGED diskVars

\* mem.block is the parent's block as it was read: its writes append a record,
\* first the count in block_info, then the inode id, then the path.
LinkInfo ==
    /\ pc = "link_info"
    /\ blocks' = [blocks EXCEPT ![mem.block.id] =
                    [WithRecord(mem.block, BlankRecord) EXCEPT !.torn = TRUE]]
    /\ Continue("link_inode", mem)
    /\ UNCHANGED <<image, maskVars, tableVars, inodes>>

LinkInode_NameFirst ==
    /\ pc = "link_inode"
    /\ blocks' = [blocks EXCEPT ![mem.block.id] =
                    [WithRecord(mem.block, [BlankRecord EXCEPT !.name = mem.name])
                        EXCEPT !.torn = TRUE]]
    /\ Continue("link_name", mem)
    /\ UNCHANGED <<image, maskVars, tableVars, inodes>>

LinkInode ==
    /\ pc = "link_inode"
    /\ blocks' = [blocks EXCEPT ![mem.block.id] =
                    [WithRecord(mem.block, [BlankRecord EXCEPT !.inode = mem.inode.id])
                        EXCEPT !.torn = TRUE]]
    /\ Continue("link_name", mem)
    /\ UNCHANGED <<image, maskVars, tableVars, inodes>>

LinkName ==
    /\ pc = "link_name"
    /\ blocks' = [blocks EXCEPT ![mem.block.id] =
                    [WithRecord(mem.block, [name |-> mem.name, inode |-> mem.inode.id])
                        EXCEPT !.torn = FALSE]]
    /\ Return
    /\ UNCHANGED <<image, maskVars, tableVars, inodes>>

----------------------------------------------------------------------------
(* open_file looks for the name among the records, so it opens whatever    *)
(* carries it, and reserves a descriptor.                                  *)
Open ==
    LET inode == Lookup(DirBlock(mem.dir), mem.name)
    IN  /\ DirReadable /\ mem.path = <<>> /\ mem.op = "open"
        /\ IF \/ ~HasName(DirBlock(mem.dir), mem.name)
              \/ OpenTwice(DiskTable, inode)
              \/ AllReserved(DiskTable)
           THEN Return
           ELSE Continue("table_reserved",
                         [mem EXCEPT !.table = ReserveDescriptor(DiskTable, inode)])
        /\ UNCHANGED diskVars

\* close_file writes the table also when free_descriptor refuses.
Close(f) ==
    /\ pc = "idle" /\ Mounted /\ "close" \in Commands
    /\ Continue("table_reserved",
                [NoMem EXCEPT !.op = "close", !.table = FreeDescriptor(DiskTable, f)])
    /\ UNCHANGED diskVars

\* lseek_pos; a closed descriptor or a position past the largest file changes nothing.
Lseek(f, pos) ==
    /\ pc = "idle" /\ Mounted /\ "lseek" \in Commands
    /\ reservedFd[f] /\ pos < MaxFile
    /\ Continue("table_reserved",
                [NoMem EXCEPT !.op = "lseek", !.table = SetPosition(DiskTable, f, pos)])
    /\ UNCHANGED diskVars

\* write_descriptor_table: three arrays, three writes.
WriteTableReserved ==
    /\ pc = "table_reserved"
    /\ reservedFd' = mem.table.reserved
    /\ Continue("table_inode", mem)
    /\ UNCHANGED <<image, maskVars, fdToInode, fdToPosition, inodes, blocks>>

WriteTableInode ==
    /\ pc = "table_inode"
    /\ fdToInode' = mem.table.inode
    /\ Continue("table_position", mem)
    /\ UNCHANGED <<image, maskVars, reservedFd, fdToPosition, inodes, blocks>>

WriteTablePosition_SkipsSuperblock ==
    /\ pc = "table_position"
    /\ fdToPosition' = mem.table.position
    /\ Return
    /\ UNCHANGED <<image, maskVars, reservedFd, fdToInode, inodes, blocks>>

(* After the table a write goes on with the inode, which the image already *)
(* holds, and the superblock.                                              *)
WriteTablePosition ==
    /\ pc = "table_position"
    /\ fdToPosition' = mem.table.position
    /\ IF mem.op = "write" THEN Continue("inodes_mask", mem) ELSE Return
    /\ UNCHANGED <<image, maskVars, reservedFd, fdToInode, inodes, blocks>>

----------------------------------------------------------------------------
Clipped(size) == IF size > MaxFile THEN MaxFile ELSE size

\* The head of write_to_file and read_file; a closed descriptor changes nothing.
Transfer(op, step, f, size) ==
    /\ pc = "idle" /\ Mounted /\ op \in Commands
    /\ reservedFd[f]
    /\ Continue(step, [NoMem EXCEPT !.op = op, !.fd = f, !.need = Clipped(size),
                                    !.pos = fdToPosition[f],
                                    !.inodeMask = inodeMask, !.blockMask = blockMask,
                                    !.inode = inodes[fdToInode[f]]])
    /\ UNCHANGED diskVars

BlockIndex == mem.pos \div MaxData
Offset == mem.pos % MaxData

\* Both loops end in the new position being written to the table.
EndLoop(m) == Continue("table_reserved", [m EXCEPT !.table = SetPosition(DiskTable, m.fd, m.pos)])

Smaller(m, n) == IF m < n THEN m ELSE n

(* One turn of the loop of read_file up to its next test.  Index           *)
(* blocks_count is let through: it yields the zero that ends block_ids, or *)
(* whatever lies behind the full array.  Past data_size the unsigned       *)
(* remainder wraps, and the copy reads behind the buffer.                  *)
ReadTurn ==
    LET b == IF BlockIndex < BlocksCountInInode THEN {mem.inode.ids[BlockIndex]} ELSE BlockIds
    IN  /\ pc = "read_loop" /\ mem.need # 0 /\ BlockIndex <= mem.inode.count
        /\ \/ \E block \in b :
                \/ ~Readable(block) /\ Spin
                \/ Readable(block) /\ Mixed(blocks[block]) /\ Die
                \/ /\ Readable(block) /\ ~Mixed(blocks[block])
                   /\ blocks[block].size = Offset
                   /\ EndLoop(mem)
                \/ LET size == Smaller(mem.need, blocks[block].size - Offset)
                   IN  /\ Readable(block) /\ ~Mixed(blocks[block])
                       /\ blocks[block].size > Offset
                       /\ Continue("read_loop", [mem EXCEPT !.pos = @ + size, !.need = @ - size])
                \/ /\ Readable(block) /\ ~Mixed(blocks[block])
                   /\ blocks[block].size < Offset
                   /\ \/ Continue("read_loop", [mem EXCEPT !.pos = @ + mem.need, !.need = 0])
                      \/ Die
           \/ BlockIndex = BlocksCountInInode /\ Spin
        /\ UNCHANGED diskVars

ReadEnds ==
    /\ pc = "read_loop" /\ (mem.need = 0 \/ BlockIndex > mem.inode.count)
    /\ EndLoop(mem)
    /\ UNCHANGED diskVars

(* One turn of the loop of write_to_file, up to its first write.  A block  *)
(* index behind the file appends one block, at the end of the list, and    *)
(* the data goes to that block.                                            *)
WriteTurn ==
    LET b == ReserveBlock(mem.blockMask)
        grown == WithBlock(mem.inode, b)
    IN  /\ pc = "write_loop" /\ mem.need # 0
        /\ \/ LET block == mem.inode.ids[BlockIndex]
              IN  /\ BlockIndex < mem.inode.count
                  /\ \/ ~Readable(block) /\ Spin
                     \/ Readable(block) /\ Mixed(blocks[block]) /\ Die
                     \/ /\ Readable(block) /\ ~Mixed(blocks[block])
                        /\ Continue("write_info", [mem EXCEPT !.block = blocks[block]])
           \/ /\ BlockIndex >= mem.inode.count /\ b = BlocksCount
              /\ EndLoop(mem)
           \/ /\ BlockIndex >= mem.inode.count /\ b # BlocksCount
              /\ mem.inode.count = BlocksCountInInode
              /\ EndLoop([mem EXCEPT !.blockMask = @ \cup {b}])
           \/ /\ BlockIndex >= mem.inode.count /\ b # BlocksCount
              /\ mem.inode.count # BlocksCountInInode
              /\ Continue("grow_info", [mem EXCEPT !.blockMask = @ \cup {b},
                                                   !.inode = grown,
                                                   !.block = NewBlock(b, fdToInode[mem.fd])])
        /\ UNCHANGED diskVars

WriteEnds ==
    /\ pc = "write_loop" /\ mem.need = 0
    /\ EndLoop(mem)
    /\ UNCHANGED diskVars

\* write_inode of the grown inode: inode_info, then block_ids.
GrowInfo ==
    /\ pc = "grow_info"
    /\ inodes' = [inodes EXCEPT ![mem.inode.id] = [mem.inode EXCEPT !.ids = inodes[mem.inode.id].ids]]
    /\ Continue("grow_ids", mem)
    /\ UNCHANGED <<image, maskVars, tableVars, blocks>>

GrowIds ==
    /\ pc = "grow_ids"
    /\ inodes' = [inodes EXCEPT ![mem.inode.id].ids = mem.inode.ids]
    /\ Continue("write_info", mem)
    /\ UNCHANGED <<image, maskVars, tableVars, blocks>>

Chunk_AcrossBlocks == mem.need
Chunk == Smaller(mem.need, MaxData - Offset)

(* The data of the turn: data_size becomes the end of what is written.     *)
(* block_info is written before write_block refuses a block with records.  *)
WriteInfo ==
    LET block == [mem.block EXCEPT !.size = Offset + Chunk,
                                   !.torn = @ \/ mem.block.size = 0]
    IN  /\ pc = "write_info"
        /\ blocks' = [blocks EXCEPT ![block.id] = block]
        /\ IF Mixed(block) THEN Die ELSE Continue("write_data", [mem EXCEPT !.block = block])
        /\ UNCHANGED <<image, maskVars, tableVars, inodes>>

WriteData_Repeats ==
    /\ pc = "write_data"
    /\ blocks' = [blocks EXCEPT ![mem.block.id].torn = FALSE]
    /\ Continue("write_loop", mem)
    /\ UNCHANGED <<image, maskVars, tableVars, inodes>>

WriteData ==
    /\ pc = "write_data"
    /\ blocks' = [blocks EXCEPT ![mem.block.id].torn = FALSE]
    /\ Continue("write_loop", [mem EXCEPT !.pos = @ + Chunk, !.need = @ - Chunk])
    /\ UNCHANGED <<image, maskVars, tableVars, inodes>>

----------------------------------------------------------------------------
(* The two stretches in which the image must not be left behind: the root  *)
(* directory's inode is marked and its block is not; a file owns blocks    *)
(* that the mask on the image calls free.                                  *)
Window == \/ mem.op = "init" /\ pc = "blocks_mask"
          \/ mem.op = "write" /\ mem.blockMask # blockMask

MayInterrupt == Interruptions /\ (WindowCrashes \/ ~Window)

\* The process is killed.
Crash ==
    /\ Busy /\ MayInterrupt
    /\ Die
    /\ UNCHANGED diskVars

(* The next write fails, the host's disk being full.  init_fs ignores the  *)
(* failure of create_dir_helper, which has then freed the path of a record *)
(* twice if it was in that record's write; mkdir and touch go on after     *)
(* theirs, every other caller exits.                                       *)
WriteFails ==
    /\ pc \in {"format_superblock", "format_table"} \cup TableSteps \cup WriteSteps
                \cup (CreateSteps \ {"link"})
    /\ MayInterrupt
    /\ CASE mem.op \in {"mkdir", "touch"} -> UndefinedBehaviour
         [] mem.op = "init" /\ pc = "new_block" -> UndefinedBehaviour
         [] mem.op = "init" /\ pc \in CreateSteps \ {"new_block"} -> Return
         [] OTHER -> Die
    /\ UNCHANGED diskVars

\* The user starts the program again.
Restart ==
    /\ pc \in {"dead", "stuck"}
    /\ Return
    /\ UNCHANGED diskVars

----------------------------------------------------------------------------
(* An empty name is looked up only by ls, which walks its path as it is    *)
(* typed: behind the slash that split_path leaves in front, parse_path     *)
(* ends the process instead.                                               *)
SplitPaths == {path \in Paths : \A k \in DOMAIN path : path[k] # NoName}

Command ==
    \/ MountFails
    \/ InitFs
    \/ \E path \in Paths : Resolve("ls", path, NoName)
    \/ \E op \in PathCommands \ {"ls"}, path \in SplitPaths, name \in AllNames \ {NoName} :
            Resolve(op, path, name)
    \/ \E f \in Fds : Close(f)
    \/ \E f \in Fds, pos \in Positions : Lseek(f, pos)
    \/ \E f \in Fds, size \in Sizes : Transfer("read", "read_loop", f, size)
    \/ \E f \in Fds, size \in Sizes : Transfer("write", "write_loop", f, size)

Step ==
    \/ FormatSuperblock \/ FormatTable
    \/ DirUnreadable \/ Walk \/ List \/ Create \/ Open
    \/ WriteNewBlock \/ WriteNewInode \/ WriteInodesMask \/ WriteBlocksMask
    \/ Link \/ LinkInfo \/ LinkInode \/ LinkName
    \/ WriteTableReserved \/ WriteTableInode \/ WriteTablePosition
    \/ ReadTurn \/ ReadEnds
    \/ WriteTurn \/ WriteEnds \/ GrowInfo \/ GrowIds \/ WriteInfo \/ WriteData

Next == Command \/ Step \/ Crash \/ WriteFails \/ Restart

Spec == Init /\ [][Next]_vars

(* The process runs on until its command is done; nobody has to give a     *)
(* command, to interrupt one, or to start the program again.               *)
FairSpec == Spec /\ WF_vars(Step)

----------------------------------------------------------------------------
(* Properties.                                                             *)

\* The type invariant: what the arrays of the image and the locals may hold.
DiskTypeOK ==
    /\ image \in {"empty", "formatted"}
    /\ inodeMask \in SUBSET InodeIds
    /\ blockMask \in SUBSET BlockIds
    /\ reservedFd \in [Fds -> BOOLEAN]
    /\ fdToInode \in [Fds -> InodeIds]
    /\ fdToPosition \in [Fds -> Nat]
    /\ inodes \in [InodeIds -> Inodes]
    /\ blocks \in [BlockIds -> BlockContents]

ProcessTypeOK == pc \in Pcs /\ mem \in Memory

TypeOK == DiskTypeOK /\ ProcessTypeOK

(* The links of the tree: the records that carry a user's name.  No block  *)
(* that is out of use holds one.                                           *)
Links == {link \in BlockIds \X (1 .. MaxRecords) :
            /\ link[2] \in DOMAIN blocks[link[1]].records
            /\ blocks[link[1]].records[link[2]].name \in Names}
Child(link) == blocks[link[1]].records[link[2]].inode
Linked == {Child(link) : link \in Links} \cup {RootInode}

(* reserve_descriptor: no inode other than the root stands in two entries  *)
(* of fd_to_inode, wherever open, close or lseek were interrupted: two     *)
(* descriptors of one file would keep two positions and grow it twice.     *)
Exclusive(inodeOf) ==
    \A f, g \in Fds : f # g /\ inodeOf[f] = inodeOf[g] => inodeOf[f] = RootInode

DescriptorExclusive == Exclusive(fdToInode)

(* reserve_descriptor, free_descriptor and write_descriptor_table, whatever *)
(* interrupts them: between its three writes a command has one entry of the *)
(* table in hand; every other stands on the image as it did before.         *)
OneDescriptorAtWork ==
    pc \in TableSteps =>
        \E f \in Fds : \A g \in Fds \ {f} :
            /\ mem.table.reserved[g] = reservedFd[g]
            /\ mem.table.inode[g] = fdToInode[g]
            /\ mem.table.position[g] = fdToPosition[g]

(* open_file, close_file and lseek_pos when nothing interrupts them: the   *)
(* three arrays agree, and what is open has a name and is not the root.    *)
TableAgrees ==
    pc = "idle" => \A f \in Fds : IF reservedFd[f]
                                  THEN fdToInode[f] \in Linked \ {RootInode}
                                  ELSE fdToInode[f] = 0 /\ fdToPosition[f] = 0

(* is_dir_exist and the append of mkdir and touch: no directory lists a    *)
(* name twice.                                                             *)
NamesUnique ==
    \A b \in BlockIds : \A j, k \in DOMAIN blocks[b].records :
        /\ blocks[b].records[j].name = blocks[b].records[k].name
        /\ blocks[b].records[j].name # NoName
        => j = k

(* The tree that mkdir and touch build, at every point where they can be   *)
(* interrupted.  A link is held by the first block of a directory that is  *)
(* itself linked; it leads to a reserved inode that no other link leads to *)
(* and that is younger than its directory, so that there is no cycle.      *)
LinksFormTree ==
    \A link \in Links :
        LET dir == blocks[link[1]].owner
        IN  /\ dir \in Linked /\ ~inodes[dir].isFile /\ inodes[dir].ids[0] = link[1]
            /\ Child(link) \in inodeMask /\ Child(link) > dir
            /\ \A other \in Links : Child(other) = Child(link) => other = link

(* create_dir_helper: "." and ".." of a linked directory lead to itself    *)
(* and to the directory that holds its link.                               *)
DotsAgree ==
    \A link \in Links : ~inodes[Child(link)].isFile =>
        /\ DirBlock(Child(link)).records[1] = [name |-> Dot, inode |-> Child(link)]
        /\ DirBlock(Child(link)).records[2] = [name |-> DotDot, inode |-> blocks[link[1]].owner]

(* What the image holds when no command is at work, however the last one   *)
(* ended: the blocks of everything linked are reserved, marked with their  *)
(* owner, and belong to nobody else.                                       *)
BlocksOwned ==
    ~Busy /\ Mounted =>
        \A i \in Linked :
            /\ BlocksOf(inodes[i]) \subseteq blockMask
            /\ \A b \in BlocksOf(inodes[i]) : blocks[b].owner = i
            /\ \A s, t \in 0 .. (inodes[i].count - 1) :
                  inodes[i].ids[s] = inodes[i].ids[t] => s = t

(* There is no command that removes anything: as long as the image is not  *)
(* formatted again, links, kinds, block lists and reservations only grow.  *)
(* (Between its two writes a growing inode counts a slot it has not filled.) *)
NothingIsLost ==
    [][image' = "formatted" =>
        /\ inodeMask \subseteq inodeMask' /\ blockMask \subseteq blockMask'
        /\ \A link \in Links :
              /\ link \in Links'
              /\ blocks[link[1]].records[link[2]] = blocks'[link[1]].records[link[2]]
        /\ \A i \in Linked : i \in inodeMask =>
              /\ inodes[i].isFile = inodes'[i].isFile
              /\ inodes[i].count <= inodes'[i].count
              /\ \A s \in 0 .. (inodes[i].count - 1) :
                    \/ inodes[i].ids[s] = inodes'[i].ids[s]
                    \/ pc = "grow_ids" /\ i = mem.inode.id /\ s = inodes[i].count - 1]_vars

\* What a command writes to: the file of its descriptor, in the block of its
\* position or else in the last; the parent directory, in its first block.
AtWork == IF mem.op = "write" THEN {fdToInode[mem.fd]}
          ELSE IF mem.op \in {"mkdir", "touch"} THEN {mem.dir} ELSE {}
SlotAtWork == IF mem.op = "write" THEN Smaller(BlockIndex, inodes[fdToInode[mem.fd]].count - 1) ELSE 0

(* write_inode and write_block, whatever a command writes and wherever it  *)
(* is interrupted: no other file or directory notices, and of the one it   *)
(* writes to one block changes.                                            *)
WritesInPlace ==
    [][Mounted /\ image' = "formatted" =>
        \A i \in Linked :
            /\ i \notin AtWork => inodes'[i] = inodes[i]
            /\ \A s \in 0 .. (inodes[i].count - 1) :
                  \/ blocks'[inodes[i].ids[s]] = blocks[inodes[i].ids[s]]
                  \/ i \in AtWork /\ s = SlotAtWork]_vars

(* The most steps a command can still take from where it is: a name of the *)
(* path, a byte to read, a byte to write with the block it may need, and   *)
(* the writes that follow the loops.                                       *)
StepsLeft ==
    CASE pc = "walk" -> 10 + Len(mem.path)
      [] pc = "read_loop" -> 10 + mem.need
      [] pc = "write_loop" -> 10 + 5 * mem.need
      [] pc = "grow_info" -> 9 + 5 * mem.need
      [] pc = "grow_ids" -> 8 + 5 * mem.need
      [] pc = "write_info" -> 7 + 5 * mem.need
      [] pc = "write_data" -> 6 + 5 * mem.need
      [] pc = "format_superblock" -> 10
      [] pc \in {"format_table", "table_reserved"} -> 9
      [] pc \in {"new_block", "table_inode"} -> 8
      [] pc \in {"new_inode", "table_position"} -> 7
      [] pc = "inodes_mask" -> 6
      [] pc = "blocks_mask" -> 5
      [] pc = "link" -> 4
      [] pc = "link_info" -> 3
      [] pc = "link_inode" -> 2
      [] pc = "link_name" -> 1
      [] OTHER -> 0

(* The loops of read_file, write_to_file and the path walk: every step of  *)
(* a command brings it nearer to its end, so that it cannot take more than *)
(* StepsLeft of them.                                                      *)
CommandsAdvance == [][Step => 0 <= StepsLeft' /\ StepsLeft' < StepsLeft]_vars

(* The loops of read_file, write_to_file and the path walk come to an end: *)
(* every command gives the prompt back, or the process ends or hangs in a  *)
(* read behind the end of the image.                                       *)
CommandsEnd == Busy ~> ~Busy

(* block.h:36: a block holds file data or records; open gives out          *)
(* descriptors of files only (methods.h:72).                               *)
BlocksNeverMixed == \A b \in BlockIds : ~Mixed(blocks[b])
=============================================================================
