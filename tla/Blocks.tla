------------------------------- MODULE Blocks -------------------------------
(***************************************************************************)
(* core/inode.c and core/block.c: what an inode and a block hold.  File    *)
(* bytes are abstracted to the length data_size; the records of a          *)
(* directory are kept.                                                     *)
(*                                                                         *)
(* Here and in the other modules a definition named D_Slip stands before D *)
(* and is D with a slip a programmer could make; nothing uses it but the   *)
(* experiments that put it in the place of D, to see a property fail.      *)
(***************************************************************************)
EXTENDS Superblock, Sequences

CONSTANTS BlocksCountInInode,   \* fs_info.blocks_count_in_inode
          MaxRecords,           \* get_max_records_count
          MaxData,              \* get_max_data_in_block
          Names                 \* the names users give files and directories

\* The two names create_dir_helper writes itself, and the empty string that a
\* record holds as long as its path has not been written.
Dot == "."
DotDot == ".."
NoName == ""

ASSUME BlocksAssumption == /\ BlocksCountInInode \in Nat \ {0}
                           /\ MaxRecords \in Nat /\ MaxRecords >= 2
                           /\ MaxData \in Nat \ {0}
                           /\ Names \cap {Dot, DotDot, NoName} = {}

AllNames == Names \cup {Dot, DotDot, NoName}

\* get_max_data_size_of_all_blocks.
MaxFile == MaxData * BlocksCountInInode

----------------------------------------------------------------------------
\* Inodes: inode_info (id, is_file, blocks_count) and the array block_ids.

Slots == 0 .. (BlocksCountInInode - 1)

Inodes == [id : InodeIds, isFile : BOOLEAN, count : 0 .. BlocksCountInInode,
           ids : [Slots -> BlockIds]]

\* Bytes of the image that were never written read as zero.
ZeroInode == [id |-> 0, isFile |-> FALSE, count |-> 0, ids |-> [s \in Slots |-> 0]]

\* The inode built by create_dir_helper and create_file_helper.
NewInode(inode, isFile, block) ==
    [id |-> inode, isFile |-> isFile, count |-> 1,
     ids |-> [s \in Slots |-> IF s = 0 THEN block ELSE 0]]

BlocksOf(inode) == {inode.ids[s] : s \in 0 .. (inode.count - 1)}

\* write_to_file appends the block it reserved.
WithBlock_OverLast(inode, block) ==
    [inode EXCEPT !.ids = [@ EXCEPT ![inode.count - 1] = block], !.count = @ + 1]
WithBlock(inode, block) ==
    [inode EXCEPT !.ids = [@ EXCEPT ![inode.count] = block], !.count = @ + 1]

----------------------------------------------------------------------------
\* Blocks: block_info (block_id, inode_id, data_size) and the records.  A block
\* is torn when block_info promises data or a record whose bytes were never
\* written.

Records == [name : AllNames, inode : InodeIds]

BlockContents == [id : BlockIds, owner : InodeIds, size : 0 .. MaxData,
                  records : Seq(Records), torn : BOOLEAN]

ZeroBlock == [id |-> 0, owner |-> 0, size |-> 0, records |-> <<>>, torn |-> FALSE]

\* init_block.
NewBlock(block, owner) == [ZeroBlock EXCEPT !.id = block, !.owner = owner]

\* The block of create_dir_helper.
DotsBlock_OwnParent(block, owner, parent) ==
    [NewBlock(block, owner) EXCEPT !.records = <<[name |-> Dot, inode |-> owner],
                                                [name |-> DotDot, inode |-> owner]>>]
DotsBlock(block, owner, parent) ==
    [NewBlock(block, owner) EXCEPT !.records = <<[name |-> Dot, inode |-> owner],
                                                [name |-> DotDot, inode |-> parent]>>]

\* A slot of the directory that block_info counts but whose record is not
\* written yet: inode_id 0 and an empty path.
BlankRecord == [name |-> NoName, inode |-> 0]

\* mkdir and touch append one record to the parent's block.
WithRecord_Overwrites(block, record) == [block EXCEPT !.records = [@ EXCEPT ![Len(@)] = record]]
WithRecord(block, record) == [block EXCEPT !.records = Append(@, record)]

DirectoryFull_Early(block) == Len(block.records) + 1 >= MaxRecords
DirectoryFull(block) == Len(block.records) = MaxRecords

\* The check shared by read_block and write_block.
Mixed(block) == Len(block.records) # 0 /\ block.size # 0

\* The linear search of get_inode_id_of_dir_rec, is_dir_exist, get_file_inode_id.
HasName_SkipsLast(block, name) == \E k \in 1 .. (Len(block.records) - 1) : block.records[k].name = name
HasName(block, name) == \E k \in DOMAIN block.records : block.records[k].name = name

Lookup(block, name) ==
    LET first == CHOOSE k \in DOMAIN block.records :
                    /\ block.records[k].name = name
                    /\ \A j \in 1 .. (k - 1) : block.records[j].name # name
    IN  block.records[first].inode
=============================================================================
