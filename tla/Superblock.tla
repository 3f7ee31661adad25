----------------------------- MODULE Superblock -----------------------------
(***************************************************************************)
(* core/superblock.c: the two reservation masks of the superblock.  A mask *)
(* (an array of bool in the code) is the set of the ids whose entry is     *)
(* true.  The other fields of fs_info are the constants of the model: they *)
(* are written by init_super_block and never change.                       *)
(***************************************************************************)
EXTENDS Integers

CONSTANTS InodesCount,   \* fs_info.inodes_count
          BlocksCount    \* fs_info.blocks_count

ASSUME MaskSizesAssumption == InodesCount \in Nat \ {0} /\ BlocksCount \in Nat \ {0}

InodeIds == 0 .. (InodesCount - 1)
BlockIds == 0 .. (BlocksCount - 1)

\* ROOT_INODE_ID and ROOT_BLOCK_ID of defines.h.
RootInode == 0
RootBlock == 0

(* The scan shared by reserve_inode and reserve_block: the first id of the *)
(* mask that is not set, or count when every id is set.                    *)
FirstFree(count, mask) ==
    IF 0 .. (count - 1) \subseteq mask
    THEN count
    ELSE CHOOSE id \in (0 .. (count - 1)) \ mask :
            \A other \in (0 .. (count - 1)) \ mask : id <= other

\* The ids returned; the code also sets the mask's entry.
ReserveInode(mask) == FirstFree(InodesCount, mask)
ReserveBlock(mask) == FirstFree(BlocksCount, mask)
=============================================================================
