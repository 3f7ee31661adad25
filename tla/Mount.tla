------------------------------- MODULE Mount --------------------------------
(***************************************************************************)
(* utils.c read_while and write_while, byte by byte, in the two commands   *)
(* that use them on an image of which nothing is known: init, up to the    *)
(* end of its first write_super_block, and read_fs.  The host may move     *)
(* fewer bytes than asked, it may fail, and the process may be killed.     *)
(***************************************************************************)
EXTENDS Integers

CONSTANTS HeaderSize,    \* sizeof(struct fs_info)
          InodesCount,   \* the bytes of the two masks
          BlocksCount,
          OtherFiles,    \* the lengths of files that are not images
          OtherMasks     \* what their first bytes say of the masks

ASSUME MountAssumption ==
    /\ HeaderSize \in Nat \ {0} /\ InodesCount \in Nat \ {0} /\ BlocksCount \in Nat \ {0}
    /\ OtherFiles \subseteq Nat /\ OtherMasks \subseteq Nat

Masks == [inodes : Nat, blocks : Nat]
ImageMasks == [inodes |-> InodesCount, blocks |-> BlocksCount]

VARIABLES
    length,    \* of the file
    isImage,   \* are its bytes those that init writes
    masks,     \* the sizes that fs_info gives, or that stand in its place
    pc,        \* "idle", "writing", "reading", "check", "mounted", "unread", "dead"
    loop,      \* which of the three loops of the superblock the process is in
    need,      \* to_read - total, to_write - total
    offset     \* the offset of the host's descriptor

fileVars == <<length, isImage, masks>>
vars == <<fileVars, pc, loop, need, offset>>

Init ==
    /\ isImage = FALSE /\ length \in OtherFiles \cup {0}
    /\ masks \in [inodes : OtherMasks, blocks : OtherMasks]
    /\ pc = "idle" /\ loop = "header" /\ need = 0 /\ offset = 0

Begin(step) == pc' = step /\ loop' = "header" /\ need' = HeaderSize /\ offset' = 0

\* init_fs: open() with O_TRUNC.
OpenToInit ==
    /\ pc = "idle"
    /\ Begin("writing")
    /\ length' = 0 /\ isImage' = TRUE /\ masks' = ImageMasks

\* read_fs: open() with O_CREAT, so that a missing file becomes an empty one.
OpenToRead ==
    /\ pc = "idle"
    /\ Begin("reading")
    /\ UNCHANGED fileVars

(* read_super_block and write_super_block: the loop that has moved its     *)
(* bytes is followed by the next; how long that is stands in fs_info.      *)
NextLoop_OneMask(end) ==
    /\ need = 0
    /\ IF loop = "header"
       THEN pc' = pc /\ loop' = "inodes_mask" /\ need' = masks.inodes
       ELSE pc' = end /\ UNCHANGED <<loop, need>>
    /\ UNCHANGED <<fileVars, offset>>
NextLoop_OneTooMany(end) ==
    /\ need < 0    \* while (total <= to_write): write() of nothing for ever
    /\ pc' = end /\ UNCHANGED <<fileVars, loop, need, offset>>
NextLoop(end) ==
    /\ need = 0
    /\ CASE loop = "header" ->
                pc' = pc /\ loop' = "inodes_mask" /\ need' = masks.inodes
         [] loop = "inodes_mask" ->
                pc' = pc /\ loop' = "blocks_mask" /\ need' = masks.blocks
         [] loop = "blocks_mask" ->
                pc' = end /\ UNCHANGED <<loop, need>>
    /\ UNCHANGED <<fileVars, offset>>

WriteSome_ForgetsTotal ==
    /\ pc = "writing" /\ need # 0
    /\ \E n \in 1 .. need : offset' = offset + n /\ length' = offset + n
    /\ UNCHANGED <<isImage, masks, pc, loop, need>>

\* write() moves at least one byte, perhaps not all.
WriteSome ==
    /\ pc = "writing" /\ need # 0
    /\ \E n \in 1 .. need : /\ need' = need - n /\ offset' = offset + n
                            /\ length' = offset + n
    /\ UNCHANGED <<isImage, masks, pc, loop>>

WriteNext == pc = "writing" /\ NextLoop("idle")

(* read() moves at least one byte if there is one.  At the end of the file *)
(* it returns 0, and the loop turns on without a change of state.          *)
ReadSome_AsksForAll ==
    LET size == CASE loop = "header" -> HeaderSize
                  [] loop = "inodes_mask" -> masks.inodes
                  [] loop = "blocks_mask" -> masks.blocks
    IN  /\ pc = "reading" /\ need # 0
        /\ \E n \in 1 .. size : /\ offset + n <= length
                                /\ need' = need - n /\ offset' = offset + n
        /\ UNCHANGED <<fileVars, pc, loop>>
ReadSome ==
    /\ pc = "reading" /\ need # 0
    /\ \E n \in 1 .. need : /\ offset + n <= length
                            /\ need' = need - n /\ offset' = offset + n
    /\ UNCHANGED <<fileVars, pc, loop>>

ReadNext == pc = "reading" /\ NextLoop("check")

\* read_fs compares magic; no other file has it.
CheckMagic ==
    /\ pc = "check"
    /\ pc' = IF isImage THEN "mounted" ELSE "dead"
    /\ UNCHANGED <<fileVars, loop, need, offset>>

Answer ==
    /\ pc \in {"mounted", "unread"}
    /\ pc' = "idle"
    /\ UNCHANGED <<fileVars, loop, need, offset>>

WriteFails ==
    /\ pc = "writing" /\ need # 0
    /\ pc' = "dead"
    /\ UNCHANGED <<fileVars, loop, need, offset>>

(* read_super_block releases the superblock and returns -1, which read_fs  *)
(* ignores: it compares what is left of magic in the memory released, and  *)
(* goes on without having read the image, or exits.                        *)
ReadFails ==
    /\ pc = "reading" /\ need # 0
    /\ pc' \in {"dead", "unread"}
    /\ UNCHANGED <<fileVars, loop, need, offset>>

Kill ==
    /\ pc \in {"writing", "reading"}
    /\ pc' = "dead"
    /\ UNCHANGED <<fileVars, loop, need, offset>>

Restart ==
    /\ pc = "dead"
    /\ pc' = "idle"
    /\ UNCHANGED <<fileVars, loop, need, offset>>

Step == WriteSome \/ WriteNext \/ ReadSome \/ ReadNext \/ CheckMagic \/ Answer

Next == OpenToInit \/ OpenToRead \/ Step \/ WriteFails \/ ReadFails \/ Kill \/ Restart

Spec == Init /\ [][Next]_vars

\* The process goes on as long as the host gives it something to do.
FairSpec == Spec /\ WF_vars(Step)

----------------------------------------------------------------------------
(* Properties.                                                             *)

TypeOK ==
    /\ length \in Nat /\ isImage \in BOOLEAN /\ masks \in Masks
    /\ pc \in {"idle", "writing", "reading", "check", "mounted", "unread", "dead"}
    /\ loop \in {"header", "inodes_mask", "blocks_mask"}
    /\ need \in Nat /\ offset \in Nat

(* read_fs: what it accepts after reading without an error is an image of  *)
(* which init had written the whole superblock before it was interrupted,  *)
(* although magic stands in front of the masks.                            *)
WholeSuperblock == HeaderSize + InodesCount + BlocksCount
MountsOnlyWhole == pc = "mounted" => isImage /\ length >= WholeSuperblock

\* What the loops that follow this one will ask for.
LaterLoops == CASE loop = "header" -> masks.inodes + masks.blocks
                [] loop = "inodes_mask" -> masks.blocks
                [] loop = "blocks_mask" -> 0

(* The most steps init or read_fs can still take: a byte a call at worst,  *)
(* one to leave each of the three loops, the check and the answer.         *)
StepsLeft ==
    CASE pc \in {"writing", "reading"} ->
                need + LaterLoops + (CASE loop = "header" -> 5
                                       [] loop = "inodes_mask" -> 4
                                       [] loop = "blocks_mask" -> 3)
      [] pc = "check" -> 2
      [] pc \in {"mounted", "unread"} -> 1
      [] OTHER -> 0

(* read_while and write_while: however few bytes the host moves, every     *)
(* call that moves one brings the superblock nearer to its end.            *)
TransfersAdvance == [][Step => 0 <= StepsLeft' /\ StepsLeft' < StepsLeft]_vars

(* write_while: short writes do not keep init from writing everything.     *)
InitEnds == pc = "writing" ~> pc \in {"idle", "dead"}

(* read_while: short reads do not keep read_fs from ending, if the file is *)
(* as long as its first bytes say.  On any other it hangs.                 *)
Described == HeaderSize + masks.inodes + masks.blocks
ReadEnds == pc = "reading" /\ length >= Described ~> pc # "reading"
=============================================================================
