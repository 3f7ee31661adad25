---------------------------- MODULE Mount_proofs ----------------------------
(***************************************************************************)
(* Theorems about Mount, for superblocks of every size and any other file. *)
(***************************************************************************)
EXTENDS Mount, TLAPS

USE MountAssumption

LEMMA InitTypeOK == Init => TypeOK
<1> SUFFICES ASSUME Init PROVE TypeOK
  OBVIOUS
<1>1. masks \in Masks
  BY DEF Init, Masks
<1>2. length \in Nat /\ need \in Nat /\ offset \in Nat
  BY DEF Init
<1>3. isImage \in BOOLEAN /\ pc = "idle" /\ loop = "header"
  BY Zenon DEF Init
<1> QED
  BY <1>1, <1>2, <1>3, Zenon DEF TypeOK

\* A transfer never moves more than was asked for, so need stays a natural.
LEMMA StepTypeOK == TypeOK /\ [Next]_vars => TypeOK'
<1> SUFFICES ASSUME TypeOK, [Next]_vars PROVE TypeOK'
  OBVIOUS
<1> USE DEF TypeOK
<1>1. CASE OpenToInit \/ OpenToRead
  <2>1. ImageMasks \in Masks
    BY DEF ImageMasks, Masks
  <2>2. length' \in Nat /\ need' \in Nat /\ offset' \in Nat
    BY <1>1 DEF OpenToInit, OpenToRead, Begin, fileVars
  <2>3. isImage' \in BOOLEAN /\ masks' \in Masks
    BY <1>1, <2>1, Zenon DEF OpenToInit, OpenToRead, fileVars
  <2>4. pc' \in {"writing", "reading"} /\ loop' = "header"
    BY <1>1, Zenon DEF OpenToInit, OpenToRead, Begin
  <2> QED
    BY <2>2, <2>3, <2>4
<1>2. CASE WriteSome
  BY <1>2 DEF WriteSome
<1>3. CASE ReadSome
  BY <1>3 DEF ReadSome, fileVars
<1>4. CASE WriteNext \/ ReadNext
  BY <1>4 DEF WriteNext, ReadNext, NextLoop, Masks, fileVars
<1>5. CASE CheckMagic \/ Answer
  BY <1>5 DEF CheckMagic, Answer, fileVars
<1>6. CASE WriteFails \/ ReadFails \/ Kill \/ Restart
  BY <1>6 DEF WriteFails, ReadFails, Kill, Restart, fileVars
<1>7. CASE UNCHANGED vars
  BY <1>7 DEF vars, fileVars
<1> QED
  BY <1>1, <1>2, <1>3, <1>4, <1>5, <1>6, <1>7 DEF Next, Step

(* The loops of read_super_block and write_super_block count no further    *)
(* than to zero, whatever the host moves at a time.                        *)
THEOREM TypeCorrect == Spec => []TypeOK
BY InitTypeOK, StepTypeOK, PTL DEF Spec

(***************************************************************************)
(* The reader: what it has read and what it has still to read are together *)
(* the superblock that fs_info describes, and it has read nothing that is  *)
(* not in the file.                                                        *)
(***************************************************************************)
ReaderInv ==
    /\ isImage => masks = ImageMasks
    /\ pc \in {"reading", "check", "mounted"} => offset <= length
    /\ pc = "reading" => offset + need + LaterLoops = Described
    /\ pc \in {"check", "mounted"} => offset = Described
    /\ pc = "mounted" => isImage

LEMMA InitReaderInv == Init => ReaderInv
BY DEF Init, ReaderInv

LEMMA StepReaderInv == TypeOK /\ ReaderInv /\ [Next]_vars => ReaderInv'
<1> SUFFICES ASSUME TypeOK, ReaderInv, [Next]_vars PROVE ReaderInv'
  OBVIOUS
<1> USE DEF TypeOK, ReaderInv, LaterLoops, Described, Masks
<1>1. CASE OpenToInit
  BY <1>1 DEF OpenToInit, Begin
<1>2. CASE OpenToRead
  BY <1>2 DEF OpenToRead, Begin, fileVars
<1>3. CASE WriteSome
  BY <1>3 DEF WriteSome
<1>4. CASE ReadSome
  BY <1>4 DEF ReadSome, fileVars
<1>5. CASE WriteNext
  BY <1>5 DEF WriteNext, NextLoop, fileVars
<1>6. CASE ReadNext
  <2>1. /\ pc = "reading" /\ need = 0
        /\ UNCHANGED <<length, isImage, masks, offset>>
    BY <1>6 DEF ReadNext, NextLoop, fileVars
  <2>2. CASE loop = "header"
    <3>1. pc' = "reading" /\ loop' = "inodes_mask" /\ need' = masks.inodes
      BY <1>6, <2>1, <2>2 DEF ReadNext, NextLoop
    <3> QED
      BY <2>1, <2>2, <3>1
  <2>3. CASE loop = "inodes_mask"
    <3>1. pc' = "reading" /\ loop' = "blocks_mask" /\ need' = masks.blocks
      BY <1>6, <2>1, <2>3 DEF ReadNext, NextLoop
    <3> QED
      BY <2>1, <2>3, <3>1
  <2>4. CASE loop = "blocks_mask"
    <3>1. pc' = "check"
      BY <1>6, <2>1, <2>4 DEF ReadNext, NextLoop
    <3> QED
      BY <2>1, <2>4, <3>1
  <2> QED
    BY <2>2, <2>3, <2>4
<1>7. CASE CheckMagic \/ Answer
  BY <1>7 DEF CheckMagic, Answer, fileVars
<1>8. CASE WriteFails \/ ReadFails \/ Kill \/ Restart
  BY <1>8 DEF WriteFails, ReadFails, Kill, Restart, fileVars
<1>9. CASE UNCHANGED vars
  BY <1>9 DEF vars, fileVars
<1> QED
  BY <1>1, <1>2, <1>3, <1>4, <1>5, <1>6, <1>7, <1>8, <1>9 DEF Next, Step

(* read_fs accepts nothing but an image with its whole superblock: magic   *)
(* vouches for fs_info, fs_info for the masks, and the reader has read as  *)
(* many bytes as they take.                                                *)
THEOREM OnlyWholeMounted == Spec => []MountsOnlyWhole
<1>1. TypeOK /\ ReaderInv => MountsOnlyWhole
  BY DEF TypeOK, ReaderInv, MountsOnlyWhole, Described, WholeSuperblock, ImageMasks
<1> QED
  BY <1>1, InitTypeOK, StepTypeOK, InitReaderInv, StepReaderInv, PTL DEF Spec
(***************************************************************************)
(* What InitEnds and ReadEnds rest on beside fairness: there is no endless  *)
(* sequence of steps.                                                       *)
(***************************************************************************)
LEMMA StepAdvances == TypeOK /\ Step => 0 <= StepsLeft' /\ StepsLeft' < StepsLeft
<1> SUFFICES ASSUME TypeOK, Step PROVE 0 <= StepsLeft' /\ StepsLeft' < StepsLeft
  OBVIOUS
<1>0. /\ masks.inodes \in Nat /\ masks.blocks \in Nat /\ need \in Nat
      /\ loop \in {"header", "inodes_mask", "blocks_mask"}
  BY DEF TypeOK, Masks
<1>1. CASE WriteSome \/ ReadSome
  <2>1. PICK n \in 1 .. need : need' = need - n
    BY <1>1 DEF WriteSome, ReadSome
  <2>2. /\ pc \in {"writing", "reading"} /\ pc' = pc /\ loop' = loop /\ masks' = masks
    BY <1>1 DEF WriteSome, ReadSome, fileVars
  <2>3. LaterLoops' = LaterLoops /\ LaterLoops \in Nat
    BY <1>0, <2>2 DEF LaterLoops
  <2> QED
    BY <1>0, <2>1, <2>2, <2>3 DEF StepsLeft
<1>2. CASE WriteNext \/ ReadNext
  <2>1. /\ pc \in {"writing", "reading"} /\ need = 0 /\ masks' = masks
    BY <1>2 DEF WriteNext, ReadNext, NextLoop, fileVars
  <2>2. CASE loop = "header"
    <3>1. pc' = pc /\ loop' = "inodes_mask" /\ need' = masks.inodes
      BY <1>2, <2>2 DEF WriteNext, ReadNext, NextLoop
    <3> QED
      BY <1>0, <2>1, <2>2, <3>1 DEF StepsLeft, LaterLoops
  <2>3. CASE loop = "inodes_mask"
    <3>1. pc' = pc /\ loop' = "blocks_mask" /\ need' = masks.blocks
      BY <1>2, <2>3 DEF WriteNext, ReadNext, NextLoop
    <3> QED
      BY <1>0, <2>1, <2>3, <3>1 DEF StepsLeft, LaterLoops
  <2>4. CASE loop = "blocks_mask"
    <3>1. pc' \in {"idle", "check"}
      BY <1>2, <2>4 DEF WriteNext, ReadNext, NextLoop
    <3>2. StepsLeft = 3
      BY <2>1, <2>4 DEF StepsLeft, LaterLoops
    <3>3. StepsLeft' \in {0, 2}
      BY <3>1 DEF StepsLeft
    <3> QED
      BY <3>2, <3>3
  <2> QED
    BY <1>0, <2>2, <2>3, <2>4
<1>3. CASE CheckMagic
  <2>1. StepsLeft = 2 /\ pc' \in {"mounted", "dead"}
    BY <1>3 DEF CheckMagic, StepsLeft
  <2>2. StepsLeft' \in {0, 1}
    BY <2>1 DEF StepsLeft
  <2> QED
    BY <2>1, <2>2
<1>4. CASE Answer
  BY <1>4 DEF Answer, StepsLeft
<1> QED
  BY <1>1, <1>2, <1>3, <1>4 DEF Step

(* read_while and write_while end, for a superblock of any size and however *)
(* the host cuts its transfers: init and read_fs take at most StepsLeft     *)
(* steps more, unless the end of the file leaves them none to take.         *)
THEOREM TransfersAreFinite == Spec => TransfersAdvance
<1>1. TypeOK /\ [Next]_vars => [Step => 0 <= StepsLeft' /\ StepsLeft' < StepsLeft]_vars
  BY StepAdvances
<1> QED
  BY <1>1, TypeCorrect, PTL DEF Spec, TransfersAdvance

=============================================================================
