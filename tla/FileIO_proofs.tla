--------------------------- MODULE FileIO_proofs ----------------------------
(***************************************************************************)
(* Theorems about FileIO, for blocks, files, writes and reads of every     *)
(* size: what is written is read back, what is read are the data, and for  *)
(* a user who writes at the end the file is that of AppendFile.            *)
(***************************************************************************)
EXTENDS FileIO, TLAPS

\* Blocks and files are not empty.
LEMMA Positive == MaxData \in Nat \ {0} /\ BlocksCountInInode \in Nat \ {0}
BY FileIOAssumption

\* A byte of what a command has moved so far is one of its last chunk or older.
LEMMA ChunkByte ==
    ASSUME NEW d \in Nat, NEW size \in Nat, NEW start \in Nat, NEW p, p = start + d,
           NEW k \in Nat, d < k, k <= d + size
    PROVE  /\ k - d \in 1 .. size /\ d + (k - d) = k
           /\ p + ((k - d) - 1) = start + k - 1 /\ (k - d) - 1 \in Nat
OBVIOUS

\* The bytes of a chunk lie in front of the end it keeps to.
LEMMA StaysIn ==
    ASSUME NEW size \in Nat, NEW end \in 0 .. MaxData, NEW offset \in Nat,
           offset + size <= end, NEW j \in 1 .. size
    PROVE  /\ offset + j \in 1 .. end /\ offset + j <= MaxData
           /\ offset + (j - 1) < MaxData /\ j - 1 \in Nat
           /\ offset + (j - 1) < end /\ offset + (j - 1) + 1 = offset + j
BY Positive

\* What a turn takes of a block that reaches its offset is in the block.
LEMMA TakeFits ==
    ASSUME NEW block, block.size \in Nat, NEW offset \in Nat, NEW need \in Nat,
           offset < block.size
    PROVE  /\ Take(block, offset, need) \in Nat
           /\ offset + Take(block, offset, need) <= block.size
<1> DEFINE size == block.size
<1>1. Take(block, offset, need) = Smaller(need, size - offset)
  BY DEF Take
<1>2. size \in Nat /\ offset < size
  OBVIOUS
<1> HIDE DEF size
<1>3. /\ Smaller(need, size - offset) \in Nat
      /\ offset + Smaller(need, size - offset) <= size
  BY <1>2 DEF Smaller
<1> QED
  BY <1>1, <1>3 DEF size

USE Positive

----------------------------------------------------------------------------
(* Positions, blocks and offsets: the arithmetic of div and mod.           *)

\* A block further on begins behind the whole of this one.
LEMMA Monotone ==
    ASSUME NEW m \in Nat, NEW b \in Nat, NEW c \in Nat, b < c
    PROVE  m * b + m <= m * c
<1>1. PICK d \in Nat : c = b + 1 + d
  <2>1. c - b - 1 \in Nat /\ c = b + 1 + (c - b - 1)
    OBVIOUS
  <2> QED
    BY <2>1
<1>2. m * c = m * b + m + m * d /\ m * d \in Nat
  BY <1>1
<1> QED
  BY <1>2

\* A position is that of its offset in its block ...
LEMMA BlockAndOffset ==
    ASSUME NEW p \in Nat
    PROVE  /\ BlockIndex(p) \in Nat
           /\ Offset(p) \in 0 .. (MaxData - 1)
           /\ p = MaxData * BlockIndex(p) + Offset(p)
BY DEF BlockIndex, Offset

\* ... and of no other offset in no other block.
LEMMA PositionOf ==
    ASSUME NEW b \in Nat, NEW o \in 0 .. (MaxData - 1)
    PROVE  BlockIndex(MaxData * b + o) = b /\ Offset(MaxData * b + o) = o
<1> DEFINE p == MaxData * b + o
           c == BlockIndex(p)
           u == Offset(p)
<1>1. MaxData * b \in Nat /\ p \in Nat
  OBVIOUS
<1>2. /\ c \in Nat /\ u \in 0 .. (MaxData - 1)
      /\ MaxData * b + o = MaxData * c + u
  BY <1>1, BlockAndOffset
<1> HIDE DEF c, u, p
<1>3. ~ b < c
  BY <1>1, <1>2, Monotone
<1>4. ~ c < b
  BY <1>1, <1>2, Monotone
<1>5. b = c
  BY <1>2, <1>3, <1>4
<1>6. u = o
  BY <1>1, <1>2, <1>5
<1> QED
  BY <1>5, <1>6 DEF c, u, p

\* Steps that stay in front of the end of a block ...
LEMMA SameBlock ==
    ASSUME NEW p \in Nat, NEW j \in Nat, Offset(p) + j < MaxData
    PROVE  BlockIndex(p + j) = BlockIndex(p) /\ Offset(p + j) = Offset(p) + j
<1>1. /\ BlockIndex(p) \in Nat /\ Offset(p) \in Nat
      /\ p = MaxData * BlockIndex(p) + Offset(p)
  BY BlockAndOffset
<1>2. p + j = MaxData * BlockIndex(p) + (Offset(p) + j) /\ Offset(p) + j \in 0 .. (MaxData - 1)
  BY <1>1
<1> QED
  BY <1>1, <1>2, PositionOf

\* ... and those that end there, as turns of write_to_file do.
LEMMA NextBlock ==
    ASSUME NEW p \in Nat, NEW j \in Nat, Offset(p) + j = MaxData
    PROVE  BlockIndex(p + j) = BlockIndex(p) + 1 /\ Offset(p + j) = 0
<1>1. /\ BlockIndex(p) \in Nat /\ Offset(p) \in Nat
      /\ p = MaxData * BlockIndex(p) + Offset(p)
  BY BlockAndOffset
<1>2. p + j = MaxData * (BlockIndex(p) + 1) + 0
  BY <1>1
<1>3. BlockIndex(p) + 1 \in Nat /\ 0 \in 0 .. (MaxData - 1)
  BY <1>1
<1>4. /\ BlockIndex(MaxData * (BlockIndex(p) + 1) + 0) = BlockIndex(p) + 1
      /\ Offset(MaxData * (BlockIndex(p) + 1) + 0) = 0
  BY <1>3, PositionOf, Zenon
<1> QED
  BY <1>2, <1>4, Zenon

\* What lies in front of a block's first byte is in an earlier block.
LEMMA EarlierBlock ==
    ASSUME NEW p \in Nat, NEW q \in Nat, q < p, Offset(p) = 0
    PROVE  BlockIndex(q) < BlockIndex(p)
<1>1. /\ BlockIndex(p) \in Nat /\ BlockIndex(q) \in Nat /\ Offset(q) \in Nat
      /\ p = MaxData * BlockIndex(p) /\ q = MaxData * BlockIndex(q) + Offset(q)
  <2>1. p = MaxData * BlockIndex(p) + 0 /\ BlockIndex(p) \in Nat
    BY BlockAndOffset, Zenon
  <2>2. q = MaxData * BlockIndex(q) + Offset(q) /\ BlockIndex(q) \in Nat
        /\ Offset(q) \in 0 .. (MaxData - 1)
    BY BlockAndOffset, Zenon
  <2> QED
    BY <2>1, <2>2
<1>2. ~ BlockIndex(p) < BlockIndex(q)
  BY <1>1, Monotone
<1>3. BlockIndex(p) # BlockIndex(q)
  BY <1>1
<1> QED
  BY <1>1, <1>2, <1>3

\* Slots of an inode and positions of the largest file end together.
LEMMA BehindTheLargest ==
    ASSUME NEW p \in Nat
    PROVE  /\ MaxFile \in Nat \ {0}
           /\ BlockIndex(p) >= BlocksCountInInode => p >= MaxFile
           /\ BlockIndex(p) < BlocksCountInInode => p < MaxFile
<1>1. /\ BlockIndex(p) \in Nat /\ Offset(p) \in 0 .. (MaxData - 1)
      /\ p = MaxData * BlockIndex(p) + Offset(p)
  BY BlockAndOffset
<1>2. MaxFile \in Nat \ {0}
  BY DEF MaxFile
<1>3. BlockIndex(p) > BlocksCountInInode => p >= MaxFile
  BY <1>1, Monotone DEF MaxFile
<1>4. BlockIndex(p) < BlocksCountInInode => p < MaxFile
  BY <1>1, Monotone DEF MaxFile
<1>5. BlockIndex(p) = BlocksCountInInode => p >= MaxFile
  BY <1>1 DEF MaxFile
<1> QED
  BY <1>1, <1>2, <1>3, <1>4, <1>5

----------------------------------------------------------------------------
(* Sequences of bytes and blocks.                                          *)

\* What SubSeq and concatenation do to the bytes.
LEMMA PartOf ==
    ASSUME NEW S, NEW s \in Seq(S), NEW m \in Nat, NEW n \in Nat, m + n <= Len(s)
    PROVE  /\ SubSeq(s, m + 1, m + n) \in Seq(S)
           /\ Len(SubSeq(s, m + 1, m + n)) = n
           /\ \A k \in 1 .. n : SubSeq(s, m + 1, m + n)[k] = s[m + k]
OBVIOUS

LEMMA Joined ==
    ASSUME NEW S, NEW s \in Seq(S), NEW t \in Seq(S)
    PROVE  /\ s \o t \in Seq(S)
           /\ Len(s \o t) = Len(s) + Len(t)
           /\ \A k \in 1 .. Len(s) : (s \o t)[k] = s[k]
           /\ \A k \in 1 .. Len(t) : (s \o t)[Len(s) + k] = t[k]
OBVIOUS

\* read_block keeps what is in front of data_size.
LEMMA LoadedKeeps ==
    ASSUME NEW block \in Blocks
    PROVE  /\ Loaded(block) \in Blocks
           /\ Loaded(block).size = block.size
           /\ \A k \in 1 .. block.size : Loaded(block).bytes[k] = block.bytes[k]
<1>1. PICK size \in 0 .. MaxData, old \in [1 .. MaxData -> AnyByte] :
            block = [size |-> size, bytes |-> old]
  BY DEF Blocks
<1> DEFINE bytes == [k \in 1 .. MaxData |-> IF k <= block.size THEN block.bytes[k] ELSE Zero]
<1>2. Loaded(block) = [block EXCEPT !.bytes = bytes]
  BY DEF Loaded
<1>3. bytes \in [1 .. MaxData -> AnyByte]
  BY <1>1 DEF AnyByte
<1>4. \A k \in 1 .. size : bytes[k] = old[k]
  BY <1>1
<1> HIDE DEF bytes
<1> QED
  BY <1>1, <1>2, <1>3, <1>4 DEF Blocks

\* A turn of write_to_file puts its chunk where it should.
LEMMA PutKeeps ==
    ASSUME NEW block \in Blocks, NEW offset \in 0 .. (MaxData - 1),
           NEW chunk \in Seq(AnyByte), offset + Len(chunk) <= MaxData
    PROVE  /\ Put(block, offset, chunk) \in Blocks
           /\ Put(block, offset, chunk).size = offset + Len(chunk)
           /\ \A j \in 1 .. Len(chunk) : Put(block, offset, chunk).bytes[offset + j] = chunk[j]
<1> DEFINE bytes == [k \in 1 .. MaxData |-> IF k \in offset + 1 .. offset + Len(chunk)
                                            THEN chunk[k - offset] ELSE block.bytes[k]]
<1>1. Put(block, offset, chunk) = [size |-> offset + Len(chunk), bytes |-> bytes]
  BY DEF Put
<1>2. bytes \in [1 .. MaxData -> AnyByte]
  <2>1. block.bytes \in [1 .. MaxData -> AnyByte]
    BY DEF Blocks
  <2>2. \A k \in 1 .. MaxData : k \in offset + 1 .. offset + Len(chunk) =>
            chunk[k - offset] \in AnyByte
    OBVIOUS
  <2> QED
    BY <2>1, <2>2
<1>3. \A j \in 1 .. Len(chunk) : bytes[offset + j] = chunk[j]
  OBVIOUS
<1>4. offset + Len(chunk) \in 0 .. MaxData
  OBVIOUS
<1> HIDE DEF bytes
<1> QED
  BY <1>1, <1>2, <1>3, <1>4 DEF Blocks

LEMMA ZeroBlockType == ZeroBlock \in Blocks
BY DEF ZeroBlock, Blocks, AnyByte

\* Whatever read_file finds in a slot is a block.
LEMMA SlotType ==
    ASSUME file \in Seq(Blocks), NEW index \in Nat, NEW block \in Slot(index)
    PROVE  block \in Blocks
<1>1. CASE index < Len(file)
  <2>1. file[index + 1] \in Blocks /\ block = Loaded(file[index + 1])
    BY <1>1 DEF Slot
  <2> QED
    BY <2>1, LoadedKeeps
<1>2. CASE ~ index < Len(file) /\ index < BlocksCountInInode
  BY <1>2, ZeroBlockType DEF Slot
<1>3. CASE ~ index < Len(file) /\ ~ index < BlocksCountInInode
  BY <1>3 DEF Slot, Blocks, AnyByte
<1> QED
  BY <1>1, <1>2, <1>3

\* What a turn of read_file copies are bytes.
LEMMA CopiedType ==
    ASSUME NEW block \in Blocks, NEW offset \in Nat, NEW size \in Nat
    PROVE  /\ Copied(block, offset, size) \in Seq(AnyByte)
           /\ Len(Copied(block, offset, size)) = size
           /\ \A k \in 1 .. size : offset + k <= MaxData =>
                    Copied(block, offset, size)[k] = block.bytes[offset + k]
<1>1. Copied(block, offset, size) \in [1 .. size -> AnyByte]
  BY DEF Copied, Blocks, AnyByte
<1> QED
  BY <1>1 DEF Copied

LEMMA MaxFileType == MaxFile \in Nat \ {0}
BY DEF MaxFile

\* No command is asked for more than the largest file.
LEMMA ClippedType ==
    ASSUME NEW size \in Nat
    PROVE  Clipped(size) \in Nat /\ Clipped(size) <= size /\ Clipped(size) <= MaxFile
BY MaxFileType DEF Clipped, Smaller

\* What a turn of write_to_file takes of the data.
LEMMA ChunkFits ==
    ASSUME TypeOK, pc = "write_loop", Len(done) # Len(data)
    PROVE  LET offset == Offset(pos)
               size == Smaller(Len(data) - Len(done), MaxData - offset)
               chunk == SubSeq(data, Len(done) + 1, Len(done) + size)
           IN  /\ offset \in 0 .. (MaxData - 1)
               /\ size \in Nat \ {0} /\ offset + size <= MaxData
               /\ Len(done) + size <= Len(data)
               /\ Len(done) + size = Len(data) \/ offset + size = MaxData
               /\ chunk \in Seq(AnyByte) /\ Len(chunk) = size
               /\ \A k \in 1 .. size : chunk[k] = data[Len(done) + k]
<1> DEFINE offset == Offset(pos)
           size == Smaller(Len(data) - Len(done), MaxData - offset)
<1>1. /\ Len(done) \in Nat /\ Len(data) \in Nat /\ Len(done) < Len(data)
      /\ data \in Seq(AnyByte) /\ pos \in Nat
  BY DEF TypeOK
<1>2. offset \in 0 .. (MaxData - 1)
  BY <1>1, BlockAndOffset
<1> HIDE DEF offset
<1>3. /\ size \in Nat \ {0} /\ offset + size <= MaxData
      /\ Len(done) + size <= Len(data)
      /\ Len(done) + size = Len(data) \/ offset + size = MaxData
  BY <1>1, <1>2 DEF Smaller
<1> HIDE DEF size
<1>4. LET chunk == SubSeq(data, Len(done) + 1, Len(done) + size)
      IN  /\ chunk \in Seq(AnyByte) /\ Len(chunk) = size
          /\ \A k \in 1 .. size : chunk[k] = data[Len(done) + k]
  BY <1>1, <1>3, PartOf
<1> QED
  BY <1>2, <1>3, <1>4 DEF offset, size

----------------------------------------------------------------------------
(* Types.                                                                  *)

Outcomes == [pos : Nat, size : Nat, bytes : Seq(AnyByte), dense : BOOLEAN]

TypeInv == TypeOK /\ written \in Outcomes /\ answer \in Outcomes

LEMMA EmptyType == <<>> \in Seq(AnyByte) /\ Len(<<>>) = 0
OBVIOUS

LEMMA NothingType == Nothing \in Outcomes
BY DEF Nothing, Outcomes

LEMMA InitType == Init => TypeInv
<1> SUFFICES ASSUME Init PROVE TypeInv
  OBVIOUS
<1>1. file \in Seq(Blocks) /\ Len(file) \in 1 .. BlocksCountInInode
  BY ZeroBlockType DEF Init
<1>2. free \in Nat /\ host \in Seq(AnyByte)
  BY FileIOAssumption DEF Init, AnyByte
<1>3. written \in Outcomes /\ answer \in Outcomes
  BY NothingType DEF Init
<1>4. /\ position \in Nat /\ pos \in Nat /\ asked \in Nat /\ toHost \in BOOLEAN
      /\ data \in Seq(AnyByte) /\ done \in Seq(AnyByte) /\ pc = "idle"
  BY EmptyType DEF Init
<1> QED
  BY <1>1, <1>2, <1>3, <1>4, Zenon DEF TypeInv, TypeOK

\* The locals of a command that has ended.
LEMMA ForgetType ==
    ASSUME Forget
    PROVE  /\ data' \in Seq(AnyByte) /\ done' \in Seq(AnyByte)
           /\ pos' \in Nat /\ asked' \in Nat /\ toHost' \in BOOLEAN
BY EmptyType DEF Forget

LEMMA StartWriteType ==
    ASSUME TypeInv, NEW bytes \in Seq(AnyByte), StartWrite(bytes)
    PROVE  TypeInv'
<1>1. Len(bytes) \in Nat
  OBVIOUS
<1>2. data' \in Seq(AnyByte) /\ Len(data') \in Nat /\ Len(data') <= MaxFile
  BY <1>1, ClippedType DEF StartWrite
<1>3. written' \in Outcomes /\ answer' \in Outcomes
  <2>1. written' = [Nothing EXCEPT !.dense = BlockIndex(position) <= Len(file)]
        /\ answer' = Nothing
    BY DEF StartWrite
  <2>2. (BlockIndex(position) <= Len(file)) \in BOOLEAN
    OBVIOUS
  <2> QED
    BY <2>1, <2>2, NothingType DEF Outcomes
<1>4. /\ pc' = "write_loop" /\ done' = <<>> /\ pos' = position /\ asked' = 0
      /\ UNCHANGED <<file, free, position, host, toHost>>
  BY DEF StartWrite
<1> QED
  BY <1>2, <1>3, <1>4, EmptyType DEF TypeInv, TypeOK

LEMMA EndWriteType ==
    ASSUME TypeInv, NEW next \in {"idle", "dead"}, EndWrite(next),
           UNCHANGED file, free' \in Nat
    PROVE  TypeInv'
<1>1. written' \in Outcomes /\ answer' \in Outcomes
  <2>1. /\ position \in Nat /\ Len(data) \in Nat /\ done \in Seq(AnyByte)
        /\ written \in Outcomes /\ answer \in Outcomes
    BY DEF TypeInv, TypeOK
  <2> QED
    BY <2>1 DEF EndWrite, Outcomes
<1>2. pc' = next /\ position' = pos /\ host' = host /\ Forget
  BY DEF EndWrite
<1> QED
  BY <1>1, <1>2, ForgetType DEF TypeInv, TypeOK

LEMMA EndReadType == ASSUME TypeInv, EndRead PROVE TypeInv'
<1>1. written' \in Outcomes /\ answer' \in Outcomes
  <2>1. /\ position \in Nat /\ asked \in Nat /\ done \in Seq(AnyByte) /\ written \in Outcomes
    BY DEF TypeInv, TypeOK
  <2> QED
    BY <2>1, NothingType DEF EndRead, Outcomes
<1>2. pc' \in {"idle", "host_write"} /\ position' = pos /\ UNCHANGED <<file, free, host>> /\ Forget
  BY DEF EndRead
<1> QED
  BY <1>1, <1>2, ForgetType DEF TypeInv, TypeOK

LEMMA WriteTurnType == ASSUME TypeInv, WriteTurn PROVE TypeInv'
<1> DEFINE index == BlockIndex(pos)
           offset == Offset(pos)
           size == Smaller(Len(data) - Len(done), MaxData - offset)
           chunk == SubSeq(data, Len(done) + 1, Len(done) + size)
<1>1. /\ TypeOK /\ pc = "write_loop" /\ Len(done) # Len(data)
      /\ written \in Outcomes /\ answer \in Outcomes
  BY DEF TypeInv, WriteTurn
<1>2. /\ offset \in 0 .. (MaxData - 1) /\ size \in Nat \ {0} /\ offset + size <= MaxData
      /\ Len(done) + size <= Len(data)
      /\ chunk \in Seq(AnyByte) /\ Len(chunk) = size
  BY <1>1, ChunkFits
<1>3. index \in Nat
  BY <1>1, BlockAndOffset DEF TypeOK
<1>4. CASE EndWrite("dead") /\ UNCHANGED file /\ free' \in Nat
  BY <1>4, EndWriteType
<1> DEFINE turn == /\ pos' = pos + size /\ done' = done \o chunk
                   /\ UNCHANGED <<position, host, pc, data, asked, toHost, written, answer>>
<1>5. ASSUME file' \in Seq(Blocks), Len(file') \in 1 .. BlocksCountInInode, free' \in Nat, turn
      PROVE  TypeInv'
  <2>1. /\ done' \in Seq(AnyByte) /\ Len(done') <= Len(data') /\ pos' \in Nat
    <3>1. /\ done \in Seq(AnyByte) /\ Len(done) \in Nat /\ pos \in Nat
          /\ done' = done \o chunk /\ pos' = pos + size /\ data' = data
      BY <1>1, <1>5 DEF TypeOK
    <3> HIDE DEF size, chunk
    <3>2. done' \in Seq(AnyByte) /\ Len(done') = Len(done) + size
      BY <1>2, <3>1, Joined
    <3> QED
      BY <1>2, <3>1, <3>2
  <2> QED
    BY <1>1, <1>5, <2>1 DEF TypeOK, TypeInv
<1>6. CASE index < Len(file) /\ file' = [file EXCEPT ![index + 1] = Put(Loaded(@), offset, chunk)]
           /\ free' = free /\ turn
  <2>1. index + 1 \in 1 .. Len(file) /\ file \in Seq(Blocks) /\ file[index + 1] \in Blocks
        /\ Len(file) \in 1 .. BlocksCountInInode /\ free \in Nat
    <3>1. file \in Seq(Blocks) /\ Len(file) \in 1 .. BlocksCountInInode /\ free \in Nat
      BY <1>1 DEF TypeOK
    <3>2. index + 1 \in 1 .. Len(file)
      <4>1. index \in Nat /\ Len(file) \in Nat /\ index < Len(file)
        BY <1>3, <1>6, <3>1
      <4> QED
        BY <4>1
    <3> QED
      BY <3>1, <3>2
  <2>2. Put(Loaded(file[index + 1]), offset, chunk) \in Blocks
    BY <1>2, <2>1, LoadedKeeps, PutKeeps
  <2>3. file' \in Seq(Blocks) /\ Len(file') = Len(file)
    <3> HIDE DEF index, offset, chunk, turn
    <3> QED
      BY <1>6, <2>1, <2>2
  <2> QED
    BY <1>5, <1>6, <2>1, <2>3
<1>7. CASE Len(file) # BlocksCountInInode /\ file' = Append(file, Put(ZeroBlock, offset, chunk))
           /\ free # 0 /\ free' = free - 1 /\ turn
  <2>1. Put(ZeroBlock, offset, chunk) \in Blocks
    BY <1>2, ZeroBlockType, PutKeeps
  <2>2. file \in Seq(Blocks) /\ Len(file) \in 1 .. BlocksCountInInode /\ free \in Nat
    BY <1>1 DEF TypeOK
  <2>3. file' \in Seq(Blocks) /\ Len(file') \in 1 .. BlocksCountInInode /\ free' \in Nat
    <3> HIDE DEF offset, chunk, turn
    <3> QED
      BY <1>7, <2>1, <2>2
  <2> QED
    BY <1>5, <1>7, <2>3
<1> QED
  <2>1. free \in Nat
    BY <1>1 DEF TypeOK
  <2>2. free # 0 => free - 1 \in Nat
    BY <2>1
  <2> QED
    BY <1>4, <1>6, <1>7, <2>1, <2>2, Zenon DEF WriteTurn

LEMMA ReadTurnType == ASSUME TypeInv, ReadTurn PROVE TypeInv'
<1> DEFINE index == BlockIndex(pos)
           offset == Offset(pos)
           need == asked - Len(done)
<1>1. /\ TypeOK /\ written \in Outcomes /\ answer \in Outcomes
      /\ pc = "read_loop" /\ Len(done) # asked
      /\ file \in Seq(Blocks) /\ pos \in Nat /\ done \in Seq(AnyByte)
      /\ asked \in Nat /\ Len(done) <= asked
  BY DEF TypeInv, ReadTurn, TypeOK
<1>2. index \in Nat /\ offset \in 0 .. (MaxData - 1)
  BY <1>1, BlockAndOffset
<1>2a. need \in Nat
  BY <1>1
<1>3. CASE EndRead
  BY <1>3, EndReadType
<1>4. CASE \E block \in Slot(index) :
              /\ block.size # offset
              /\ pos' = pos + Take(block, offset, need)
              /\ done' = done \o Copied(block, offset, Take(block, offset, need))
              /\ UNCHANGED <<file, free, position, host, pc, data, asked, toHost,
                             written, answer>>
  <2>1. PICK block \in Slot(index) :
              /\ pos' = pos + Take(block, offset, need)
              /\ done' = done \o Copied(block, offset, Take(block, offset, need))
              /\ UNCHANGED <<file, free, position, host, pc, data, asked, toHost,
                             written, answer>>
    BY <1>4
  <2>2. block \in Blocks
    BY <1>1, <1>2, SlotType
  <2>3. Take(block, offset, need) \in Nat /\ Take(block, offset, need) <= need
    BY <1>2, <1>2a, <2>2 DEF Take, Smaller, Blocks
  <2>4. /\ Copied(block, offset, Take(block, offset, need)) \in Seq(AnyByte)
        /\ Len(Copied(block, offset, Take(block, offset, need))) = Take(block, offset, need)
    BY <1>2, <2>2, <2>3, CopiedType
  <2>5. done' \in Seq(AnyByte) /\ Len(done') <= asked /\ pos' \in Nat
    BY <1>1, <2>1, <2>3, <2>4, Joined
  <2> QED
    BY <1>1, <2>1, <2>5 DEF TypeInv, TypeOK
<1>5. CASE pc' \in {"stuck", "dead"} /\ Forget
           /\ UNCHANGED <<file, free, position, host, written, answer>>
  BY <1>1, <1>5, ForgetType DEF TypeInv, TypeOK
<1> QED
  BY <1>3, <1>4, <1>5 DEF ReadTurn

\* What the user and other programs give.
LEMMA InputType ==
    /\ \A n \in Lengths : \A bytes \in [1 .. n -> Bytes] : bytes \in Seq(AnyByte)
    /\ \A bytes \in HostFiles : bytes \in Seq(AnyByte)
    /\ Positions \subseteq Nat /\ Sizes \subseteq Nat
<1>1. \A n \in Lengths : \A bytes \in [1 .. n -> Bytes] : bytes \in Seq(AnyByte)
  BY FileIOAssumption DEF AnyByte
<1>2. \A bytes \in HostFiles : bytes \in Seq(AnyByte)
  BY FileIOAssumption DEF AnyByte
<1> QED
  BY <1>1, <1>2, FileIOAssumption, Zenon

LEMMA HostType ==
    ASSUME TypeInv, StatHost \/ ReadHost \/ WriteHost \/ ChangeHost
    PROVE  TypeInv'
<1> USE DEF TypeInv, TypeOK
<1>1. CASE StatHost
  BY <1>1 DEF StatHost
<1>2. CASE ReadHost /\ asked <= Len(host)
  <2>1. SubSeq(host, 1, asked) \in Seq(AnyByte)
    BY <1>2
  <2>2. StartWrite(SubSeq(host, 1, asked))
    BY <1>2 DEF ReadHost
  <2>3. TypeInv'
    BY <2>1, <2>2, StartWriteType, Zenon
  <2> QED
    BY <2>3
<1>3. CASE ReadHost /\ ~ asked <= Len(host)
  BY <1>3, ForgetType DEF ReadHost
<1>4. CASE WriteHost
  <2>1. answer.bytes \in Seq(AnyByte) /\ host \in Seq(AnyByte)
    BY DEF Outcomes
  <2>2. SubSeq(host, Len(answer.bytes) + 1, Len(host)) \in Seq(AnyByte)
    BY <2>1
  <2>3. host' \in Seq(AnyByte)
    BY <1>4, <2>1, <2>2, Joined DEF WriteHost, Overlay
  <2> QED
    BY <1>4, <2>3 DEF WriteHost, locals
<1>5. CASE ChangeHost
  BY <1>5, InputType DEF ChangeHost, locals
<1> QED
  BY <1>1, <1>2, <1>3, <1>4, <1>5

LEMMA ReadHeadType ==
    ASSUME TypeInv, NEW size \in Nat, NEW forHost \in BOOLEAN, Read(size, forHost)
    PROVE  TypeInv'
<1>1. /\ asked' \in Nat /\ asked' <= MaxFile
  BY ClippedType DEF Read
<1> QED
  BY <1>1, EmptyType DEF Read, TypeInv, TypeOK

LEMMA StepType == TypeInv /\ [Next]_vars => TypeInv'
<1> SUFFICES ASSUME TypeInv, [Next]_vars PROVE TypeInv'
  OBVIOUS
<1>1. ASSUME NEW p \in Positions, Lseek(p) PROVE TypeInv'
  BY <1>1, InputType DEF Lseek, locals, TypeInv, TypeOK
<1>2. ASSUME NEW n \in Lengths, NEW bytes \in [1 .. n -> Bytes], Write(bytes) PROVE TypeInv'
  BY <1>2, InputType, StartWriteType DEF Write
<1>3. CASE StatHost \/ ReadHost \/ WriteHost \/ ChangeHost
  BY <1>3, HostType
<1>4. CASE WriteTurn \/ ReadTurn
  BY <1>4, WriteTurnType, ReadTurnType
<1>5. CASE WriteEnds
  BY <1>5, EndWriteType DEF WriteEnds, TypeInv, TypeOK
<1>6. CASE ReadEnds
  BY <1>6, EndReadType DEF ReadEnds
<1>7. ASSUME NEW size \in Sizes \cup {MaxFile}, NEW forHost \in BOOLEAN, Read(size, forHost)
      PROVE  TypeInv'
  BY <1>7, InputType, MaxFileType, ReadHeadType
<1>8. CASE Restart
  BY <1>8 DEF Restart, locals, TypeInv, TypeOK
<1>9. CASE UNCHANGED vars
  BY <1>9 DEF vars, locals, TypeInv, TypeOK
<1> QED
  BY <1>1, <1>2, <1>3, <1>4, <1>5, <1>6, <1>7, <1>8, <1>9 DEF Next

(* The type invariant of FileIO: neither loop leaves its buffers or counts *)
(* more than it was given, for blocks and files of every size.             *)
THEOREM TypeCorrect == Spec => []TypeOK
<1>1. TypeInv => TypeOK
  BY DEF TypeInv
<1> QED
  BY <1>1, InitType, StepType, PTL DEF Spec

----------------------------------------------------------------------------
(* What is written can be read back.                                       *)

\* A file f has byte b at position q, and the bytes from position p on.
HoldsAt(f, q, b) ==
    /\ BlockIndex(q) < Len(f)
    /\ Offset(q) < f[BlockIndex(q) + 1].size
    /\ f[BlockIndex(q) + 1].bytes[Offset(q) + 1] = b
Holds(f, p, bytes) == \A k \in 1 .. Len(bytes) : HoldsAt(f, p + k - 1, bytes[k])

(* A write at work: its turns end at the ends of blocks, which is why none *)
(* of them cuts off what an earlier one has put.                           *)
WriteInv ==
    IF pc = "write_loop"
    THEN /\ pos = position + Len(done)
         /\ written.bytes = <<>> /\ answer = Nothing
         /\ Len(done) \notin {0, Len(data)} => Offset(pos) = 0
         /\ written.dense => BlockIndex(pos) <= Len(file) /\ Holds(file, position, done)
    ELSE written.dense => Holds(file, written.pos, written.bytes)

\* What a turn of the loop does to the file: one block, the others as they were.
LEMMA TurnPuts ==
    ASSUME TypeInv, WriteTurn, pc' = "write_loop", BlockIndex(pos) <= Len(file),
           NEW size, size = Smaller(Len(data) - Len(done), MaxData - Offset(pos))
    PROVE  /\ pos' = pos + size
           /\ Len(done') = Len(done) + size
           /\ \A k \in 1 .. Len(done) : done'[k] = done[k]
           /\ BlockIndex(pos) < Len(file') /\ Len(file) <= Len(file')
           /\ \A i \in 1 .. Len(file) : i # BlockIndex(pos) + 1 => file'[i] = file[i]
           /\ file'[BlockIndex(pos) + 1].size = Offset(pos) + size
           /\ \A j \in 1 .. size :
                file'[BlockIndex(pos) + 1].bytes[Offset(pos) + j] = done'[Len(done) + j]
           /\ UNCHANGED <<position, data, written, answer>>
<1> DEFINE index == BlockIndex(pos)
           offset == Offset(pos)
           chunk == SubSeq(data, Len(done) + 1, Len(done) + size)
<1>1. /\ TypeOK /\ pc = "write_loop" /\ Len(done) # Len(data)
      /\ done \in Seq(AnyByte) /\ file \in Seq(Blocks)
  BY DEF TypeInv, TypeOK, WriteTurn
<1>2. /\ offset \in 0 .. (MaxData - 1) /\ size \in Nat \ {0} /\ offset + size <= MaxData
      /\ chunk \in Seq(AnyByte) /\ Len(chunk) = size
  BY <1>1, ChunkFits
<1>3. index \in Nat
  BY <1>1, BlockAndOffset DEF TypeOK
<1>4. ~EndWrite("dead")
  BY DEF EndWrite
<1>5. /\ pos' = pos + size /\ done' = done \o chunk
      /\ UNCHANGED <<position, data, written, answer>>
      /\ \/ index < Len(file) /\ file' = [file EXCEPT ![index + 1] = Put(Loaded(@), offset, chunk)]
         \/ index >= Len(file) /\ file' = Append(file, Put(ZeroBlock, offset, chunk))
  BY <1>4 DEF WriteTurn
<1>6. PICK block \in Blocks :
        \/ index < Len(file) /\ file' = [file EXCEPT ![index + 1] = Put(block, offset, chunk)]
        \/ index = Len(file) /\ file' = Append(file, Put(block, offset, chunk))
  <2>1. CASE index < Len(file)
    <3>1. file[index + 1] \in Blocks
      BY <1>1, <1>3, <2>1
    <3>2. Loaded(file[index + 1]) \in Blocks
      BY <3>1, LoadedKeeps
    <3>3. ~ index >= Len(file)
      BY <1>1, <1>3, <2>1
    <3>4. file' = [file EXCEPT ![index + 1] = Put(Loaded(file[index + 1]), offset, chunk)]
      BY <1>5, <3>3, Zenon
    <3> QED
      BY <2>1, <3>2, <3>4, Zenon
  <2>2. CASE ~ index < Len(file)
    BY <1>1, <1>3, <1>5, <2>2, ZeroBlockType
  <2> QED
    BY <2>1, <2>2
<1> DEFINE new == Put(block, offset, chunk)
<1>7. /\ new \in Blocks /\ new.size = offset + size
      /\ \A j \in 1 .. size : new.bytes[offset + j] = chunk[j]
  <2> HIDE DEF index, offset, chunk
  <2>1. offset + Len(chunk) <= MaxData
    BY <1>2
  <2>2. /\ Put(block, offset, chunk) \in Blocks
        /\ Put(block, offset, chunk).size = offset + Len(chunk)
        /\ \A j \in 1 .. Len(chunk) : Put(block, offset, chunk).bytes[offset + j] = chunk[j]
    BY <1>2, <2>1, PutKeeps, Zenon
  <2> QED
    BY <1>2, <2>2, Zenon DEF new
<1> HIDE DEF new, index, offset, chunk
<1>8. /\ index < Len(file') /\ Len(file) <= Len(file') /\ file'[index + 1] = new
      /\ \A i \in 1 .. Len(file) : i # index + 1 => file'[i] = file[i]
  BY <1>1, <1>3, <1>6, <1>7 DEF new
<1>9. /\ Len(done') = Len(done) + size
      /\ \A k \in 1 .. Len(done) : done'[k] = done[k]
      /\ \A j \in 1 .. size : done'[Len(done) + j] = chunk[j]
  <2>1. done \in Seq(AnyByte) /\ chunk \in Seq(AnyByte) /\ Len(chunk) = size
        /\ done' = done \o chunk
    BY <1>1, <1>2, <1>5
  <2>2. /\ Len(done \o chunk) = Len(done) + Len(chunk)
        /\ \A k \in 1 .. Len(done) : (done \o chunk)[k] = done[k]
        /\ \A k \in 1 .. Len(chunk) : (done \o chunk)[Len(done) + k] = chunk[k]
    <3>1. done \in Seq(AnyByte) /\ chunk \in Seq(AnyByte)
      BY <2>1
    <3> QED
      BY <3>1
  <2> QED
    BY <2>1, <2>2, Zenon
<1>10. /\ file'[index + 1].size = offset + size
       /\ \A j \in 1 .. size : file'[index + 1].bytes[offset + j] = done'[Len(done) + j]
  BY <1>7, <1>8, <1>9
<1> QED
  BY <1>5, <1>8, <1>9, <1>10 DEF index, offset

\* A turn keeps what earlier turns have put, and adds its chunk.
LEMMA TurnHolds ==
    ASSUME TypeInv, WriteInv, WriteTurn, pc' = "write_loop"
    PROVE  WriteInv'
<1> DEFINE size == Smaller(Len(data) - Len(done), MaxData - Offset(pos))
<1>1. /\ TypeOK /\ pc = "write_loop" /\ Len(done) # Len(data)
      /\ Len(done) \in Nat /\ Len(data) \in Nat /\ pos \in Nat /\ position \in Nat
  <2>1. TypeOK /\ pc = "write_loop" /\ Len(done) # Len(data)
    BY DEF TypeInv, WriteTurn
  <2> QED
    BY <2>1 DEF TypeOK
<1>2. /\ Offset(pos) \in 0 .. (MaxData - 1) /\ size \in Nat \ {0}
      /\ Offset(pos) + size <= MaxData
      /\ Len(done) + size = Len(data) \/ Offset(pos) + size = MaxData
  BY <1>1, ChunkFits
<1>3. /\ pos = position + Len(done) /\ written.bytes = <<>> /\ answer = Nothing
      /\ Len(done) \notin {0, Len(data)} => Offset(pos) = 0
      /\ written.dense => BlockIndex(pos) <= Len(file) /\ Holds(file, position, done)
  BY <1>1 DEF WriteInv
<1>4. /\ pos' = pos + size /\ Len(done') = Len(done) + size
      /\ UNCHANGED <<position, data, written, answer>>
  <2>1. LET chunk == SubSeq(data, Len(done) + 1, Len(done) + size)
        IN  /\ pos' = pos + size /\ done' = done \o chunk
            /\ UNCHANGED <<position, data, written, answer>>
    BY DEF WriteTurn, EndWrite
  <2>2. LET chunk == SubSeq(data, Len(done) + 1, Len(done) + size)
        IN  chunk \in Seq(AnyByte) /\ Len(chunk) = size
    BY <1>1, ChunkFits
  <2>3. done \in Seq(AnyByte)
    BY <1>1 DEF TypeOK
  <2> HIDE DEF size
  <2> QED
    BY <2>1, <2>2, <2>3, Joined
<1>5. Len(done') \notin {0, Len(data')} => Offset(pos') = 0
  BY <1>1, <1>2, <1>4, NextBlock
<1>6. ASSUME written'.dense PROVE BlockIndex(pos') <= Len(file') /\ Holds(file', position', done')
  <2>1. /\ written.dense /\ BlockIndex(pos) <= Len(file) /\ Holds(file, position, done)
    BY <1>3, <1>4, <1>6
  <2>2. /\ \A k \in 1 .. Len(done) : done'[k] = done[k]
        /\ BlockIndex(pos) < Len(file') /\ Len(file) <= Len(file')
        /\ \A i \in 1 .. Len(file) : i # BlockIndex(pos) + 1 => file'[i] = file[i]
        /\ file'[BlockIndex(pos) + 1].size = Offset(pos) + size
        /\ \A j \in 1 .. size :
                file'[BlockIndex(pos) + 1].bytes[Offset(pos) + j] = done'[Len(done) + j]
    BY <2>1, TurnPuts
  <2>3. BlockIndex(pos) \in Nat /\ Len(file) \in Nat /\ Len(file') \in Nat
    <3>1. TypeOK'
      BY WriteTurnType DEF TypeInv
    <3>2. Len(file) \in Nat /\ Len(file') \in Nat
      <4>1. Len(file) \in 1 .. BlocksCountInInode
        BY <1>1 DEF TypeOK
      <4>2. Len(file') \in 1 .. BlocksCountInInode
        BY <3>1 DEF TypeOK
      <4> QED
        BY <4>1, <4>2
    <3> QED
      BY <1>1, <3>2, BlockAndOffset
  <2> HIDE DEF size
  <2>4. BlockIndex(pos') <= Len(file')
    <3>1. CASE Offset(pos) + size = MaxData
      <4>1. BlockIndex(pos + size) = BlockIndex(pos) + 1
        BY <1>1, <1>2, <3>1, NextBlock
      <4> QED
        BY <1>4, <2>2, <2>3, <4>1
    <3>2. CASE Offset(pos) + size # MaxData
      <4>1. Offset(pos) + size < MaxData
        BY <1>2, <3>2
      <4>2. BlockIndex(pos + size) = BlockIndex(pos)
        BY <1>1, <1>2, <4>1, SameBlock
      <4> QED
        BY <1>4, <2>2, <2>3, <4>2
    <3> QED
      BY <3>1, <3>2
  \* What earlier turns have put lies in earlier blocks.
  <2>5. ASSUME NEW k \in 1 .. Len(done) PROVE HoldsAt(file', position + k - 1, done'[k])
    <3> DEFINE q == position + k - 1
               i == BlockIndex(q) + 1
    <3>1. q \in Nat /\ q < pos
      BY <1>1, <1>3
    <3>2. HoldsAt(file, q, done[k])
      BY <2>1, <2>5 DEF Holds
    <3>3. BlockIndex(q) < BlockIndex(pos) /\ BlockIndex(q) \in Nat
      BY <1>1, <1>3, <3>1, EarlierBlock, BlockAndOffset
    <3>4. i \in 1 .. Len(file) /\ i # BlockIndex(pos) + 1 /\ BlockIndex(q) < Len(file')
      <4> HIDE DEF q
      <4> QED
        BY <2>2, <2>3, <3>2, <3>3 DEF HoldsAt
    <3>5. file'[i] = file[i] /\ done'[k] = done[k]
      BY <2>2, <3>4, Zenon
    <3> QED
      BY <3>2, <3>4, <3>5, Zenon DEF HoldsAt
  <2>6. ASSUME NEW j \in 1 .. size PROVE HoldsAt(file', pos + (j - 1), done'[Len(done) + j])
    <3>1. /\ BlockIndex(pos + (j - 1)) = BlockIndex(pos)
          /\ Offset(pos + (j - 1)) = Offset(pos) + (j - 1)
      BY <1>1, <1>2, SameBlock
    <3>2. /\ Offset(pos) + (j - 1) < Offset(pos) + size
          /\ Offset(pos) + (j - 1) + 1 = Offset(pos) + j
      BY <1>2
    <3> QED
      BY <2>2, <3>1, <3>2 DEF HoldsAt
  <2>7. ASSUME NEW k \in 1 .. Len(done') PROVE HoldsAt(file', position' + k - 1, done'[k])
    <3>1. CASE k <= Len(done)
      BY <1>1, <1>4, <2>5, <3>1
    <3>2. CASE ~ k <= Len(done)
      <4> DEFINE j == k - Len(done)
      <4>1. /\ j \in 1 .. size /\ Len(done) + j = k
            /\ pos + (j - 1) = position + k - 1
        <5>1. /\ k \in Nat /\ Len(done) < k /\ k <= Len(done) + size
              /\ pos = position + Len(done)
          BY <1>1, <1>2, <1>3, <1>4, <3>2
        <5>2. Len(done) \in Nat /\ size \in Nat /\ position \in Nat
          BY <1>1, <1>2, <1>3, <1>4
        <5> QED
          BY <5>1, <5>2, ChunkByte
      <4> HIDE DEF j
      <4>2. HoldsAt(file', pos + (j - 1), done'[Len(done) + j])
        BY <2>6, <4>1
      <4> QED
        BY <1>4, <4>1, <4>2
    <3> QED
      BY <3>1, <3>2
  <2> QED
    BY <2>4, <2>7 DEF Holds
<1>7. /\ pos' = position' + Len(done') /\ written'.bytes = <<>> /\ answer' = Nothing
  BY <1>1, <1>2, <1>3, <1>4
<1> QED
  BY <1>5, <1>6, <1>7, Zenon DEF WriteInv

\* No other step of a command, or of the host, disturbs what was written.
LEMMA StepWriteInv ==
    ASSUME TypeInv, WriteInv, [Next]_vars
    PROVE  WriteInv'
<1>1. ASSUME NEW bytes, StartWrite(bytes) PROVE WriteInv'
  <2>1. /\ pc' = "write_loop" /\ pos' = position' /\ done' = <<>> /\ answer' = Nothing
        /\ written' = [Nothing EXCEPT !.dense = BlockIndex(position) <= Len(file)]
        /\ UNCHANGED <<position, file>>
    BY <1>1 DEF StartWrite
  <2>2. written'.bytes = <<>> /\ written'.dense = (BlockIndex(position) <= Len(file))
    BY <2>1 DEF Nothing
  <2>3. Len(done') = 0 /\ position' \in Nat /\ pos' = position' + Len(done')
    BY <2>1 DEF TypeInv, TypeOK
  <2>4. Holds(file', position', done')
    BY <2>3 DEF Holds
  <2> QED
    BY <2>1, <2>2, <2>3, <2>4 DEF WriteInv
<1>2. ASSUME pc = "write_loop", NEW next \in {"idle", "dead"}, EndWrite(next), UNCHANGED file
      PROVE  WriteInv'
  <2>1. /\ pc' # "write_loop"
        /\ written' = [written EXCEPT !.pos = position, !.size = Len(data), !.bytes = done]
    BY <1>2 DEF EndWrite
  <2>2. /\ written'.dense = written.dense /\ written'.pos = position
        /\ written'.bytes = done
    BY <2>1 DEF TypeInv, Outcomes
  <2>3. written.dense => Holds(file, position, done)
    BY <1>2 DEF WriteInv
  <2> QED
    BY <1>2, <2>1, <2>2, <2>3, Zenon DEF WriteInv
<1>3. ASSUME pc # "write_loop", pc' # "write_loop", UNCHANGED <<file, written>> PROVE WriteInv'
  BY <1>3, Zenon DEF WriteInv
<1>4. CASE WriteTurn
  <2>1. CASE pc' = "write_loop"
    BY <1>4, <2>1, TurnHolds
  <2>2. CASE pc' # "write_loop"
    <3>1. pc = "write_loop" /\ EndWrite("dead") /\ UNCHANGED file
      BY <1>4, <2>2 DEF WriteTurn
    <3> QED
      BY <1>2, <3>1
  <2> QED
    BY <2>1, <2>2
<1>5. CASE WriteEnds
  BY <1>2, <1>5 DEF WriteEnds
<1>6. ASSUME NEW n \in Lengths, NEW bytes \in [1 .. n -> Bytes], Write(bytes) PROVE WriteInv'
  BY <1>1, <1>6 DEF Write
<1>7. CASE ReadHost
  BY <1>1, <1>3, <1>7 DEF ReadHost
<1>8. CASE \/ \E p \in Positions : Lseek(p)
           \/ StatHost \/ WriteHost \/ ChangeHost \/ Restart
           \/ \E size \in Sizes \cup {MaxFile}, forHost \in BOOLEAN : Read(size, forHost)
  BY <1>3, <1>8 DEF Lseek, StatHost, WriteHost, ChangeHost, Restart, Read
<1>9. CASE ReadTurn \/ ReadEnds
  BY <1>3, <1>9 DEF ReadTurn, ReadEnds, EndRead
<1>10. CASE UNCHANGED vars
  BY <1>10 DEF vars, locals, WriteInv
<1> QED
  BY <1>4, <1>5, <1>6, <1>7, <1>8, <1>9, <1>10 DEF Next

(* A read at work, or done, and the last write before it: they agree on    *)
(* the bytes that both have.                                               *)
Agree(s, t) == \A k \in 1 .. Len(s) : k <= Len(t) => s[k] = t[k]

Answered ==
    written.dense /\ answer.pos = written.pos =>
        /\ Agree(answer.bytes, written.bytes)
        /\ Len(answer.bytes) >= Smaller(answer.size, Len(written.bytes))

ReadInv ==
    /\ pc = "read_loop" => 
        /\ pos = position + Len(done)
        /\ written.dense /\ position = written.pos => Agree(done, written.bytes)
    /\ Answered

\* What a turn of the loop of read_file does, unless it ends the loop.
LEMMA TurnReads ==
    ASSUME TypeInv, ReadTurn, pc' = "read_loop"
    PROVE  \E block \in Slot(BlockIndex(pos)), size \in Nat :
                /\ block.size # Offset(pos)
                /\ size = Take(block, Offset(pos), asked - Len(done))
                /\ size <= asked - Len(done)
                /\ pos' = pos + size
                /\ done' \in Seq(AnyByte) /\ Len(done') = Len(done) + size
                /\ \A k \in 1 .. Len(done) : done'[k] = done[k]
                /\ \A j \in 1 .. size : Offset(pos) + j <= MaxData =>
                        done'[Len(done) + j] = block.bytes[Offset(pos) + j]
                /\ UNCHANGED <<file, position, asked, written, answer>>
<1> DEFINE offset == Offset(pos)
           need == asked - Len(done)
<1>1. PICK block \in Slot(BlockIndex(pos)) :
            /\ block.size # offset
            /\ pos' = pos + Take(block, offset, need)
            /\ done' = done \o Copied(block, offset, Take(block, offset, need))
            /\ UNCHANGED <<file, position, asked, written, answer>>
  BY DEF ReadTurn, EndRead
<1>2. /\ file \in Seq(Blocks) /\ done \in Seq(AnyByte) /\ pos \in Nat /\ asked \in Nat
      /\ Len(done) <= asked
  BY DEF TypeInv, TypeOK, ReadTurn
<1>3. block \in Blocks
  BY <1>2, SlotType, BlockAndOffset
<1>4. offset \in Nat
  BY <1>2, BlockAndOffset
<1>5. need \in Nat
  BY <1>2
<1> DEFINE size == Take(block, offset, need)
<1>6. size \in Nat /\ size <= need
  BY <1>3, <1>4, <1>5 DEF Take, Smaller, Blocks
<1> DEFINE copied == Copied(block, offset, size)
<1>7. /\ copied \in Seq(AnyByte) /\ Len(copied) = size
      /\ \A j \in 1 .. size : offset + j <= MaxData => copied[j] = block.bytes[offset + j]
  BY <1>3, <1>4, <1>6, CopiedType
<1> HIDE DEF copied
<1>8. /\ done \o copied \in Seq(AnyByte)
      /\ Len(done \o copied) = Len(done) + Len(copied)
      /\ \A k \in 1 .. Len(done) : (done \o copied)[k] = done[k]
      /\ \A k \in 1 .. Len(copied) : (done \o copied)[Len(done) + k] = copied[k]
  <2>1. done \in Seq(AnyByte) /\ copied \in Seq(AnyByte)
    BY <1>2, <1>7
  <2> QED
    BY <2>1
<1>9. done' = done \o copied
  BY <1>1 DEF copied
<1> HIDE DEF size
<1>10. /\ done' \in Seq(AnyByte) /\ Len(done') = Len(done) + size
       /\ \A k \in 1 .. Len(done) : done'[k] = done[k]
       /\ \A j \in 1 .. size : offset + j <= MaxData => done'[Len(done) + j] = block.bytes[offset + j]
  BY <1>7, <1>8, <1>9
<1> QED
  BY <1>1, <1>6, <1>10 DEF size

\* A read of what was written has its next byte in the file.
LEMMA NextIsHeld ==
    ASSUME TypeInv, WriteInv, ReadInv, pc = "read_loop",
           written.dense, position = written.pos, Len(done) < Len(written.bytes)
    PROVE  HoldsAt(file, pos, written.bytes[Len(done) + 1])
<1>1. Holds(file, written.pos, written.bytes) /\ pos = position + Len(done)
  BY DEF WriteInv, ReadInv
<1>2. /\ Len(done) \in Nat /\ Len(written.bytes) \in Nat /\ position \in Nat
  BY DEF TypeInv, TypeOK, Outcomes
<1>3. Len(done) + 1 \in 1 .. Len(written.bytes) /\ written.pos + (Len(done) + 1) - 1 = pos
  BY <1>1, <1>2
<1> QED
  BY <1>1, <1>3 DEF Holds

\* A turn of read_file delivers what was written there.
LEMMA ReadTurnAgrees ==
    ASSUME TypeInv, WriteInv, ReadInv, ReadTurn, pc' = "read_loop"
    PROVE  ReadInv'
<1>1. /\ pc = "read_loop" /\ pos = position + Len(done)
      /\ written.dense /\ position = written.pos => Agree(done, written.bytes)
      /\ Answered
  BY DEF ReadInv, ReadTurn
<1>2. /\ file \in Seq(Blocks) /\ done \in Seq(AnyByte) /\ pos \in Nat /\ asked \in Nat
      /\ position \in Nat /\ Len(done) <= asked /\ Len(done) \in Nat
      /\ written.bytes \in Seq(AnyByte) /\ Len(written.bytes) \in Nat
  BY <1>1 DEF TypeInv, TypeOK, Outcomes
<1>3. PICK block \in Slot(BlockIndex(pos)), size \in Nat :
            /\ size = Take(block, Offset(pos), asked - Len(done))
            /\ pos' = pos + size
            /\ done' \in Seq(AnyByte) /\ Len(done') = Len(done) + size
            /\ \A k \in 1 .. Len(done) : done'[k] = done[k]
            /\ \A j \in 1 .. size : Offset(pos) + j <= MaxData =>
                    done'[Len(done) + j] = block.bytes[Offset(pos) + j]
            /\ UNCHANGED <<file, position, asked, written, answer>>
  BY TurnReads
<1>4. ASSUME written.dense, position = written.pos, NEW k \in 1 .. Len(done'), k <= Len(written.bytes)
      PROVE  done'[k] = written.bytes[k]
  <2>1. CASE k <= Len(done)
    BY <1>1, <1>2, <1>3, <1>4, <2>1 DEF Agree
  <2>2. CASE ~ k <= Len(done)
    <3> DEFINE j == k - Len(done)
    <3>1. /\ j \in 1 .. size /\ Len(done) + j = k /\ Len(done) < Len(written.bytes)
          /\ written.pos + k - 1 = pos + (j - 1) /\ j - 1 \in Nat
      <4>1. k \in Nat /\ k > Len(done) /\ k <= Len(done) + size /\ k <= Len(written.bytes)
        BY <1>2, <1>3, <1>4, <2>2
      <4>2. written.pos = position /\ pos = position + Len(done)
        BY <1>1, <1>4
      <4> QED
        <5>1. Len(done) \in Nat /\ size \in Nat /\ position \in Nat
          BY <1>1, <1>2, <1>3
        <5>2. /\ j \in 1 .. size /\ Len(done) + j = k
              /\ pos + (j - 1) = position + k - 1 /\ j - 1 \in Nat
          BY <4>1, <4>2, <5>1, ChunkByte
        <5>3. Len(done) < Len(written.bytes)
          BY <4>1, <1>2
        <5> QED
          BY <4>2, <5>2, <5>3
    <3> HIDE DEF j
    <3>2. BlockIndex(pos) < Len(file) /\ Offset(pos) < file[BlockIndex(pos) + 1].size
      BY <1>1, <1>4, <3>1, NextIsHeld DEF HoldsAt
    <3>3. /\ BlockIndex(pos) \in Nat /\ Offset(pos) \in 0 .. (MaxData - 1)
      BY <1>2, BlockAndOffset
    <3>4. file[BlockIndex(pos) + 1] \in Blocks
      BY <1>2, <3>2, <3>3
    <3> DEFINE old == file[BlockIndex(pos) + 1]
    <3>5. /\ block.size = old.size /\ old.size \in 0 .. MaxData
          /\ \A i \in 1 .. old.size : block.bytes[i] = old.bytes[i]
      <4>1. block = Loaded(old)
        BY <3>2 DEF Slot
      <4>2. old.size \in 0 .. MaxData
        BY <3>4 DEF Blocks
      <4> QED
        BY <3>4, <4>1, <4>2, LoadedKeeps
    <3>6. Offset(pos) + j <= old.size
      <4>1. Offset(pos) < block.size
        BY <3>2, <3>5, Zenon
      <4>2. /\ Offset(pos) \in Nat /\ asked - Len(done) \in Nat /\ old.size \in Nat
            /\ j \in 1 .. size
        <5>1. asked - Len(done) \in Nat /\ j \in 1 .. size
          BY <1>2, <3>1
        <5>2. Offset(pos) \in Nat /\ old.size \in Nat
          BY <3>3, <3>5
        <5> QED
          BY <5>1, <5>2
      <4> HIDE DEF old
      <4>3. block.size \in Nat
        BY <3>5, <4>2
      <4>4. Offset(pos) + size <= old.size
        BY <1>3, <3>5, <4>1, <4>2, <4>3, TakeFits
      <4> QED
        BY <4>2, <4>4
    <3>7. done'[k] = old.bytes[Offset(pos) + j]
      <4>1. Offset(pos) + j \in 1 .. old.size /\ Offset(pos) + j <= MaxData
        <5>1. /\ Offset(pos) \in Nat /\ old.size \in 0 .. MaxData /\ j \in 1 .. size
              /\ Offset(pos) + j <= old.size
          BY <3>1, <3>3, <3>5, <3>6
        <5> HIDE DEF old
        <5> QED
          BY <1>3, <5>1
      <4>2. done'[Len(done) + j] = block.bytes[Offset(pos) + j]
        BY <1>3, <3>1, <4>1
      <4> QED
        BY <3>1, <3>5, <4>1, <4>2
    <3>8. /\ BlockIndex(pos + (j - 1)) = BlockIndex(pos)
          /\ Offset(pos + (j - 1)) = Offset(pos) + (j - 1)
      <4>1. Offset(pos) + (j - 1) < MaxData
        BY <3>1, <3>3, <3>5, <3>6
      <4> QED
        BY <1>2, <3>1, <4>1, SameBlock
    <3>9. HoldsAt(file, pos + (j - 1), written.bytes[k])
      <4>1. Holds(file, written.pos, written.bytes)
        BY <1>1, <1>4 DEF WriteInv
      <4>2. k \in 1 .. Len(written.bytes)
        BY <1>2, <1>3, <1>4
      <4> QED
        BY <3>1, <4>1, <4>2 DEF Holds
    <3>10. old.bytes[Offset(pos) + (j - 1) + 1] = written.bytes[k]
      BY <3>8, <3>9, Zenon DEF HoldsAt
    <3>11. Offset(pos) + (j - 1) + 1 = Offset(pos) + j
      BY <3>1, <3>3
    <3> QED
      BY <3>7, <3>10, <3>11
  <2> QED
    BY <2>1, <2>2
<1>5. pos' = position' + Len(done')
  BY <1>1, <1>2, <1>3
<1>6. Answered'
  BY <1>1, <1>3 DEF Answered
<1>7. written'.dense /\ position' = written'.pos => Agree(done', written'.bytes)
  BY <1>3, <1>4 DEF Agree
<1> QED
  BY <1>5, <1>6, <1>7, Zenon DEF ReadInv

\* Before a read there is nothing to compare.
LEMMA NothingAnswered ==
    ASSUME NEW bytes \in Seq(AnyByte)
    PROVE  Agree(Nothing.bytes, bytes) /\ Len(Nothing.bytes) >= Smaller(Nothing.size, Len(bytes))
<1>1. Nothing.bytes = <<>> /\ Nothing.size = 0 /\ Len(Nothing.bytes) = 0
  BY DEF Nothing
<1>2. Len(bytes) \in Nat
  OBVIOUS
<1> QED
  BY <1>1, <1>2 DEF Agree, Smaller

\* A read that stops has delivered what was written, or all it was asked for.
LEMMA EndReadAnswers ==
    ASSUME TypeInv, WriteInv, ReadInv, pc = "read_loop", EndRead,
           \/ Len(done) = asked
           \/ BlockIndex(pos) > Len(file)
           \/ \E block \in Slot(BlockIndex(pos)) : block.size = Offset(pos)
    PROVE  ReadInv'
<1>1. /\ pc' # "read_loop" /\ written' = written
      /\ answer' = [Nothing EXCEPT !.pos = position, !.size = asked, !.bytes = done]
  BY DEF EndRead
<1>2. answer'.pos = position /\ answer'.size = asked /\ answer'.bytes = done
  BY <1>1 DEF Nothing
<1>3. /\ file \in Seq(Blocks) /\ pos \in Nat /\ asked \in Nat /\ Len(done) \in Nat
      /\ Len(written.bytes) \in Nat
  BY DEF TypeInv, TypeOK, Outcomes
<1>4. ASSUME written.dense, position = written.pos
      PROVE  Agree(done, written.bytes) /\ Len(done) >= Smaller(asked, Len(written.bytes))
  <2>1. Agree(done, written.bytes)
    BY <1>4 DEF ReadInv
  <2>2. CASE Len(done) = asked \/ Len(done) >= Len(written.bytes)
    BY <1>3, <2>1, <2>2 DEF Smaller
  <2>3. CASE Len(done) # asked /\ Len(done) < Len(written.bytes)
    <3>1. BlockIndex(pos) < Len(file) /\ Offset(pos) < file[BlockIndex(pos) + 1].size
      BY <1>4, <2>3, NextIsHeld DEF HoldsAt
    <3>2. BlockIndex(pos) \in Nat /\ Offset(pos) \in Nat
      <4>1. BlockIndex(pos) \in Nat /\ Offset(pos) \in 0 .. (MaxData - 1)
        BY <1>3, BlockAndOffset, Zenon
      <4> QED
        BY <4>1
    <3>3. file[BlockIndex(pos) + 1] \in Blocks
      BY <1>3, <3>1, <3>2
    <3>4. \A block \in Slot(BlockIndex(pos)) : block.size # Offset(pos)
      <4>1. file[BlockIndex(pos) + 1].size \in Nat
        BY <3>3 DEF Blocks
      <4>2. Loaded(file[BlockIndex(pos) + 1]).size = file[BlockIndex(pos) + 1].size
        BY <3>3, LoadedKeeps
      <4> QED
        BY <3>1, <3>2, <4>1, <4>2 DEF Slot
    <3>5. ~ BlockIndex(pos) > Len(file)
      BY <1>3, <3>1, <3>2
    <3> QED
      BY <2>3, <3>4, <3>5
  <2> QED
    BY <1>3, <2>2, <2>3
<1> QED
  BY <1>1, <1>2, <1>4, Zenon DEF ReadInv, Answered

LEMMA StepReadInv ==
    ASSUME TypeInv, WriteInv, ReadInv, [Next]_vars
    PROVE  ReadInv'
<1>1. ASSUME NEW bytes, StartWrite(bytes) PROVE ReadInv'
  <2>1. pc' = "write_loop" /\ answer' = Nothing /\ written' \in Outcomes
    BY <1>1, StepType DEF StartWrite, TypeInv
  <2>2. written'.bytes \in Seq(AnyByte)
    BY <2>1 DEF Outcomes
  <2> QED
    BY <2>1, <2>2, NothingAnswered, Zenon DEF ReadInv, Answered
<1>2. ASSUME pc = "write_loop", NEW next \in {"idle", "dead"}, EndWrite(next) PROVE ReadInv'
  <2>1. pc' # "read_loop" /\ answer' = Nothing /\ written' \in Outcomes
    BY <1>2, StepType DEF EndWrite, WriteInv, TypeInv
  <2>2. written'.bytes \in Seq(AnyByte)
    BY <2>1 DEF Outcomes
  <2> QED
    BY <2>1, <2>2, NothingAnswered, Zenon DEF ReadInv, Answered
<1>3. ASSUME pc' # "read_loop", UNCHANGED <<written, answer>> PROVE ReadInv'
  BY <1>3 DEF ReadInv, Answered
<1>4. CASE WriteTurn
  <2>1. CASE pc' = "write_loop"
    BY <1>3, <1>4, <2>1 DEF WriteTurn, EndWrite
  <2>2. CASE pc' # "write_loop"
    BY <1>2, <1>4, <2>2 DEF WriteTurn
  <2> QED
    BY <2>1, <2>2
<1>5. CASE WriteEnds
  BY <1>2, <1>5 DEF WriteEnds
<1>6. ASSUME NEW n \in Lengths, NEW bytes \in [1 .. n -> Bytes], Write(bytes) PROVE ReadInv'
  BY <1>1, <1>6 DEF Write
<1>7. CASE ReadHost
  BY <1>1, <1>3, <1>7 DEF ReadHost
<1>8. CASE \/ \E p \in Positions : Lseek(p)
           \/ StatHost \/ WriteHost \/ ChangeHost \/ Restart
  BY <1>3, <1>8 DEF Lseek, StatHost, WriteHost, ChangeHost, Restart, locals
<1>9. ASSUME NEW size, NEW forHost, Read(size, forHost) PROVE ReadInv'
  <2>1. /\ pc' = "read_loop" /\ pos' = position' /\ done' = <<>>
        /\ UNCHANGED <<position, written, answer>>
    BY <1>9 DEF Read
  <2>2. Len(done') = 0 /\ pos' = position' + Len(done')
    BY <2>1 DEF TypeInv, TypeOK
  <2>3. Agree(done', written'.bytes)
    BY <2>2 DEF Agree
  <2>4. Answered'
    BY <2>1 DEF ReadInv, Answered
  <2> QED
    BY <2>2, <2>3, <2>4, Zenon DEF ReadInv
<1>10. CASE ReadTurn
  <2>1. CASE pc' = "read_loop"
    BY <1>10, <2>1, ReadTurnAgrees
  <2>2. CASE pc' # "read_loop"
    <3>1. \/ EndRead /\ \E block \in Slot(BlockIndex(pos)) : block.size = Offset(pos)
          \/ UNCHANGED <<written, answer>>
      BY <1>10, <2>2 DEF ReadTurn
    <3>2. pc = "read_loop"
      BY <1>10 DEF ReadTurn
    <3> QED
      BY <1>3, <2>2, <3>1, <3>2, EndReadAnswers
  <2> QED
    BY <2>1, <2>2
<1>11. CASE ReadEnds
  <2>1. pc = "read_loop" /\ EndRead /\ (Len(done) = asked \/ BlockIndex(pos) > Len(file))
    BY <1>11 DEF ReadEnds
  <2> QED
    BY <2>1, EndReadAnswers
<1>12. CASE UNCHANGED vars
  BY <1>12 DEF vars, locals, ReadInv, Answered
<1> QED
  BY <1>4, <1>5, <1>6, <1>7, <1>8, <1>9, <1>10, <1>11, <1>12 DEF Next

LEMMA InitReadInv == Init => WriteInv /\ ReadInv
<1> SUFFICES ASSUME Init PROVE WriteInv /\ ReadInv
  OBVIOUS
<1>1. pc = "idle" /\ written = Nothing /\ answer = Nothing
  BY DEF Init
<1>2. Nothing.bytes = <<>> /\ Len(Nothing.bytes) = 0 /\ Nothing.bytes \in Seq(AnyByte)
  BY DEF Nothing
<1>3. Holds(file, written.pos, written.bytes)
  BY <1>1, <1>2 DEF Holds
<1>4. Answered
  BY <1>1, <1>2, NothingAnswered DEF Answered
<1> QED
  BY <1>1, <1>3, <1>4 DEF WriteInv, ReadInv

(* write_to_file and read_file: a read from where the last write began     *)
(* returns the bytes written, for blocks and files of every size, whatever *)
(* the file held and wherever the write was cut short.                     *)
THEOREM WrittenIsReadBack == Spec => []ReadBack
<1>1. ASSUME TypeInv, ReadInv PROVE ReadBack
  <2> DEFINE n == Smaller(answer.size, Len(written.bytes))
  <2> SUFFICES ASSUME written.dense, answer.pos = written.pos
               PROVE  /\ Len(answer.bytes) >= n
                      /\ SubSeq(answer.bytes, 1, n) = SubSeq(written.bytes, 1, n)
    BY DEF ReadBack
  <2>1. /\ answer.bytes \in Seq(AnyByte) /\ written.bytes \in Seq(AnyByte) /\ answer.size \in Nat
    BY <1>1 DEF TypeInv, Outcomes
  <2>2. n \in Nat /\ n <= Len(written.bytes)
    BY <2>1 DEF Smaller
  <2>3. Agree(answer.bytes, written.bytes) /\ Len(answer.bytes) >= n
    BY <1>1 DEF ReadInv, Answered
  <2> HIDE DEF n
  <2>4. \A k \in 1 .. n : answer.bytes[k] = written.bytes[k]
    BY <2>1, <2>2, <2>3 DEF Agree
  <2>5. SubSeq(answer.bytes, 1, n) = [k \in 1 .. n |-> answer.bytes[k]]
    BY <2>1, <2>2, <2>3
  <2>6. SubSeq(written.bytes, 1, n) = [k \in 1 .. n |-> written.bytes[k]]
    BY <2>1, <2>2, <2>3
  <2> QED
    BY <2>3, <2>4, <2>5, <2>6
<1>2. TypeInv /\ WriteInv /\ ReadInv /\ [Next]_vars => (TypeInv /\ WriteInv /\ ReadInv)'
  BY StepType, StepWriteInv, StepReadInv
<1> QED
  BY <1>1, <1>2, InitType, InitReadInv, PTL DEF Spec

----------------------------------------------------------------------------
(* What is read are the data.                                              *)

\* Position p is in the data of its block, or at its end.
Aligned(f, p) == Offset(p) <= IF BlockIndex(p) < Len(f) THEN f[BlockIndex(p) + 1].size ELSE 0

AnswerHeld ==
    Aligned(file, answer.pos) /\ answer.pos + Len(answer.bytes) <= MaxFile =>
        /\ Holds(file, answer.pos, answer.bytes)
        /\ Len(answer.bytes) < answer.size => ~InData(answer.pos + Len(answer.bytes))

(* A turn of read_file that copies data ends in the block or at its end,   *)
(* so that the next never begins behind the data.                          *)
DataInv ==
    /\ pc = "read_loop" /\ Aligned(file, position) /\ pos <= MaxFile =>
            Aligned(file, pos) /\ Holds(file, position, done)
    /\ AnswerHeld

\* Where a turn that delivers data finds it.
LEMMA DataTurn ==
    ASSUME TypeInv, pc = "read_loop", Len(done) # asked, Aligned(file, pos), pos <= MaxFile,
           NEW block \in Slot(BlockIndex(pos)), block.size # Offset(pos),
           NEW size, size = Take(block, Offset(pos), asked - Len(done)), pos + size <= MaxFile
    PROVE  /\ BlockIndex(pos) < Len(file)
           /\ size \in Nat /\ Offset(pos) + size <= file[BlockIndex(pos) + 1].size
           /\ \A j \in 1 .. file[BlockIndex(pos) + 1].size :
                    block.bytes[j] = file[BlockIndex(pos) + 1].bytes[j]
<1>1. /\ file \in Seq(Blocks) /\ Len(file) \in Nat /\ pos \in Nat
      /\ asked \in Nat /\ Len(done) \in Nat /\ Len(done) < asked
  BY DEF TypeInv, TypeOK
<1>2. BlockIndex(pos) \in Nat /\ Offset(pos) \in 0 .. (MaxData - 1)
  BY <1>1, BlockAndOffset, Zenon
<1>3. block \in Blocks /\ block.size \in Nat
  <2>1. block \in Blocks
    BY <1>1, <1>2, SlotType
  <2> QED
    BY <2>1 DEF Blocks
<1>4. BlockIndex(pos) < Len(file)
  <2>1. SUFFICES ASSUME ~ BlockIndex(pos) < Len(file) PROVE FALSE
    OBVIOUS
  <2>2. Offset(pos) = 0
    BY <1>2, <2>1 DEF Aligned
  <2>3. CASE BlockIndex(pos) < BlocksCountInInode
    BY <2>1, <2>2, <2>3 DEF Slot, ZeroBlock
  <2>4. CASE ~ BlockIndex(pos) < BlocksCountInInode
    <3>1. pos >= MaxFile /\ MaxFile \in Nat
      BY <1>1, <1>2, <2>4, BehindTheLargest
    <3>2. size = Smaller(asked - Len(done), block.size - 0)
      BY <1>3, <2>2 DEF Take
    <3>3. size \in Nat /\ size > 0
      BY <1>1, <1>3, <2>2, <3>2 DEF Smaller
    <3> QED
      BY <1>1, <3>1, <3>3
  <2> QED
    BY <2>3, <2>4
<1> DEFINE old == file[BlockIndex(pos) + 1]
<1>5. old \in Blocks /\ old.size \in 0 .. MaxData
  <2>1. old \in Blocks
    BY <1>1, <1>2, <1>4
  <2> QED
    BY <2>1 DEF Blocks
<1>6. /\ block.size = old.size
      /\ \A j \in 1 .. old.size : block.bytes[j] = old.bytes[j]
  <2>1. block = Loaded(old)
    BY <1>4 DEF Slot
  <2> QED
    BY <1>5, <2>1, LoadedKeeps
<1>7. Offset(pos) < block.size
  BY <1>2, <1>4, <1>5, <1>6 DEF Aligned
<1>8. size \in Nat /\ Offset(pos) + size <= block.size
  <2>1. Offset(pos) \in Nat /\ asked - Len(done) \in Nat
    BY <1>1, <1>2
  <2> QED
    BY <1>3, <1>7, <2>1, TakeFits
<1> QED
  BY <1>4, <1>6, <1>8

\* A turn of read_file delivers the data of its block.
LEMMA ReadTurnDelivers ==
    ASSUME TypeInv, ReadInv, DataInv, ReadTurn, pc' = "read_loop"
    PROVE  DataInv'
<1>1. /\ pc = "read_loop" /\ Len(done) # asked /\ pos = position + Len(done)
      /\ Aligned(file, position) /\ pos <= MaxFile =>
            Aligned(file, pos) /\ Holds(file, position, done)
      /\ AnswerHeld
  BY DEF ReadInv, DataInv, ReadTurn
<1>2. /\ TypeOK /\ pos \in Nat /\ position \in Nat /\ Len(done) \in Nat /\ MaxFile \in Nat
  BY MaxFileType DEF TypeInv, TypeOK
<1>3. PICK block \in Slot(BlockIndex(pos)), size \in Nat :
            /\ block.size # Offset(pos)
            /\ size = Take(block, Offset(pos), asked - Len(done))
            /\ pos' = pos + size
            /\ done' \in Seq(AnyByte) /\ Len(done') = Len(done) + size
            /\ \A k \in 1 .. Len(done) : done'[k] = done[k]
            /\ \A j \in 1 .. size : Offset(pos) + j <= MaxData =>
                    done'[Len(done) + j] = block.bytes[Offset(pos) + j]
            /\ UNCHANGED <<file, position, asked, written, answer>>
  BY TurnReads
<1>4. AnswerHeld'
  BY <1>1, <1>3 DEF AnswerHeld, InData, DataSize
<1>5. ASSUME Aligned(file, position), pos + size <= MaxFile
      PROVE  Aligned(file, pos + size) /\ Holds(file, position, done')
  <2>1. pos <= MaxFile /\ Aligned(file, pos) /\ Holds(file, position, done)
    BY <1>1, <1>2, <1>3, <1>5
  <2>2. /\ BlockIndex(pos) < Len(file)
        /\ Offset(pos) + size <= file[BlockIndex(pos) + 1].size
        /\ \A j \in 1 .. file[BlockIndex(pos) + 1].size :
                block.bytes[j] = file[BlockIndex(pos) + 1].bytes[j]
    BY <1>1, <1>3, <1>5, <2>1, DataTurn
  <2>3. /\ BlockIndex(pos) \in Nat /\ Offset(pos) \in 0 .. (MaxData - 1)
        /\ file[BlockIndex(pos) + 1].size \in 0 .. MaxData
    <3>1. BlockIndex(pos) \in Nat /\ Offset(pos) \in 0 .. (MaxData - 1)
      BY <1>2, BlockAndOffset, Zenon
    <3>2. file[BlockIndex(pos) + 1] \in Blocks
      BY <1>2, <2>2, <3>1 DEF TypeOK
    <3> QED
      BY <3>1, <3>2 DEF Blocks
  <2> DEFINE end == file[BlockIndex(pos) + 1].size
  <2>4. Aligned(file, pos + size)
    <3>1. CASE Offset(pos) + size = MaxData
      <4>1. Offset(pos + size) = 0
        BY <1>2, <1>3, <3>1, NextBlock
      <4>2. pos + size \in Nat
        BY <1>2, <1>3
      <4>3. BlockIndex(pos + size) \in Nat
        BY <4>2, BlockAndOffset, Zenon
      <4>4. BlockIndex(pos + size) < Len(file) => file[BlockIndex(pos + size) + 1] \in Blocks
        BY <1>2, <4>3 DEF TypeOK
      <4>5. BlockIndex(pos + size) < Len(file) => file[BlockIndex(pos + size) + 1].size \in Nat
        BY <4>4 DEF Blocks
      <4> QED
        BY <4>1, <4>5 DEF Aligned
    <3>2. CASE Offset(pos) + size < MaxData
      <4>1. BlockIndex(pos + size) = BlockIndex(pos) /\ Offset(pos + size) = Offset(pos) + size
        BY <1>2, <1>3, <3>2, SameBlock
      <4> QED
        BY <2>2, <4>1 DEF Aligned
    <3> QED
      <4>1. /\ size \in Nat /\ Offset(pos) \in Nat /\ MaxData \in Nat
            /\ file[BlockIndex(pos) + 1].size \in Nat
            /\ file[BlockIndex(pos) + 1].size <= MaxData
        BY <1>3, <2>3
      <4>2. Offset(pos) + size <= file[BlockIndex(pos) + 1].size
        BY <2>2
      <4>3. Offset(pos) + size = MaxData \/ Offset(pos) + size < MaxData
        BY <4>1, <4>2
      <4> QED
        BY <4>3, <3>1, <3>2
  <2>5. ASSUME NEW j \in 1 .. size PROVE HoldsAt(file, pos + (j - 1), done'[Len(done) + j])
    <3>1. /\ Offset(pos) + j \in 1 .. end /\ Offset(pos) + j <= MaxData
          /\ Offset(pos) + (j - 1) < MaxData /\ j - 1 \in Nat
          /\ Offset(pos) + (j - 1) < end /\ Offset(pos) + (j - 1) + 1 = Offset(pos) + j
      <4> HIDE DEF end
      <4>1. Offset(pos) + size <= end /\ end \in 0 .. MaxData
        BY <2>2, <2>3 DEF end
      <4>2. Offset(pos) \in Nat /\ size \in Nat
        BY <1>3, <2>3
      <4> QED
        BY <4>1, <4>2, StaysIn
    <3>2. /\ BlockIndex(pos + (j - 1)) = BlockIndex(pos)
          /\ Offset(pos + (j - 1)) = Offset(pos) + (j - 1)
      BY <1>2, <3>1, SameBlock
    <3>3. done'[Len(done) + j] = file[BlockIndex(pos) + 1].bytes[Offset(pos) + j]
      BY <1>3, <2>2, <3>1
    <3> QED
      BY <2>2, <3>1, <3>2, <3>3 DEF HoldsAt
  <2>6. ASSUME NEW k \in 1 .. Len(done') PROVE HoldsAt(file, position + k - 1, done'[k])
    <3>1. CASE k <= Len(done)
      BY <1>2, <1>3, <2>1, <3>1 DEF Holds
    <3>2. CASE ~ k <= Len(done)
      <4> DEFINE j == k - Len(done)
      <4>1. /\ j \in 1 .. size /\ Len(done) + j = k
            /\ pos + (j - 1) = position + k - 1
        <5>1. /\ k \in Nat /\ Len(done) < k /\ k <= Len(done) + size
              /\ pos = position + Len(done)
          BY <1>1, <1>2, <1>3, <3>2
        <5>2. Len(done) \in Nat /\ size \in Nat /\ position \in Nat
          BY <1>1, <1>2, <1>3
        <5> QED
          BY <5>1, <5>2, ChunkByte
      <4> HIDE DEF j
      <4>2. HoldsAt(file, pos + (j - 1), done'[Len(done) + j])
        BY <2>5, <4>1
      <4> QED
        BY <4>1, <4>2
    <3> QED
      BY <3>1, <3>2
  <2> QED
    BY <2>4, <2>6 DEF Holds
<1> QED
  BY <1>3, <1>4, <1>5 DEF DataInv

\* A read stops at the end of the data, or has all it was asked for.
LEMMA EndReadDelivers ==
    ASSUME TypeInv, ReadInv, DataInv, pc = "read_loop", EndRead,
           \/ Len(done) = asked
           \/ BlockIndex(pos) > Len(file)
           \/ \E block \in Slot(BlockIndex(pos)) : block.size = Offset(pos)
    PROVE  DataInv'
<1>1. /\ pc' # "read_loop" /\ file' = file
      /\ answer' = [Nothing EXCEPT !.pos = position, !.size = asked, !.bytes = done]
  BY DEF EndRead
<1>2. answer'.pos = position /\ answer'.size = asked /\ answer'.bytes = done
  BY <1>1 DEF Nothing
<1>3. /\ file \in Seq(Blocks) /\ pos \in Nat /\ asked \in Nat /\ Len(done) \in Nat
      /\ pos = position + Len(done)
  BY DEF TypeInv, TypeOK, ReadInv
<1>4. Aligned(file, position) /\ pos <= MaxFile => Holds(file, position, done)
  BY DEF DataInv
<1>5. ASSUME Len(done) < asked PROVE ~InData(pos)
  <2>1. BlockIndex(pos) \in Nat /\ Offset(pos) \in 0 .. (MaxData - 1)
    BY <1>3, BlockAndOffset, Zenon
  <2>2. CASE ~ BlockIndex(pos) < Len(file)
    BY <2>1, <2>2 DEF InData, DataSize
  <2>3. CASE BlockIndex(pos) < Len(file)
    <3>1. file[BlockIndex(pos) + 1] \in Blocks
      BY <1>3, <2>1, <2>3
    <3>2. Loaded(file[BlockIndex(pos) + 1]).size = file[BlockIndex(pos) + 1].size
      BY <3>1, LoadedKeeps
    <3>3. file[BlockIndex(pos) + 1].size = Offset(pos)
      BY <1>3, <1>5, <2>1, <2>3, <3>2 DEF Slot
    <3> QED
      BY <2>1, <2>3, <3>3 DEF InData, DataSize
  <2> QED
    BY <2>2, <2>3
<1>6. AnswerHeld'
  BY <1>1, <1>2, <1>3, <1>4, <1>5 DEF AnswerHeld, InData, DataSize
<1> QED
  BY <1>1, <1>6 DEF DataInv

LEMMA NothingHeld == ASSUME answer = Nothing PROVE AnswerHeld
<1>1. answer.bytes = <<>> /\ answer.size = 0 /\ Len(answer.bytes) = 0
  BY DEF Nothing
<1> QED
  BY <1>1 DEF AnswerHeld, Holds

LEMMA StepDataInv ==
    ASSUME TypeInv, WriteInv, ReadInv, DataInv, [Next]_vars
    PROVE  DataInv'
<1>1. ASSUME answer' = Nothing, pc' # "read_loop" PROVE DataInv'
  <2>1. answer'.bytes = <<>> /\ answer'.size = 0 /\ Len(answer'.bytes) = 0
    BY <1>1 DEF Nothing
  <2> QED
    BY <1>1, <2>1 DEF DataInv, AnswerHeld, Holds
<1>2. ASSUME pc' # "read_loop", UNCHANGED <<file, answer>> PROVE DataInv'
  BY <1>2 DEF DataInv, AnswerHeld, InData, DataSize
<1>3. CASE WriteTurn \/ WriteEnds
  <2>1. pc = "write_loop"
    BY <1>3 DEF WriteTurn, WriteEnds
  <2>2. answer' = answer /\ pc' # "read_loop"
    BY <1>3, <2>1 DEF WriteTurn, WriteEnds, EndWrite
  <2>3. answer = Nothing
    BY <2>1 DEF WriteInv
  <2> QED
    BY <1>1, <2>2, <2>3
<1>4. ASSUME NEW n \in Lengths, NEW bytes \in [1 .. n -> Bytes], Write(bytes) PROVE DataInv'
  BY <1>1, <1>4 DEF Write, StartWrite
<1>5. CASE ReadHost
  BY <1>1, <1>2, <1>5 DEF ReadHost, StartWrite
<1>6. CASE \/ \E p \in Positions : Lseek(p)
           \/ StatHost \/ WriteHost \/ ChangeHost \/ Restart
  BY <1>2, <1>6 DEF Lseek, StatHost, WriteHost, ChangeHost, Restart, locals
<1>7. ASSUME NEW size, NEW forHost, Read(size, forHost) PROVE DataInv'
  <2>1. /\ pos' = position /\ done' = <<>> /\ UNCHANGED <<file, position, answer>>
    BY <1>7 DEF Read
  <2>2. Holds(file', position', done')
    BY <2>1 DEF Holds
  <2>3. AnswerHeld'
    BY <2>1 DEF DataInv, AnswerHeld, InData, DataSize
  <2> QED
    BY <2>1, <2>2, <2>3, Zenon DEF DataInv
<1>8. CASE ReadTurn
  <2>1. CASE pc' = "read_loop"
    BY <1>8, <2>1, ReadTurnDelivers
  <2>2. CASE pc' # "read_loop"
    <3>1. \/ EndRead /\ \E block \in Slot(BlockIndex(pos)) : block.size = Offset(pos)
          \/ UNCHANGED <<file, answer>>
      BY <1>8, <2>2 DEF ReadTurn
    <3>2. pc = "read_loop"
      BY <1>8 DEF ReadTurn
    <3> QED
      BY <1>2, <2>2, <3>1, <3>2, EndReadDelivers
  <2> QED
    BY <2>1, <2>2
<1>9. CASE ReadEnds
  <2>1. pc = "read_loop" /\ EndRead /\ (Len(done) = asked \/ BlockIndex(pos) > Len(file))
    BY <1>9 DEF ReadEnds
  <2> QED
    BY <2>1, EndReadDelivers
<1>10. CASE UNCHANGED vars
  BY <1>10 DEF vars, locals, DataInv, AnswerHeld, InData, DataSize
<1> QED
  BY <1>3, <1>4, <1>5, <1>6, <1>7, <1>8, <1>9, <1>10 DEF Next

LEMMA InitDataInv == Init => DataInv
BY NothingHeld DEF Init, DataInv

(* read_file: a read that begins in the data of a block or at its end      *)
(* delivers the bytes of the file and stops only where data end, for       *)
(* blocks and files of every size.                                         *)
THEOREM DataAreRead == Spec => []ReadsTheData
<1>1. ASSUME TypeInv, DataInv PROVE ReadsTheData
  <2> DEFINE p == answer.pos
             next == p + Len(answer.bytes)
  <2> SUFFICES ASSUME Offset(p) <= DataSize(BlockIndex(p)), next <= MaxFile
               PROVE  /\ \A q \in p .. next - 1 :
                            /\ InData(q)
                            /\ answer.bytes[q - p + 1] =
                                    file[BlockIndex(q) + 1].bytes[Offset(q) + 1]
                      /\ Len(answer.bytes) < answer.size => ~InData(next)
    BY DEF ReadsTheData
  <2>1. /\ Holds(file, p, answer.bytes)
        /\ Len(answer.bytes) < answer.size => ~InData(next)
    BY <1>1 DEF DataInv, AnswerHeld, Aligned, DataSize
  <2>2. p \in Nat /\ Len(answer.bytes) \in Nat
    BY <1>1 DEF TypeInv, Outcomes
  <2>3. ASSUME NEW q \in p .. next - 1
        PROVE  /\ InData(q)
               /\ answer.bytes[q - p + 1] = file[BlockIndex(q) + 1].bytes[Offset(q) + 1]
    <3> DEFINE k == q - p + 1
    <3>1. k \in 1 .. Len(answer.bytes) /\ p + k - 1 = q
      BY <2>2
    <3> HIDE DEF k, p
    <3>2. HoldsAt(file, q, answer.bytes[k])
      BY <2>1, <3>1 DEF Holds
    <3> QED
      BY <3>2 DEF HoldsAt, InData, DataSize, k
  <2> QED
    BY <2>1, <2>3
<1>2. TypeInv /\ WriteInv /\ ReadInv /\ DataInv /\ [Next]_vars
        => (TypeInv /\ WriteInv /\ ReadInv /\ DataInv)'
  BY StepType, StepWriteInv, StepReadInv, StepDataInv
<1> QED
  BY <1>1, <1>2, InitType, InitReadInv, InitDataInv, PTL DEF Spec

----------------------------------------------------------------------------
(* A user who writes at the end.                                           *)

\* Every block but the last is full: the file has no gap.
Gapless(f) == \A i \in 1 .. (Len(f) - 1) : f[i].size = MaxData
LengthOf(f) == MaxData * (Len(f) - 1) + f[Len(f)].size

\* Where offset o of block b lies in a file of n blocks, the last with s bytes.
LEMMA WhereItLies ==
    ASSUME NEW size \in Nat, NEW n \in Nat \ {0}, NEW s \in 0 .. size, NEW m \in Nat,
           NEW b \in Nat, NEW o \in 0 .. (size - 1), NEW q \in Nat, NEW here,
           b < n - 1 => q < m /\ here = size,
           b = n - 1 => q = m + o /\ here = s,
           b = n => q = m + size + o,
           b > n => q >= m + size + size
    PROVE  /\ q < m + s <=> b < n /\ o < here
           /\ q <= m + s => b <= n
           /\ q = m + s /\ b < n => b = n - 1 /\ o = s
           /\ q = m + s /\ b >= n => b = n /\ o = 0 /\ s = size
<1>1. CASE b < n - 1
  BY <1>1
<1>2. CASE b = n - 1
  BY <1>2
<1>3. CASE b = n
  BY <1>3
<1>4. CASE b > n
  BY <1>4
<1> QED
  BY <1>1, <1>2, <1>3, <1>4

\* The positions in front of the end are those in the data of a block.
LEMMA InTheFile ==
    ASSUME NEW f \in Seq(Blocks), Len(f) # 0, Gapless(f), NEW q \in Nat
    PROVE  /\ LengthOf(f) \in Nat
           /\ q < LengthOf(f) <=> /\ BlockIndex(q) < Len(f)
                                  /\ Offset(q) < f[BlockIndex(q) + 1].size
           /\ q <= LengthOf(f) => BlockIndex(q) <= Len(f)
           /\ q = LengthOf(f) /\ BlockIndex(q) < Len(f) =>
                    BlockIndex(q) = Len(f) - 1 /\ Offset(q) = f[Len(f)].size
           /\ q = LengthOf(f) /\ BlockIndex(q) >= Len(f) =>
                    BlockIndex(q) = Len(f) /\ Offset(q) = 0 /\ f[Len(f)].size = MaxData
<1>1. PICK n \in Nat \ {0} : n = Len(f)
  OBVIOUS
<1>2. PICK s \in 0 .. MaxData : s = f[n].size
  <2>1. f[n] \in Blocks
    BY <1>1
  <2> QED
    BY <2>1 DEF Blocks
<1>3. PICK b \in Nat, o \in 0 .. (MaxData - 1) :
            b = BlockIndex(q) /\ o = Offset(q) /\ q = MaxData * b + o
  BY BlockAndOffset
<1>4. PICK m \in Nat : m = MaxData * (n - 1)
  BY <1>1
<1>10. MaxData * n = m + MaxData
  BY <1>4
<1>11. f[Len(f)].size = s
  BY <1>1, <1>2
<1>5. LengthOf(f) = m + s
  BY <1>1, <1>2, <1>4 DEF LengthOf
<1>6. b < n - 1 => q < m /\ f[b + 1].size = MaxData
  <2> SUFFICES ASSUME b < n - 1 PROVE q < m /\ f[b + 1].size = MaxData
    OBVIOUS
  <2>1. MaxData * b + MaxData <= m
    <3>1. n - 1 \in Nat /\ b \in Nat /\ b < n - 1
      BY <1>1, <1>3
    <3>2. MaxData * b + MaxData <= MaxData * (n - 1)
      BY <3>1, Monotone
    <3> QED
      BY <1>4, <3>2
  <2>2. q < m
    <3>1. PICK k \in Nat : k = MaxData * b
      BY <1>3
    <3>2. q = k + o /\ k + MaxData <= m
      BY <1>3, <2>1, <3>1, Zenon
    <3>3. o \in 0 .. (MaxData - 1) /\ m \in Nat
      BY <1>3, <1>4, Zenon
    <3> QED
      BY <3>1, <3>2, <3>3
  <2> QED
    <3>1. n \in Nat /\ b \in Nat /\ n = Len(f)
      BY <1>1, <1>3, Zenon
    <3>2. b + 1 \in 1 .. (Len(f) - 1)
      BY <3>1
    <3>3. f[b + 1].size = MaxData
      BY <3>2 DEF Gapless
    <3> QED
      BY <2>2, <3>3
<1>7. b = n - 1 => q = m + o /\ f[b + 1].size = s
  <2> SUFFICES ASSUME b = n - 1 PROVE q = m + o /\ f[b + 1].size = s
    OBVIOUS
  <2>1. q = m + o
    BY <1>3, <1>4
  <2> QED
    BY <1>1, <1>2, <2>1
<1>8. b = n => q = m + MaxData + o
  BY <1>3, <1>10
<1>9. b > n => q >= m + MaxData + MaxData
  <2> SUFFICES ASSUME b > n PROVE q >= m + MaxData + MaxData
    OBVIOUS
  <2>1. MaxData * n + MaxData <= MaxData * b
    BY <1>1, <1>3, Monotone
  <2>2. MaxData * b \in Nat
    BY <1>3
  <2> QED
    <3>1. PICK k \in Nat : k = MaxData * b
      BY <2>2
    <3>2. q = k + o /\ m + MaxData + MaxData <= k
      BY <1>3, <1>10, <2>1, <3>1, Zenon
    <3>3. o \in 0 .. (MaxData - 1) /\ m \in Nat
      BY <1>3, <1>4, Zenon
    <3> QED
      BY <3>1, <3>2, <3>3
<1>12. /\ q < m + s <=> b < n /\ o < f[b + 1].size
       /\ q <= m + s => b <= n
       /\ q = m + s /\ b < n => b = n - 1 /\ o = s
       /\ q = m + s /\ b >= n => b = n /\ o = 0 /\ s = MaxData
  <2>1. MaxData \in Nat /\ n \in Nat \ {0} /\ s \in 0 .. MaxData /\ m \in Nat
        /\ b \in Nat /\ o \in 0 .. (MaxData - 1) /\ q \in Nat
    BY <1>1, <1>2, <1>3, <1>4
  <2> QED
    BY <1>6, <1>7, <1>8, <1>9, <2>1, WhereItLies
<1>13. m + s \in Nat
  BY <1>2, <1>4
<1> QED
  <2>1. q < LengthOf(f) <=> BlockIndex(q) < Len(f) /\ Offset(q) < f[BlockIndex(q) + 1].size
    BY <1>1, <1>3, <1>5, <1>12
  <2>2. q <= LengthOf(f) => BlockIndex(q) <= Len(f)
    BY <1>1, <1>3, <1>5, <1>12
  <2>3. q = LengthOf(f) /\ BlockIndex(q) < Len(f) =>
            BlockIndex(q) = Len(f) - 1 /\ Offset(q) = f[Len(f)].size
    BY <1>1, <1>3, <1>5, <1>11, <1>12
  <2>4. q = LengthOf(f) /\ BlockIndex(q) >= Len(f) =>
            BlockIndex(q) = Len(f) /\ Offset(q) = 0 /\ f[Len(f)].size = MaxData
    BY <1>1, <1>3, <1>5, <1>11, <1>12
  <2> QED
    BY <1>5, <1>13, <2>1, <2>2, <2>3, <2>4

\* Such a file is its contents.
ByteAt(f, q) == f[BlockIndex(q) + 1].bytes[Offset(q) + 1]
ContentsOf(f) == [k \in 1 .. LengthOf(f) |-> ByteAt(f, k - 1)]

LEMMA ContentsType ==
    ASSUME NEW f \in Seq(Blocks), Len(f) # 0, Gapless(f)
    PROVE  /\ ContentsOf(f) \in Seq(AnyByte) /\ Len(ContentsOf(f)) = LengthOf(f)
           /\ \A k \in 1 .. LengthOf(f) : HoldsAt(f, k - 1, ContentsOf(f)[k])
<1>1. LengthOf(f) \in Nat
  BY InTheFile
<1>2. ASSUME NEW k \in 1 .. LengthOf(f)
      PROVE  ByteAt(f, k - 1) \in AnyByte /\ HoldsAt(f, k - 1, ByteAt(f, k - 1))
  <2>1. PICK q \in Nat : q = k - 1 /\ q < LengthOf(f)
    BY <1>1
  <2>2. /\ BlockIndex(q) \in Nat /\ Offset(q) \in 0 .. (MaxData - 1)
        /\ BlockIndex(q) < Len(f) /\ Offset(q) < f[BlockIndex(q) + 1].size
    BY <2>1, BlockAndOffset, InTheFile
  <2>3. f[BlockIndex(q) + 1] \in Blocks
    BY <2>2
  <2>4. ByteAt(f, q) \in AnyByte
    BY <2>2, <2>3 DEF ByteAt, Blocks
  <2>5. HoldsAt(f, q, ByteAt(f, q))
    BY <2>2 DEF HoldsAt, ByteAt
  <2> QED
    BY <2>1, <2>4, <2>5
<1>3. ContentsOf(f) \in Seq(AnyByte) /\ Len(ContentsOf(f)) = LengthOf(f)
  BY <1>1, <1>2 DEF ContentsOf
<1>4. \A k \in 1 .. LengthOf(f) : ContentsOf(f)[k] = ByteAt(f, k - 1)
  BY DEF ContentsOf
<1> QED
  BY <1>2, <1>3, <1>4

LEMMA ContentsAre == Length = LengthOf(file) /\ Contents = ContentsOf(file)
BY DEF Length, LengthOf, Contents, ContentsOf, ByteAt

----------------------------------------------------------------------------
(* The file is gapless and ends where the write at work is; a read has     *)
(* delivered the bytes of the file, and ends in it or behind the largest.  *)
AppendInv ==
    /\ Gapless(file)
    /\ position > LengthOf(file) => LengthOf(file) = MaxFile
    /\ pc # "write_loop" => data = <<>>
    /\ pc = "write_loop" =>
          /\ pos = LengthOf(file) /\ written.dense
          /\ \A k \in 1 .. Len(done) : done[k] = data[k]
    /\ pc = "read_loop" =>
          /\ pos > LengthOf(file) => LengthOf(file) = MaxFile
          /\ \A k \in 1 .. Len(done) :
                position + k - 1 < LengthOf(file) => HoldsAt(file, position + k - 1, done[k])

\* What a turn of write_to_file leaves of the block it writes to, and of the others.
LEMMA TurnKeeps ==
    ASSUME TypeInv, WriteTurn, pc' = "write_loop", BlockIndex(pos) <= Len(file)
    PROVE  /\ BlockIndex(pos) < Len(file) => Len(file') = Len(file)
           /\ BlockIndex(pos) >= Len(file) => Len(file') = Len(file) + 1
           /\ BlockIndex(pos) < Len(file) =>
                \A j \in 1 .. Offset(pos) :
                    j <= file[BlockIndex(pos) + 1].size =>
                        file'[BlockIndex(pos) + 1].bytes[j] = file[BlockIndex(pos) + 1].bytes[j]
<1> DEFINE index == BlockIndex(pos)
           offset == Offset(pos)
           size == Smaller(Len(data) - Len(done), MaxData - offset)
           chunk == SubSeq(data, Len(done) + 1, Len(done) + size)
<1>1. /\ TypeOK /\ pc = "write_loop" /\ Len(done) # Len(data) /\ file \in Seq(Blocks)
  BY DEF TypeInv, TypeOK, WriteTurn
<1>2. index \in Nat /\ offset \in 0 .. (MaxData - 1)
  BY <1>1, BlockAndOffset DEF TypeOK
<1>3. ~EndWrite("dead")
  BY DEF EndWrite
<1>4. \/ index < Len(file) /\ file' = [file EXCEPT ![index + 1] = Put(Loaded(@), offset, chunk)]
      \/ index >= Len(file) /\ file' = Append(file, Put(ZeroBlock, offset, chunk))
  BY <1>3 DEF WriteTurn
<1> HIDE DEF index, offset, chunk
<1>5. CASE index < Len(file)
  <2>1. PICK old \in Blocks : old = file[index + 1]
    BY <1>1, <1>2, <1>5
  <2>2. /\ file' = [file EXCEPT ![index + 1] = Put(Loaded(old), offset, chunk)]
        /\ Len(file') = Len(file) /\ file'[index + 1] = Put(Loaded(old), offset, chunk)
    BY <1>1, <1>2, <1>4, <1>5, <2>1
  <2>3. ASSUME NEW j \in 1 .. offset, j <= old.size
        PROVE  Put(Loaded(old), offset, chunk).bytes[j] = old.bytes[j]
    <3>1. Put(Loaded(old), offset, chunk).bytes[j] = Loaded(old).bytes[j]
      BY <1>2 DEF Put
    <3>2. j \in 1 .. old.size
      BY <1>2, <2>3 DEF Blocks
    <3> QED
      BY <3>1, <3>2, LoadedKeeps
  <2> QED
    <3>1. \A j \in 1 .. offset :
             j <= file[index + 1].size => file'[index + 1].bytes[j] = file[index + 1].bytes[j]
      BY <2>1, <2>2, <2>3
    <3>2. ~ index >= Len(file)
      BY <1>1, <1>2, <1>5
    <3> QED
      BY <2>2, <3>1, <3>2, Zenon DEF index, offset
<1>6. CASE ~ index < Len(file)
  <2>1. PICK new : file' = Append(file, new)
    BY <1>1, <1>2, <1>4, <1>6
  <2>2. file \in Seq(Blocks \cup {new})
    BY <1>1
  <2>3. Len(file') = Len(file) + 1
    BY <2>1, <2>2
  <2> QED
    BY <1>6, <2>3 DEF index
<1> QED
  BY <1>5, <1>6

LEMMA EndOfLast ==
    ASSUME NEW f, NEW n \in Nat, Len(f) = n + 1, NEW s, f[n + 1].size = s
    PROVE  LengthOf(f) = MaxData * n + s
<1>1. Len(f) - 1 = n
  OBVIOUS
<1> QED
  BY <1>1 DEF LengthOf

\* A turn of write_to_file at the end of the file moves the end.
LEMMA TurnAppends ==
    ASSUME TypeInv, WriteInv, AppendInv, WriteTurn, pc' = "write_loop"
    PROVE  /\ AppendInv'
           /\ \A q \in Nat : \A b : q < pos /\ HoldsAt(file, q, b) => HoldsAt(file', q, b)
<1> DEFINE size == Smaller(Len(data) - Len(done), MaxData - Offset(pos))
<1>1. /\ TypeOK /\ pc = "write_loop" /\ Len(done) # Len(data) /\ file \in Seq(Blocks)
      /\ pos \in Nat /\ position \in Nat /\ Len(file) \in Nat \ {0} /\ file' \in Seq(Blocks)
      /\ done \in Seq(AnyByte) /\ data \in Seq(AnyByte) /\ Len(done) \in Nat /\ Len(data) \in Nat
  <2>1. TypeOK'
    BY WriteTurnType DEF TypeInv
  <2>2. TypeOK /\ pc = "write_loop" /\ Len(done) # Len(data)
    BY DEF TypeInv, WriteTurn
  <2>3. file' \in Seq(Blocks)
    BY <2>1 DEF TypeOK
  <2> QED
    BY <2>2, <2>3 DEF TypeOK
<1>2. /\ Gapless(file) /\ pos = LengthOf(file) /\ written.dense /\ pos = position + Len(done)
      /\ \A k \in 1 .. Len(done) : done[k] = data[k]
  BY <1>1 DEF AppendInv, WriteInv
<1>3. /\ BlockIndex(pos) \in Nat /\ Offset(pos) \in 0 .. (MaxData - 1)
  BY <1>1, BlockAndOffset
<1>13. pos = MaxData * BlockIndex(pos) + Offset(pos)
  BY <1>1, BlockAndOffset, Zenon
<1>4. /\ BlockIndex(pos) <= Len(file)
      /\ BlockIndex(pos) < Len(file) =>
            BlockIndex(pos) = Len(file) - 1 /\ Offset(pos) = file[Len(file)].size
      /\ BlockIndex(pos) >= Len(file) =>
            /\ BlockIndex(pos) = Len(file) /\ Offset(pos) = 0
            /\ file[Len(file)].size = MaxData
  <2>1. Len(file) # 0 /\ pos <= LengthOf(file)
    BY <1>1, <1>2
  <2> QED
    BY <1>1, <1>2, <2>1, InTheFile, Zenon
<1>5. /\ size \in Nat \ {0}
  BY <1>1, ChunkFits
<1> HIDE DEF size
<1>6. /\ pos' = pos + size /\ Len(done') = Len(done) + size
      /\ \A k \in 1 .. Len(done) : done'[k] = done[k]
      /\ \A i \in 1 .. Len(file) : i # BlockIndex(pos) + 1 => file'[i] = file[i]
      /\ file'[BlockIndex(pos) + 1].size = Offset(pos) + size
      /\ UNCHANGED <<position, data, written, answer>>
  BY <1>4, TurnPuts DEF size
<1>7. Len(file') = BlockIndex(pos) + 1
  BY <1>1, <1>3, <1>4, TurnKeeps
<1>8. LengthOf(file') = pos'
  <2>1. LengthOf(file') = MaxData * BlockIndex(pos) + (Offset(pos) + size)
    BY <1>3, <1>6, <1>7, EndOfLast
  <2>2. PICK m \in Nat : m = MaxData * BlockIndex(pos)
    BY <1>3
  <2> QED
    BY <1>3, <1>5, <1>6, <1>13, <2>1, <2>2
<1>9. Gapless(file')
  <2> SUFFICES ASSUME NEW i \in 1 .. BlockIndex(pos) PROVE file'[i].size = MaxData
    BY <1>3, <1>7 DEF Gapless
  <2>1. i \in 1 .. Len(file) /\ i # BlockIndex(pos) + 1
    BY <1>1, <1>3, <1>4
  <2>4. file'[i] = file[i]
    BY <1>6, <2>1
  <2>2. CASE BlockIndex(pos) < Len(file)
    BY <1>1, <1>2, <1>3, <1>4, <2>1, <2>2, <2>4 DEF Gapless
  <2>3. CASE BlockIndex(pos) >= Len(file)
    BY <1>1, <1>2, <1>3, <1>4, <2>1, <2>3, <2>4 DEF Gapless
  <2> QED
    BY <1>1, <1>3, <2>2, <2>3
<1>10. ASSUME NEW k \in 1 .. Len(done') PROVE done'[k] = data[k]
  <2> DEFINE chunk == SubSeq(data, Len(done) + 1, Len(done) + size)
  <2>1. done' = done \o chunk
    BY DEF WriteTurn, EndWrite, size
  <2>2. chunk \in Seq(AnyByte) /\ Len(chunk) = size
    BY <1>1, ChunkFits DEF size
  <2>3. \A j \in 1 .. size : chunk[j] = data[Len(done) + j]
    BY <1>1, <1>5, <2>2
  <2> HIDE DEF chunk
  <2>4. CASE k <= Len(done)
    <3>1. k \in 1 .. Len(done)
      BY <1>1, <1>5, <1>6, <2>4
    <3> QED
      BY <1>2, <1>6, <3>1
  <2>5. CASE ~ k <= Len(done)
    <3>1. PICK j \in 1 .. size : k = Len(done) + j
      <4>1. k - Len(done) \in 1 .. size /\ k = Len(done) + (k - Len(done))
        BY <1>1, <1>5, <1>6, <2>5
      <4> QED
        BY <4>1
    <3>2. (done \o chunk)[Len(done) + j] = chunk[j]
      BY <1>1, <2>2, Joined
    <3> QED
      BY <2>1, <2>3, <3>1, <3>2
  <2> QED
    BY <2>4, <2>5
<1>11. ASSUME NEW q \in Nat, NEW b, q < pos, HoldsAt(file, q, b) PROVE HoldsAt(file', q, b)
  <2>1. /\ BlockIndex(q) \in Nat /\ Offset(q) \in 0 .. (MaxData - 1)
    BY BlockAndOffset
  <2>2. /\ BlockIndex(q) < Len(file) /\ Offset(q) < file[BlockIndex(q) + 1].size
        /\ file[BlockIndex(q) + 1].bytes[Offset(q) + 1] = b
    BY <1>11 DEF HoldsAt
  <2>3. BlockIndex(q) < Len(file')
    BY <1>1, <1>3, <1>4, <1>7, <2>1, <2>2
  <2>4. CASE BlockIndex(q) # BlockIndex(pos)
    <3>1. BlockIndex(q) + 1 \in 1 .. Len(file) /\ BlockIndex(q) + 1 # BlockIndex(pos) + 1
      <4>1. Len(file) \in Nat /\ BlockIndex(pos) \in Nat /\ BlockIndex(q) \in Nat
        BY <1>1, <1>3, <2>1
      <4>2. BlockIndex(q) < Len(file)
        BY <2>2
      <4> QED
        BY <4>1, <4>2, <2>4
    <3>2. file'[BlockIndex(q) + 1] = file[BlockIndex(q) + 1]
      BY <1>6, <3>1
    <3> QED
      BY <2>2, <2>3, <3>2 DEF HoldsAt
  <2>5. CASE BlockIndex(q) = BlockIndex(pos)
    <3>1. Offset(q) < Offset(pos)
      <4>1. q = MaxData * BlockIndex(pos) + Offset(q)
        BY <2>5, BlockAndOffset, Zenon
      <4>2. MaxData * BlockIndex(pos) \in Nat
        BY <1>3
      <4> QED
        BY <1>3, <1>11, <1>13, <2>1, <4>1, <4>2
    <3>2. file[BlockIndex(pos) + 1].size = Offset(pos) /\ BlockIndex(pos) < Len(file)
      BY <1>1, <1>3, <1>4, <2>2, <2>5
    <3>3. Offset(q) + 1 \in 1 .. Offset(pos) /\ Offset(q) + 1 <= Offset(pos)
      BY <1>3, <2>1, <3>1
    <3>4. file'[BlockIndex(pos) + 1].bytes[Offset(q) + 1] = file[BlockIndex(pos) + 1].bytes[Offset(q) + 1]
      BY <1>4, <3>2, <3>3, TurnKeeps
    <3>5. Offset(q) < file'[BlockIndex(pos) + 1].size
      BY <1>3, <1>5, <1>6, <2>1, <3>1
    <3> QED
      BY <2>2, <2>3, <2>5, <3>4, <3>5 DEF HoldsAt
  <2> QED
    BY <2>4, <2>5
<1>12. AppendInv'
  <2>1. pos' \in Nat /\ position' <= pos'
    BY <1>1, <1>2, <1>5, <1>6
  <2> QED
    BY <1>1, <1>2, <1>6, <1>8, <1>9, <1>10, <2>1 DEF AppendInv
<1> QED
  BY <1>11, <1>12

\* What a turn of read_file finds in the file and at its end.
LEMMA FindsTheData ==
    ASSUME TypeInv, Gapless(file), NEW block \in Slot(BlockIndex(pos))
    PROVE  /\ pos < LengthOf(file) =>
                /\ BlockIndex(pos) < Len(file) /\ Offset(pos) < block.size
                /\ block.size = file[BlockIndex(pos) + 1].size
                /\ \A j \in 1 .. block.size : block.bytes[j] = file[BlockIndex(pos) + 1].bytes[j]
           /\ pos = LengthOf(file) /\ LengthOf(file) # MaxFile => block.size = Offset(pos)
<1>1. /\ file \in Seq(Blocks) /\ pos \in Nat /\ Len(file) \in 1 .. BlocksCountInInode /\ Len(file) # 0
  BY DEF TypeInv, TypeOK
<1>2. BlockIndex(pos) \in Nat /\ Offset(pos) \in 0 .. (MaxData - 1)
  BY <1>1, BlockAndOffset, Zenon
<1>3. /\ pos < LengthOf(file) => /\ BlockIndex(pos) < Len(file)
                                 /\ Offset(pos) < file[BlockIndex(pos) + 1].size
      /\ pos = LengthOf(file) /\ BlockIndex(pos) < Len(file) =>
            BlockIndex(pos) = Len(file) - 1 /\ Offset(pos) = file[Len(file)].size
      /\ pos = LengthOf(file) /\ BlockIndex(pos) >= Len(file) =>
            BlockIndex(pos) = Len(file) /\ Offset(pos) = 0
  BY <1>1, InTheFile, Zenon
<1>4. ASSUME BlockIndex(pos) < Len(file)
      PROVE  /\ block.size = file[BlockIndex(pos) + 1].size
             /\ \A j \in 1 .. block.size : block.bytes[j] = file[BlockIndex(pos) + 1].bytes[j]
  <2>1. PICK old \in Blocks : old = file[BlockIndex(pos) + 1]
    BY <1>1, <1>2, <1>4
  <2>2. block = Loaded(old)
    BY <1>4, <2>1 DEF Slot
  <2> QED
    BY <2>1, <2>2, LoadedKeeps
<1>5. ASSUME pos = LengthOf(file), LengthOf(file) # MaxFile PROVE block.size = Offset(pos)
  <2>1. CASE BlockIndex(pos) < Len(file)
    <3>1. BlockIndex(pos) + 1 = Len(file)
      BY <1>1, <1>3, <1>5, <2>1
    <3> QED
      BY <1>3, <1>4, <1>5, <2>1, <3>1
  <2>2. CASE BlockIndex(pos) >= Len(file)
    <3>1. BlockIndex(pos) = Len(file) /\ Offset(pos) = 0
      BY <1>3, <1>5, <2>2
    <3>2. BlockIndex(pos) # BlocksCountInInode
      <4>1. pos = MaxData * BlockIndex(pos) + 0
        BY <1>1, <3>1, BlockAndOffset, Zenon
      <4> QED
        BY <1>2, <1>5, <4>1 DEF MaxFile
    <3>3. block = ZeroBlock
      BY <1>1, <2>2, <3>1, <3>2 DEF Slot
    <3> QED
      BY <3>1, <3>3 DEF ZeroBlock
  <2> QED
    BY <1>1, <1>2, <2>1, <2>2
<1> QED
  BY <1>3, <1>4, <1>5

\* A turn of read_file delivers bytes of the file, or runs over the largest.
LEMMA ReadTurnFetches ==
    ASSUME TypeInv, ReadInv, AppendInv, ReadTurn, pc' = "read_loop"
    PROVE  AppendInv'
<1>1. /\ pc = "read_loop" /\ Len(done) # asked /\ pos = position + Len(done)
      /\ Gapless(file) /\ data = <<>>
      /\ position > LengthOf(file) => LengthOf(file) = MaxFile
      /\ pos > LengthOf(file) => LengthOf(file) = MaxFile
      /\ \A k \in 1 .. Len(done) :
            position + k - 1 < LengthOf(file) => HoldsAt(file, position + k - 1, done[k])
  BY DEF ReadInv, AppendInv, ReadTurn
<1>2. /\ file \in Seq(Blocks) /\ Len(file) # 0 /\ pos \in Nat /\ position \in Nat
      /\ asked \in Nat /\ Len(done) \in Nat /\ Len(done) <= asked
  BY <1>1 DEF TypeInv, TypeOK
<1>3. PICK block \in Slot(BlockIndex(pos)), size \in Nat :
            /\ block.size # Offset(pos)
            /\ size = Take(block, Offset(pos), asked - Len(done))
            /\ pos' = pos + size
            /\ Len(done') = Len(done) + size
            /\ \A k \in 1 .. Len(done) : done'[k] = done[k]
            /\ \A j \in 1 .. size : Offset(pos) + j <= MaxData =>
                    done'[Len(done) + j] = block.bytes[Offset(pos) + j]
            /\ UNCHANGED <<file, position, asked, written, answer>>
  BY TurnReads
<1>4. LengthOf(file) \in Nat
  BY <1>2, <1>1, InTheFile
<1>5. data' = data
  BY <1>1 DEF ReadTurn, EndRead, Forget
<1>6. CASE ~ pos < LengthOf(file)
  <2>1. LengthOf(file) = MaxFile
    <3>1. pos = LengthOf(file) /\ LengthOf(file) # MaxFile => block.size = Offset(pos)
      BY <1>1, <1>3, FindsTheData, Zenon
    <3>2. pos = LengthOf(file) \/ pos > LengthOf(file)
      BY <1>2, <1>4, <1>6
    <3> QED
      BY <1>1, <1>3, <3>1, <3>2
  <2>2. ASSUME NEW k \in 1 .. Len(done'), position + k - 1 < LengthOf(file)
        PROVE  HoldsAt(file, position + k - 1, done'[k])
    <3>1. k \in 1 .. Len(done)
      BY <1>1, <1>2, <1>3, <1>4, <1>6, <2>2
    <3> QED
      BY <1>1, <1>3, <2>2, <3>1
  <2> QED
    BY <1>1, <1>3, <1>5, <2>1, <2>2 DEF AppendInv
<1>7. CASE pos < LengthOf(file)
  <2>1. /\ BlockIndex(pos) < Len(file) /\ Offset(pos) < block.size
        /\ block.size = file[BlockIndex(pos) + 1].size
        /\ \A j \in 1 .. block.size : block.bytes[j] = file[BlockIndex(pos) + 1].bytes[j]
    BY <1>1, <1>7, FindsTheData
  <2>2. /\ BlockIndex(pos) \in Nat /\ Offset(pos) \in 0 .. (MaxData - 1)
    BY <1>2, BlockAndOffset, Zenon
  <2>3. block.size \in 0 .. MaxData
    <3>1. file[BlockIndex(pos) + 1] \in Blocks
      BY <1>2, <2>1, <2>2
    <3> QED
      BY <2>1, <3>1 DEF Blocks
  <2>4. Offset(pos) + size <= block.size
    <3>1. asked - Len(done) \in Nat /\ Offset(pos) \in Nat /\ block.size \in Nat
      BY <1>2, <2>2, <2>3
    <3> QED
      BY <1>3, <2>1, <3>1, TakeFits
  <2>5. ASSUME NEW j \in 1 .. size
        PROVE  /\ HoldsAt(file, pos + (j - 1), done'[Len(done) + j])
               /\ pos + (j - 1) < LengthOf(file)
    <3>1. /\ j - 1 \in Nat /\ Offset(pos) + (j - 1) < MaxData /\ Offset(pos) + (j - 1) < block.size
          /\ Offset(pos) + (j - 1) + 1 = Offset(pos) + j
          /\ Offset(pos) + j <= MaxData /\ Offset(pos) + j \in 1 .. block.size
      <4>1. /\ size \in Nat /\ Offset(pos) \in Nat /\ block.size \in 0 .. MaxData
            /\ Offset(pos) + size <= block.size
        BY <1>3, <2>2, <2>3, <2>4
      <4>2. /\ Offset(pos) + j \in 1 .. block.size /\ Offset(pos) + j <= MaxData
            /\ Offset(pos) + (j - 1) < MaxData /\ j - 1 \in Nat
            /\ Offset(pos) + (j - 1) < block.size /\ Offset(pos) + (j - 1) + 1 = Offset(pos) + j
        BY <4>1, StaysIn
      <4> QED
        BY <4>2
    <3>2. /\ BlockIndex(pos + (j - 1)) = BlockIndex(pos)
          /\ Offset(pos + (j - 1)) = Offset(pos) + (j - 1)
      BY <1>2, <3>1, SameBlock
    <3>3. done'[Len(done) + j] = file[BlockIndex(pos) + 1].bytes[Offset(pos) + j]
      BY <1>3, <2>1, <3>1
    <3>4. HoldsAt(file, pos + (j - 1), done'[Len(done) + j])
      BY <2>1, <3>1, <3>2, <3>3 DEF HoldsAt
    <3>5. pos + (j - 1) \in Nat
      BY <1>2, <3>1
    <3>6. pos + (j - 1) < LengthOf(file)
      BY <1>1, <1>2, <3>4, <3>5, InTheFile, Zenon DEF HoldsAt
    <3> QED
      BY <3>4, <3>6
  <2>6. ~ pos' > LengthOf(file)
    <3>1. CASE size = 0
      BY <1>2, <1>3, <1>4, <1>7, <3>1
    <3>2. CASE size # 0
      <4>1. size \in 1 .. size
        BY <1>3, <3>2
      <4>2. pos + (size - 1) < LengthOf(file)
        BY <2>5, <4>1
      <4> QED
        BY <1>2, <1>3, <1>4, <4>2
    <3> QED
      BY <3>1, <3>2
  <2>7. ASSUME NEW k \in 1 .. Len(done') PROVE HoldsAt(file, position + k - 1, done'[k])
    <3>1. CASE k <= Len(done)
      <4>1. k \in 1 .. Len(done) /\ position + k - 1 < LengthOf(file)
        BY <1>1, <1>2, <1>3, <1>4, <1>7, <3>1
      <4> QED
        BY <1>1, <1>3, <4>1
    <3>2. CASE ~ k <= Len(done)
      <4>1. PICK j \in 1 .. size : k = Len(done) + j /\ position + k - 1 = pos + (j - 1)
        <5>1. /\ k - Len(done) \in 1 .. size /\ k = Len(done) + (k - Len(done))
              /\ position + k - 1 = pos + ((k - Len(done)) - 1)
          <6>1. /\ k \in 1 .. Len(done') /\ Len(done') = Len(done) + size
                /\ Len(done) \in Nat /\ size \in Nat /\ position \in Nat
            BY <1>2, <1>3
          <6>2. pos = position + Len(done)
            BY <1>1
          <6> QED
            BY <3>2, <6>1, <6>2
        <5> QED
          BY <5>1
      <4> QED
        BY <2>5, <4>1
    <3> QED
      BY <3>1, <3>2
  <2> QED
    BY <1>1, <1>3, <1>5, <2>6, <2>7 DEF AppendInv
<1> QED
  BY <1>6, <1>7

LEMMA StepAppendInv ==
    ASSUME AppendOnly = TRUE, TypeInv, WriteInv, ReadInv, AppendInv, [Next]_vars
    PROVE  AppendInv'
<1>1. /\ file \in Seq(Blocks) /\ Len(file) # 0 /\ pos \in Nat /\ position \in Nat
      /\ LengthOf(file) \in Nat /\ Gapless(file)
      /\ position > LengthOf(file) => LengthOf(file) = MaxFile
  <2>1. file \in Seq(Blocks) /\ Len(file) # 0 /\ pos \in Nat /\ position \in Nat
    BY DEF TypeInv, TypeOK
  <2> QED
    BY <2>1, InTheFile DEF AppendInv
<1>2. ASSUME pc # "write_loop", NEW bytes, StartWrite(bytes) PROVE AppendInv'
  <2>1. /\ position = LengthOf(file) /\ pc' = "write_loop" /\ pos' = position /\ done' = <<>>
        /\ written' = [Nothing EXCEPT !.dense = BlockIndex(position) <= Len(file)]
        /\ UNCHANGED <<file, position>>
    BY <1>2, ContentsAre DEF StartWrite
  <2>2. BlockIndex(position) <= Len(file)
    <3>1. position <= LengthOf(file)
      BY <1>1, <2>1
    <3> QED
      BY <1>1, <3>1, InTheFile, Zenon
  <2>3. written'.dense
    BY <2>1, <2>2 DEF Nothing
  <2>4. Len(done') = 0
    BY <2>1
  <2> QED
    BY <1>1, <2>1, <2>3, <2>4 DEF AppendInv
<1>3. ASSUME pc = "write_loop", NEW next \in {"idle", "dead"}, EndWrite(next), UNCHANGED file
      PROVE  AppendInv'
  <2>1. pos = LengthOf(file) /\ pc' \notin {"write_loop", "read_loop"} /\ position' = pos /\ data' = <<>>
    BY <1>3 DEF EndWrite, AppendInv, Forget
  <2> QED
    BY <1>1, <1>3, <2>1 DEF AppendInv
<1>4. ASSUME pc = "read_loop", EndRead PROVE AppendInv'
  <2>1. /\ pos > LengthOf(file) => LengthOf(file) = MaxFile
        /\ pc' \notin {"write_loop", "read_loop"} /\ position' = pos /\ data' = <<>> /\ UNCHANGED file
    BY <1>4 DEF EndRead, AppendInv, Forget
  <2> QED
    BY <1>1, <2>1 DEF AppendInv
<1>5. ASSUME pc # "write_loop", pc' \notin {"write_loop", "read_loop"}, UNCHANGED <<file, position>>,
             data' = data \/ data' = <<>>
      PROVE  AppendInv'
  BY <1>5 DEF AppendInv
<1>6. CASE WriteTurn
  <2>1. CASE pc' = "write_loop"
    BY <1>6, <2>1, TurnAppends
  <2>2. CASE pc' # "write_loop"
    <3>1. pc = "write_loop" /\ EndWrite("dead") /\ UNCHANGED file
      BY <1>6, <2>2 DEF WriteTurn
    <3> QED
      BY <1>3, <3>1
  <2> QED
    BY <2>1, <2>2
<1>7. CASE WriteEnds
  BY <1>3, <1>7 DEF WriteEnds
<1>8. ASSUME NEW n \in Lengths, NEW bytes \in [1 .. n -> Bytes], Write(bytes) PROVE AppendInv'
  BY <1>2, <1>8 DEF Write
<1>9. CASE ReadHost
  BY <1>2, <1>5, <1>9 DEF ReadHost, Forget
<1>10. CASE StatHost \/ WriteHost \/ ChangeHost \/ Restart
  BY <1>5, <1>10 DEF StatHost, WriteHost, ChangeHost, Restart, locals
<1>11. ASSUME NEW p \in Positions, Lseek(p) PROVE AppendInv'
  <2>1. /\ p <= LengthOf(file) /\ pc' = "idle" /\ position' = p /\ UNCHANGED <<file, data, pc>>
    BY <1>11, ContentsAre DEF Lseek, locals
  <2>2. ~ position' > LengthOf(file)
    BY <1>1, <2>1, FileIOAssumption
  <2> QED
    BY <1>1, <2>1, <2>2 DEF AppendInv
<1>12. ASSUME NEW size, NEW forHost, Read(size, forHost) PROVE AppendInv'
  <2>1. /\ pc = "idle" /\ pc' = "read_loop" /\ pos' = position /\ done' = <<>>
        /\ UNCHANGED <<file, position, data>>
    BY <1>12 DEF Read
  <2>2. Len(done') = 0
    BY <2>1
  <2> QED
    BY <1>1, <2>1, <2>2 DEF AppendInv
<1>13. CASE ReadTurn
  <2>1. CASE pc' = "read_loop"
    BY <1>13, <2>1, ReadTurnFetches
  <2>2. CASE pc' # "read_loop"
    <3>1. pc = "read_loop" /\ (EndRead \/ (pc' \in {"stuck", "dead"} /\ Forget /\ UNCHANGED <<file, position>>))
      BY <1>13, <2>2 DEF ReadTurn
    <3> QED
      BY <1>4, <1>5, <3>1 DEF Forget
  <2> QED
    BY <2>1, <2>2
<1>14. CASE ReadEnds
  BY <1>4, <1>14 DEF ReadEnds
<1>15. CASE UNCHANGED vars
  BY <1>15 DEF vars, locals, AppendInv
<1> QED
  BY <1>6, <1>7, <1>8, <1>9, <1>10, <1>11, <1>12, <1>13, <1>14, <1>15 DEF Next

----------------------------------------------------------------------------
(* Each step of FileIO is one of AppendFile, or none.                      *)

\* The bytes the abstract file has.
Shown == IF pc = "write_loop" THEN SubSeq(Contents, 1, position) ELSE Contents

LEMMA WholeIs ==
    ASSUME NEW S, NEW s \in Seq(S)
    PROVE  SubSeq(s, 1, Len(s)) = s
OBVIOUS

\* Two files with the same bytes up to a position.
LEMMA SamePart ==
    ASSUME NEW S, NEW s \in Seq(S), NEW t \in Seq(S), NEW n \in Nat, n <= Len(s), n <= Len(t),
           \A k \in 1 .. n : s[k] = t[k]
    PROVE  SubSeq(s, 1, n) = SubSeq(t, 1, n)
OBVIOUS

\* A sequence that consists of two parts.
LEMMA TwoParts ==
    ASSUME NEW S, NEW s \in Seq(S), NEW t \in Seq(S), NEW m \in Nat, NEW n \in Nat,
           Len(s) = m + n, n <= Len(t), \A j \in 1 .. n : s[m + j] = t[j]
    PROVE  s = SubSeq(s, 1, m) \o SubSeq(t, 1, n)
<1>1. /\ SubSeq(s, 1, m) \in Seq(S) /\ Len(SubSeq(s, 1, m)) = m
      /\ \A k \in 1 .. m : SubSeq(s, 1, m)[k] = s[k]
  OBVIOUS
<1>2. /\ SubSeq(t, 1, n) \in Seq(S) /\ Len(SubSeq(t, 1, n)) = n
      /\ \A k \in 1 .. n : SubSeq(t, 1, n)[k] = t[k]
  OBVIOUS
<1> DEFINE u == SubSeq(s, 1, m) \o SubSeq(t, 1, n)
<1>3. /\ u \in Seq(S) /\ Len(u) = m + n
      /\ \A k \in 1 .. m : u[k] = s[k]
      /\ \A k \in 1 .. n : u[m + k] = t[k]
  BY <1>1, <1>2, Joined
<1> HIDE DEF u
<1>4. ASSUME NEW k \in 1 .. (m + n) PROVE u[k] = s[k]
  <2>1. CASE k <= m
    BY <1>3, <2>1
  <2>2. CASE ~ k <= m
    <3>1. k - m \in 1 .. n /\ m + (k - m) = k
      BY <2>2
    <3> QED
      BY <1>3, <3>1
  <2> QED
    BY <2>1, <2>2
<1> QED
  BY <1>3, <1>4 DEF u

\* A write that comes to its end has extended the file by what it has done.
LEMMA EndWriteExtends ==
    ASSUME TypeInv, WriteInv, AppendInv, pc = "write_loop", UNCHANGED file,
           NEW next \in {"idle", "dead"}, EndWrite(next),
           Len(done) = Len(data) \/ BlockIndex(pos) >= Len(file)
    PROVE  Promise!Extend
<1>1. /\ file \in Seq(Blocks) /\ Len(file) # 0 /\ pos \in Nat /\ position \in Nat
      /\ done \in Seq(AnyByte) /\ data \in Seq(AnyByte) /\ Len(done) <= Len(data)
      /\ Len(done) \in Nat /\ Len(data) \in Nat
  BY DEF TypeInv, TypeOK
<1>2. /\ Gapless(file) /\ pos = LengthOf(file) /\ pos = position + Len(done)
      /\ Holds(file, position, done) /\ \A k \in 1 .. Len(done) : done[k] = data[k]
  BY DEF AppendInv, WriteInv
<1>3. PICK c \in Seq(AnyByte) : c = Contents /\ c = ContentsOf(file)
  BY <1>1, <1>2, ContentsAre, ContentsType
<1>4. Len(c) = position + Len(done)
  BY <1>1, <1>2, <1>3, ContentsType
<1>5. Contents' = c
  <2>1. Contents' = ContentsOf(file')
    BY DEF Contents, Length, ContentsOf, LengthOf, ByteAt
  <2> QED
    BY <1>3, <2>1, Zenon
<1>6. ASSUME NEW j \in 1 .. Len(done) PROVE c[position + j] = data[j]
  <2>1. HoldsAt(file, position + j - 1, done[j])
    BY <1>2 DEF Holds
  <2>2. position + j \in 1 .. LengthOf(file)
    BY <1>1, <1>2
  <2>3. HoldsAt(file, (position + j) - 1, c[position + j])
    <3>1. \A k \in 1 .. LengthOf(file) : HoldsAt(file, k - 1, c[k])
      BY <1>1, <1>2, <1>3, ContentsType, Zenon
    <3> QED
      BY <2>2, <3>1, Zenon
  <2>4. (position + j) - 1 = position + j - 1
    BY <1>1
  <2> QED
    BY <1>2, <2>1, <2>3, <2>4 DEF HoldsAt
<1>7. c = SubSeq(c, 1, position) \o SubSeq(data, 1, Len(done))
  BY <1>1, <1>3, <1>4, <1>6, TwoParts
<1>8. Len(done) < Len(data) => pos % MaxData = 0
  <2> SUFFICES ASSUME Len(done) < Len(data) PROVE pos % MaxData = 0
    OBVIOUS
  <2>1. BlockIndex(pos) >= Len(file)
    BY <1>1
  <2>2. Offset(pos) = 0
    BY <1>1, <1>2, <2>1, InTheFile, Zenon
  <2> QED
    BY <2>2 DEF Offset
<1>9. /\ pc' # "write_loop" /\ position' = pos /\ data' = <<>> /\ answer' = answer
  BY DEF EndWrite, Forget
<1>10. Len(SubSeq(c, 1, position)) = position
  BY <1>1, <1>3, <1>4
<1>11. Len(done) \in 0 .. Len(data) /\ pos = Len(c)
  BY <1>1, <1>2, <1>4
<1>12. Shown = SubSeq(c, 1, position) /\ Shown' = c
  BY <1>3, <1>5, <1>9, Zenon DEF Shown
<1>13. /\ position = Len(Shown)
       /\ \E n \in 0 .. Len(data) :
             /\ Shown' = Shown \o SubSeq(data, 1, n)
             /\ position' = Len(Shown')
             /\ n < Len(data) => position' % MaxData = 0
  BY <1>7, <1>8, <1>9, <1>10, <1>11, <1>12
<1> QED
  BY <1>9, <1>13 DEF Promise!Extend, Shown

\* A read that comes to its end has delivered what the file has, or run over it.
LEMMA EndReadDeliversContents ==
    ASSUME TypeInv, ReadInv, AppendInv, pc = "read_loop", EndRead,
           \/ Len(done) = asked
           \/ BlockIndex(pos) > Len(file)
           \/ \E block \in Slot(BlockIndex(pos)) : block.size = Offset(pos)
    PROVE  (\E size \in 0 .. MaxFile : Promise!Read(size)) \/ Promise!Overrun
<1>1. /\ file \in Seq(Blocks) /\ Len(file) # 0 /\ pos \in Nat /\ position \in Nat
      /\ done \in Seq(AnyByte) /\ Len(done) \in Nat /\ asked \in 0 .. MaxFile /\ Len(done) <= asked
      /\ MaxFile \in Nat /\ Len(file) \in Nat
  BY MaxFileType DEF TypeInv, TypeOK
<1>2. /\ Gapless(file) /\ pos = position + Len(done) /\ data = <<>>
      /\ pos > LengthOf(file) => LengthOf(file) = MaxFile
      /\ \A k \in 1 .. Len(done) :
            position + k - 1 < LengthOf(file) => HoldsAt(file, position + k - 1, done[k])
  BY DEF ReadInv, AppendInv
<1>3. PICK c \in Seq(AnyByte) : c = Contents /\ c = ContentsOf(file)
  BY <1>1, <1>2, ContentsAre, ContentsType
<1>4. Len(c) = LengthOf(file) /\ \A k \in 1 .. LengthOf(file) : HoldsAt(file, k - 1, c[k])
  BY <1>1, <1>2, <1>3, ContentsType, Zenon
<1>5. PICK n \in Nat : n = LengthOf(file) /\ n = Len(c)
  BY <1>3, <1>4
<1>6. /\ pc' # "write_loop" /\ pc' # "read_loop" /\ position' = pos /\ data' = <<>>
      /\ answer'.bytes = done /\ UNCHANGED file
  BY DEF EndRead, Forget, Nothing
<1>7. Shown = c /\ Shown' = c
  <2>1. Contents' = ContentsOf(file')
    BY DEF Contents, Length, ContentsOf, LengthOf, ByteAt
  <2>2. Contents' = c
    BY <1>3, <1>6, <2>1, Zenon
  <2>3. Shown = Contents /\ Shown' = Contents'
    BY <1>6, Zenon DEF Shown
  <2> QED
    BY <1>3, <2>2, <2>3
<1>8. ASSUME NEW k \in 1 .. Len(done), position + k <= n PROVE done[k] = c[position + k]
  <2>1. position + k \in 1 .. LengthOf(file) /\ (position + k) - 1 = position + k - 1
        /\ position + k - 1 < LengthOf(file)
    BY <1>1, <1>5, <1>8
  <2>2. HoldsAt(file, (position + k) - 1, c[position + k])
    BY <1>4, <2>1, Zenon
  <2>3. HoldsAt(file, position + k - 1, done[k])
    BY <1>2, <2>1
  <2> QED
    BY <2>1, <2>2, <2>3 DEF HoldsAt
<1>9. CASE pos <= n
  <2>1. Len(done) = asked \/ pos = n
    <3>1. SUFFICES ASSUME pos < n, Len(done) # asked PROVE FALSE
      BY <1>1, <1>5, <1>9
    <3>2. ~ BlockIndex(pos) > Len(file)
      <4>1. pos <= LengthOf(file)
        BY <1>5, <1>9
      <4>2. BlockIndex(pos) <= Len(file) /\ BlockIndex(pos) \in Nat
        BY <1>1, <1>2, <4>1, InTheFile, BlockAndOffset, Zenon
      <4> QED
        BY <1>1, <4>2
    <3>3. PICK block \in Slot(BlockIndex(pos)) : block.size = Offset(pos)
      BY <3>1, <3>2
    <3>4. Offset(pos) < block.size
      BY <1>2, <1>5, <3>1, FindsTheData
    <3>5. Offset(pos) \in 0 .. (MaxData - 1)
      BY <1>1, BlockAndOffset, Zenon
    <3> QED
      BY <3>3, <3>4, <3>5
  <2>2. (IF position + asked > n THEN n ELSE position + asked) = pos
    BY <1>1, <1>2, <1>5, <1>9, <2>1
  <2>3. done = SubSeq(c, position + 1, pos)
    <3>1. PICK m \in Nat : m = Len(done) /\ position + m <= Len(c)
      BY <1>1, <1>2, <1>5, <1>9
    <3>2. /\ SubSeq(c, position + 1, position + m) \in Seq(AnyByte)
          /\ Len(SubSeq(c, position + 1, position + m)) = m
          /\ \A k \in 1 .. m : SubSeq(c, position + 1, position + m)[k] = c[position + k]
      BY <1>1, <1>3, <3>1, PartOf
    <3>3. \A k \in 1 .. m : done[k] = c[position + k]
      BY <1>1, <1>2, <1>5, <1>8, <1>9, <3>1
    <3> DEFINE part == SubSeq(c, position + 1, position + m)
    <3> HIDE DEF part
    <3>4. part \in Seq(AnyByte) /\ Len(part) = Len(done) /\ \A k \in 1 .. Len(done) : part[k] = done[k]
      BY <3>1, <3>2, <3>3 DEF part
    <3>5. part = done
      BY <1>1, <3>4
    <3> QED
      BY <1>2, <3>1, <3>5 DEF part
  <2>4. /\ answer'.bytes =
                SubSeq(Shown, position + 1,
                       IF position + asked > Len(Shown) THEN Len(Shown) ELSE position + asked)
        /\ position' = IF position + asked > Len(Shown) THEN Len(Shown) ELSE position + asked
        /\ Shown' = Shown /\ data' = data
    BY <1>2, <1>5, <1>6, <1>7, <2>2, <2>3
  <2>5. Promise!Read(asked)
    BY <2>4 DEF Promise!Read, Shown
  <2> QED
    BY <1>1, <2>5
<1>10. CASE ~ pos <= n
  <2>1. n = MaxFile /\ pos >= MaxFile /\ pos >= position
    BY <1>1, <1>2, <1>5, <1>10
  <2>2. SubSeq(done, 1, MaxFile - position) = SubSeq(c, position + 1, MaxFile)
    <3>1. CASE position >= MaxFile
      <4>1. SubSeq(done, 1, MaxFile - position) = <<>>
        BY <1>1, <3>1
      <4>2. SubSeq(c, position + 1, MaxFile) = <<>>
        BY <1>1, <1>3, <3>1
      <4> QED
        BY <4>1, <4>2
    <3>2. CASE position < MaxFile
      <4>1. PICK m \in Nat : m = MaxFile - position
        BY <1>1, <3>2
      <4>2. m <= Len(done) /\ position + m = MaxFile /\ position + m <= Len(c)
        BY <1>1, <1>2, <1>5, <1>10, <2>1, <4>1
      <4>3. /\ SubSeq(c, position + 1, position + m) \in Seq(AnyByte)
            /\ Len(SubSeq(c, position + 1, position + m)) = m
            /\ \A k \in 1 .. m : SubSeq(c, position + 1, position + m)[k] = c[position + k]
        <5>1. position \in Nat /\ position + m <= Len(c)
          BY <1>1, <4>2
        <5> QED
          BY <5>1, PartOf
      <4>4. /\ SubSeq(done, 1, m) \in Seq(AnyByte) /\ Len(SubSeq(done, 1, m)) = m
            /\ \A k \in 1 .. m : SubSeq(done, 1, m)[k] = done[k]
        BY <1>1, <4>2
      <4>5. \A k \in 1 .. m : done[k] = c[position + k]
        BY <1>1, <1>5, <1>8, <2>1, <4>1, <4>2
      <4> DEFINE part == SubSeq(c, position + 1, position + m)
                 head == SubSeq(done, 1, m)
      <4> HIDE DEF part, head
      <4>6. /\ part \in Seq(AnyByte) /\ Len(part) = m /\ head \in Seq(AnyByte) /\ Len(head) = m
            /\ \A k \in 1 .. m : head[k] = part[k]
        BY <4>3, <4>4, <4>5 DEF part, head
      <4>7. head = part
        BY <4>6
      <4> QED
        BY <4>1, <4>2, <4>7 DEF part, head
    <3> QED
      BY <1>1, <3>1, <3>2
  <2>3. /\ Len(Shown) = MaxFile
        /\ position' >= MaxFile /\ position' >= position
        /\ SubSeq(answer'.bytes, 1, MaxFile - position) = SubSeq(Shown, position + 1, MaxFile)
        /\ Shown' = Shown /\ data' = data
    BY <1>2, <1>5, <1>6, <1>7, <2>1, <2>2
  <2>4. Promise!Overrun
    BY <2>3 DEF Promise!Overrun, Shown
  <2> QED
    BY <2>4
<1> QED
  BY <1>1, <1>5, <1>9, <1>10

\* The bytes shown, in the two halves of a write.
LEMMA ShownIs ==
    ASSUME TypeInv, AppendInv
    PROVE  /\ Contents \in Seq(AnyByte) /\ Contents = ContentsOf(file)
           /\ Len(Contents) = LengthOf(file)
           /\ \A k \in 1 .. LengthOf(file) : HoldsAt(file, k - 1, Contents[k])
<1>1. file \in Seq(Blocks) /\ Len(file) # 0 /\ Gapless(file)
  BY DEF TypeInv, TypeOK, AppendInv
<1> QED
  BY <1>1, ContentsAre, ContentsType, Zenon

LEMMA ContentsNext == Contents' = ContentsOf(file') /\ Length' = LengthOf(file')
BY DEF Contents, Length, ContentsOf, LengthOf, ByteAt

\* A turn of write_to_file is not seen before the write comes to its end.
LEMMA TurnHidden ==
    ASSUME TypeInv, WriteInv, AppendInv, WriteTurn, pc' = "write_loop"
    PROVE  Shown' = Shown
<1>1. /\ pc = "write_loop" /\ position' = position /\ TypeInv' /\ AppendInv'
      /\ \A q \in Nat : \A b : q < pos /\ HoldsAt(file, q, b) => HoldsAt(file', q, b)
  BY WriteTurnType, TurnAppends DEF WriteTurn, EndWrite
<1>2. /\ pos = LengthOf(file) /\ pos = position + Len(done) /\ pos' = LengthOf(file')
      /\ pos' = position + Len(done')
  <2>1. WriteInv'
    BY TurnHolds
  <2> QED
    BY <1>1, <2>1 DEF AppendInv, WriteInv
<1>3. position \in Nat /\ Len(done) \in Nat /\ Len(done') \in Nat
  BY <1>1 DEF TypeInv, TypeOK
<1>4. PICK c \in Seq(AnyByte) :
        /\ c = Contents /\ Len(c) = LengthOf(file)
        /\ \A k \in 1 .. LengthOf(file) : HoldsAt(file, k - 1, c[k])
  BY ShownIs
<1>5. PICK d \in Seq(AnyByte) :
        /\ d = Contents' /\ Len(d) = LengthOf(file')
        /\ \A k \in 1 .. LengthOf(file') : HoldsAt(file', k - 1, d[k])
  <2>1. file' \in Seq(Blocks) /\ Len(file') # 0 /\ Gapless(file')
    BY <1>1 DEF TypeInv, TypeOK, AppendInv
  <2> QED
    BY <2>1, ContentsNext, ContentsType, Zenon
<1>6. ASSUME NEW k \in 1 .. position PROVE d[k] = c[k]
  <2>1. k - 1 \in Nat /\ k - 1 < pos /\ k \in 1 .. LengthOf(file) /\ k \in 1 .. LengthOf(file')
    BY <1>2, <1>3
  <2>2. HoldsAt(file', k - 1, c[k])
    BY <1>1, <1>4, <2>1, Zenon
  <2>3. HoldsAt(file', k - 1, d[k])
    BY <1>5, <2>1, Zenon
  <2> QED
    BY <2>2, <2>3 DEF HoldsAt
<1>7. position <= Len(c) /\ position <= Len(d)
  <2>1. Len(c) = position + Len(done) /\ Len(d) = position + Len(done')
    BY <1>2, <1>4, <1>5, Zenon
  <2> QED
    BY <1>3, <2>1
<1>8. SubSeq(d, 1, position) = SubSeq(c, 1, position)
  BY <1>3, <1>6, <1>7, SamePart
<1> QED
  BY <1>1, <1>4, <1>5, <1>8, Zenon DEF Shown

\* The head of write_to_file: the abstract write is given its data.
LEMMA StartGives ==
    ASSUME AppendOnly = TRUE, TypeInv, AppendInv, pc # "write_loop", NEW bytes, StartWrite(bytes)
    PROVE  Promise!Give
<1>1. /\ pc' = "write_loop" /\ position = Length /\ position' = position /\ answer' = Nothing
      /\ UNCHANGED file
  BY DEF StartWrite
<1>2. PICK c \in Seq(AnyByte) : c = Contents /\ Len(c) = position
  BY <1>1, ShownIs, ContentsAre
<1>3. Contents' = c
  BY <1>1, <1>2, ShownIs, ContentsNext, Zenon
<1>4. SubSeq(c, 1, position) = c
  BY <1>2, WholeIs
<1>5. Shown' = Shown
  BY <1>1, <1>2, <1>3, <1>4, Zenon DEF Shown
<1>6. answer'.bytes = <<>>
  BY <1>1 DEF Nothing
<1> QED
  BY <1>1, <1>5, <1>6 DEF Promise!Give, Shown

LEMMA StepAppends ==
    ASSUME AppendOnly = TRUE, TypeInv, WriteInv, ReadInv, AppendInv, [Next]_vars
    PROVE  [Promise!Next]_Promise!vars
<1>1. ASSUME UNCHANGED <<position, data, answer>>, Shown' = Shown
      PROVE  UNCHANGED Promise!vars
  BY <1>1 DEF Promise!vars, Shown
<1>2. ASSUME pc # "write_loop", pc' # "write_loop", UNCHANGED file PROVE Shown' = Shown
  <2>1. Contents' = Contents
    BY <1>2, ShownIs, ContentsNext, Zenon
  <2> QED
    BY <1>2, <2>1, Zenon DEF Shown
<1>3. ASSUME pc # "write_loop", pc' # "write_loop", UNCHANGED <<file, position, answer>>,
             data' = data \/ data' = <<>>
      PROVE  UNCHANGED Promise!vars
  <2>1. data' = data
    BY <1>3 DEF AppendInv
  <2> QED
    BY <1>1, <1>2, <1>3, <2>1
<1>4. CASE WriteTurn
  <2>1. CASE pc' = "write_loop"
    <3>1. UNCHANGED <<position, data, answer>>
      BY <1>4, <2>1 DEF WriteTurn, EndWrite
    <3> QED
      BY <1>1, <1>4, <2>1, <3>1, TurnHidden
  <2>2. CASE pc' # "write_loop"
    <3>1. pc = "write_loop" /\ EndWrite("dead") /\ UNCHANGED file /\ BlockIndex(pos) >= Len(file)
      BY <1>4, <2>2 DEF WriteTurn
    <3>2. Promise!Extend
      BY <3>1, EndWriteExtends
    <3> QED
      BY <3>2 DEF Promise!Next
  <2> QED
    BY <2>1, <2>2
<1>5. CASE WriteEnds
  <2>1. pc = "write_loop" /\ EndWrite("idle") /\ UNCHANGED file /\ Len(done) = Len(data)
    BY <1>5 DEF WriteEnds
  <2>2. Promise!Extend
    BY <2>1, EndWriteExtends
  <2> QED
    BY <2>2 DEF Promise!Next
<1>6. ASSUME NEW n \in Lengths, NEW bytes \in [1 .. n -> Bytes], Write(bytes)
      PROVE  Promise!Next
  BY <1>6, StartGives DEF Write, Promise!Next
<1>7. CASE ReadHost
  <2>1. pc = "host_read"
    BY <1>7 DEF ReadHost
  <2>2. CASE StartWrite(SubSeq(host, 1, asked))
    BY <2>1, <2>2, StartGives DEF Promise!Next
  <2>3. CASE pc' = "stuck" /\ Forget /\ UNCHANGED <<file, position, answer>>
    BY <1>3, <2>1, <2>3 DEF Forget
  <2> QED
    BY <1>7, <2>2, <2>3 DEF ReadHost
<1>8. CASE StatHost \/ WriteHost \/ ChangeHost \/ Restart
  BY <1>3, <1>8 DEF StatHost, WriteHost, ChangeHost, Restart, locals
<1>9. ASSUME NEW p \in Positions, Lseek(p) PROVE Promise!Next
  <2>1. /\ p <= Length /\ p < MaxFile /\ pc = "idle" /\ pc' = "idle" /\ position' = p
        /\ UNCHANGED <<file, data, answer>>
    BY <1>9 DEF Lseek, locals
  <2>2. Shown' = Shown
    BY <1>2, <2>1
  <2>3. Len(Shown) = Length
    BY <2>1, ShownIs, ContentsAre DEF Shown
  <2>4. Length \in Nat
    BY <2>1, <2>3, ShownIs, ContentsAre
  <2>5. position' \in 0 .. Len(Shown)
    BY <2>1, <2>3, <2>4, FileIOAssumption
  <2>6. Promise!Seek
    BY <2>1, <2>2, <2>5 DEF Promise!Seek, Shown
  <2> QED
    BY <2>6 DEF Promise!Next
<1>10. ASSUME NEW size, NEW forHost, Read(size, forHost) PROVE UNCHANGED Promise!vars
  BY <1>3, <1>10 DEF Read
<1>11. ASSUME pc = "read_loop", EndRead,
              \/ Len(done) = asked
              \/ BlockIndex(pos) > Len(file)
              \/ \E block \in Slot(BlockIndex(pos)) : block.size = Offset(pos)
       PROVE  Promise!Next
  BY <1>11, EndReadDeliversContents DEF Promise!Next
<1>12. CASE ReadTurn
  <2>1. \/ EndRead /\ \E block \in Slot(BlockIndex(pos)) : block.size = Offset(pos)
        \/ /\ pc' # "write_loop" /\ UNCHANGED <<file, position, answer>>
           /\ data' = data \/ data' = <<>>
    BY <1>12 DEF ReadTurn, Forget
  <2>2. pc = "read_loop"
    BY <1>12 DEF ReadTurn
  <2> QED
    BY <1>3, <1>11, <2>1, <2>2
<1>13. CASE ReadEnds
  BY <1>11, <1>13 DEF ReadEnds
<1>14. CASE UNCHANGED vars
  <2>1. UNCHANGED <<pc, file, position, data, answer>>
    BY <1>14 DEF vars, locals
  <2>2. Contents' = Contents
    BY <2>1, ShownIs, ContentsNext, Zenon
  <2>3. Shown' = Shown
    BY <2>1, <2>2, Zenon DEF Shown
  <2> QED
    BY <1>1, <2>1, <2>3
<1> QED
  BY <1>4, <1>5, <1>6, <1>7, <1>8, <1>9, <1>10, <1>12, <1>13, <1>14 DEF Next

LEMMA InitAppends == Init => AppendInv /\ Promise!Init
<1> SUFFICES ASSUME Init PROVE AppendInv /\ Promise!Init
  OBVIOUS
<1>1. /\ file = <<ZeroBlock>> /\ pc = "idle" /\ position = 0 /\ data = <<>> /\ answer.bytes = <<>>
  BY DEF Init, Nothing
<1>2. Len(file) = 1 /\ file[1].size = 0
  BY <1>1 DEF ZeroBlock
<1>3. LengthOf(file) = 0 /\ Gapless(file)
  <2>1. LengthOf(file) = 0
    <3>1. Len(file) - 1 = 0
      BY <1>2
    <3>2. LengthOf(file) = MaxData * 0 + 0
      BY <1>2, <3>1, Zenon DEF LengthOf
    <3> QED
      BY <3>2
  <2> QED
    BY <1>2, <2>1 DEF Gapless
<1>4. AppendInv
  BY <1>1, <1>3 DEF AppendInv
<1>5. Contents \in Seq(AnyByte) /\ Len(Contents) = 0
  BY <1>3, <1>4, InitType, ShownIs
<1>6. Shown = <<>>
  <2>1. Contents = <<>>
    BY <1>5
  <2> QED
    BY <1>1, <2>1 DEF Shown
<1> QED
  BY <1>1, <1>4, <1>6 DEF Promise!Init, Shown

(* write_to_file and read_file, for a user who writes at the end and seeks *)
(* within the file: whatever its size and that of its blocks, the file is  *)
(* one growing sequence of bytes, a write that cannot be finished ends     *)
(* between two blocks, and a read delivers the bytes from its position on, *)
(* fewer than asked only at the end.                                       *)
THEOREM AppendImplemented == ASSUME AppendOnly = TRUE PROVE Spec => ImplementsAppendFile
<1> DEFINE Inv == TypeInv /\ WriteInv /\ ReadInv /\ AppendInv
<1>1. Init => Inv /\ Promise!Init
  BY InitType, InitReadInv, InitAppends
<1>2. Inv /\ [Next]_vars => Inv'
  BY StepType, StepWriteInv, StepReadInv, StepAppendInv
<1>3. Inv /\ [Next]_vars => [Promise!Next]_Promise!vars
  BY StepAppends
<1> HIDE DEF Inv
<1> QED
  BY <1>1, <1>2, <1>3, PTL DEF Spec, ImplementsAppendFile, Promise!Spec

=============================================================================
