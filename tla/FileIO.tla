------------------------------- MODULE FileIO -------------------------------
(***************************************************************************)
(* interface/write_to_file.h and interface/read_file.h with the bytes they *)
(* move: one file, one descriptor that is open on it, and one file of the  *)
(* host from which write_from takes its data and to which read_to puts it. *)
(* ExtFS says what the same commands do to the image when they are         *)
(* interrupted; here a command runs on, one action per turn of its loop.   *)
(***************************************************************************)
EXTENDS Integers, Sequences

CONSTANTS MaxData,              \* get_max_data_in_block
          BlocksCountInInode,   \* fs_info.blocks_count_in_inode
          FreeCounts,           \* how many blocks may be left in the image
          Bytes,                \* the bytes users write
          Lengths,              \* the lengths of the data given to write
          Sizes,                \* the sizes given to read
          Positions,            \* the positions given to lseek
          HostFiles,            \* what the host's file may hold
          Transfers,            \* which of write_from and read_to are given
          AppendOnly            \* does the user write at the file's end only

\* A byte of a buffer that nobody has written, and one from behind the buffer.
Zero == "zero"
Junk == "junk"
AnyByte == Bytes \cup {Zero, Junk}

ASSUME FileIOAssumption ==
    /\ MaxData \in Nat \ {0} /\ BlocksCountInInode \in Nat \ {0}
    /\ FreeCounts \subseteq Nat
    /\ {Zero, Junk} \cap Bytes = {}
    /\ Lengths \subseteq Nat /\ Sizes \subseteq Nat /\ Positions \subseteq Nat
    /\ HostFiles \subseteq Seq(Bytes)
    /\ Transfers \subseteq {"write_from", "read_to"}
    /\ AppendOnly \in BOOLEAN

MaxFile == MaxData * BlocksCountInInode

VARIABLES
    file,      \* the blocks of the file, in the order of block_ids
    free,      \* how many blocks of the image are free
    position,  \* fd_to_position of the descriptor
    host,      \* the host's file
    pc,        \* what the process is about to do
    data,      \* write: what it was given, clipped
    pos,       \* fd_position
    done,      \* write: total_written; read: what was copied to dest
    asked,     \* read: size, clipped
    toHost,    \* read: is it read_to
    written,   \* the last write that has come to its end
    answer     \* the last read that has come to its end

locals == <<data, pos, done, asked, toHost>>
vars == <<file, free, position, host, pc, locals, written, answer>>

----------------------------------------------------------------------------
\* A block: data_size, and all the bytes that write_block puts on the image.
Blocks == [size : 0 .. MaxData, bytes : [1 .. MaxData -> AnyByte]]

ZeroBlock == [size |-> 0, bytes |-> [k \in 1 .. MaxData |-> Zero]]

\* read_block: data_size bytes of the image, the rest of the buffer is zero.
Loaded(block) == [block EXCEPT !.bytes = [k \in 1 .. MaxData |->
                                            IF k <= block.size THEN @[k] ELSE Zero]]

Smaller(m, n) == IF m < n THEN m ELSE n
Clipped(size) == Smaller(size, MaxFile)

BlockIndex(p) == p \div MaxData
Offset(p) == p % MaxData

\* The block after a turn of write_to_file; data_size is where the chunk ends.
Put_SizeOfChunk(block, offset, chunk) ==
    [size |-> Len(chunk),
     bytes |-> [k \in 1 .. MaxData |-> IF k \in offset + 1 .. offset + Len(chunk)
                                       THEN chunk[k - offset] ELSE block.bytes[k]]]
Put_AddsToSize(block, offset, chunk) ==
    [size |-> block.size + Len(chunk),
     bytes |-> [k \in 1 .. MaxData |-> IF k \in offset + 1 .. offset + Len(chunk)
                                       THEN chunk[k - offset] ELSE block.bytes[k]]]
Put(block, offset, chunk) ==
    [size |-> offset + Len(chunk),
     bytes |-> [k \in 1 .. MaxData |-> IF k \in offset + 1 .. offset + Len(chunk)
                                       THEN chunk[k - offset] ELSE block.bytes[k]]]

(* What read_file finds in slot index of block_ids: a block of the file;   *)
(* behind them a zero, which is the root's block, one without data; behind *)
(* a full array the number of any block.                                   *)
Slot(index) ==
    IF index < Len(file) THEN {Loaded(file[index + 1])}
    ELSE IF index < BlocksCountInInode THEN {ZeroBlock}
    ELSE [size : 0 .. MaxData, bytes : {[k \in 1 .. MaxData |-> Junk]}]

\* How much a turn of read_file copies: data_size - offset wraps below zero.
Take_WholeBlock(block, offset, need) == Smaller(need, MaxData - offset)
Take(block, offset, need) ==
    IF block.size > offset THEN Smaller(need, block.size - offset) ELSE need

\* The bytes copied, some of them perhaps from behind the buffer.
Copied(block, offset, size) ==
    [k \in 1 .. size |-> IF offset + k <= MaxData THEN block.bytes[offset + k] ELSE Junk]

\* What read_to leaves in the host's file, which it opens without O_TRUNC.
Overlay(bytes, old) == bytes \o SubSeq(old, Len(bytes) + 1, Len(old))

\* Where the data of the last block ends.
Length == MaxData * (Len(file) - 1) + file[Len(file)].size

Nothing == [pos |-> 0, size |-> 0, bytes |-> <<>>, dense |-> TRUE]

\* The locals of a command are gone when it ends.
Forget == data' = <<>> /\ pos' = 0 /\ done' = <<>> /\ asked' = 0 /\ toHost' = FALSE

----------------------------------------------------------------------------
\* touch has given the file one empty block, and open its descriptor.
Init ==
    /\ file = <<ZeroBlock>> /\ free \in FreeCounts
    /\ position = 0 /\ host \in HostFiles
    /\ pc = "idle" /\ data = <<>> /\ pos = 0 /\ done = <<>> /\ asked = 0 /\ toHost = FALSE
    /\ written = Nothing /\ answer = Nothing

\* lseek_pos.
Lseek(p) ==
    /\ pc = "idle" /\ p < MaxFile
    /\ AppendOnly => p <= Length
    /\ position' = p
    /\ UNCHANGED <<file, free, host, pc, locals, written, answer>>

\* The head of write_to_file.
StartWrite(bytes) ==
    /\ AppendOnly => position = Length
    /\ pc' = "write_loop" /\ data' = SubSeq(bytes, 1, Clipped(Len(bytes)))
    /\ pos' = position /\ done' = <<>> /\ asked' = 0
    /\ written' = [Nothing EXCEPT !.dense = BlockIndex(position) <= Len(file)]
    /\ answer' = Nothing
    /\ UNCHANGED <<file, free, position, host, toHost>>

Write(bytes) == pc = "idle" /\ StartWrite(bytes)

\* write_to_file_from_file: get_file_size, and later read_while of that size.
StatHost ==
    /\ pc = "idle" /\ "write_from" \in Transfers
    /\ pc' = "host_read" /\ asked' = Len(host)
    /\ UNCHANGED <<file, free, position, host, data, pos, done, toHost, written, answer>>

\* A file that has become shorter ends before read_while has what it waits for.
ReadHost ==
    /\ pc = "host_read"
    /\ \/ asked <= Len(host) /\ StartWrite(SubSeq(host, 1, asked))
       \/ /\ asked > Len(host) /\ pc' = "stuck" /\ Forget
          /\ UNCHANGED <<file, free, position, host, written, answer>>

\* Both loops end in the position being written to the table.
EndWrite(next) ==
    /\ pc' = next /\ position' = pos /\ Forget
    /\ written' = [written EXCEPT !.pos = position, !.size = Len(data), !.bytes = done]
    /\ UNCHANGED <<host, answer>>

(* One turn of the loop of write_to_file.  A block index behind the file   *)
(* appends one block, whatever the index.  Without one to append the write *)
(* ends there: position and masks are written, and the process dies.       *)
WriteTurn ==
    LET offset == Offset(pos)
        size == Smaller(Len(data) - Len(done), MaxData - offset)
        chunk == SubSeq(data, Len(done) + 1, Len(done) + size)
        turn == /\ pos' = pos + size /\ done' = done \o chunk
                /\ UNCHANGED <<position, host, pc, data, asked, toHost, written, answer>>
        index == BlockIndex(pos)
    IN  /\ pc = "write_loop" /\ Len(done) # Len(data)
        /\ \/ /\ index < Len(file)
              /\ file' = [file EXCEPT ![index + 1] = Put(Loaded(@), offset, chunk)]
              /\ turn
              /\ UNCHANGED free
           \/ /\ index >= Len(file) /\ free = 0
              /\ EndWrite("dead")
              /\ UNCHANGED <<file, free>>
           \/ /\ index >= Len(file) /\ free # 0 /\ Len(file) = BlocksCountInInode
              /\ free' = free - 1
              /\ EndWrite("dead")
              /\ UNCHANGED file
           \/ /\ index >= Len(file) /\ free # 0 /\ Len(file) # BlocksCountInInode
              /\ free' = free - 1
              /\ file' = Append(file, Put(ZeroBlock, offset, chunk))
              /\ turn

WriteEnds ==
    /\ pc = "write_loop" /\ Len(done) = Len(data)
    /\ EndWrite("idle")
    /\ UNCHANGED <<file, free>>

(* read_file, for read and for read_file_to_file.                          *)
Read(size, forHost) ==
    /\ pc = "idle"
    /\ pc' = "read_loop" /\ asked' = Clipped(size) /\ toHost' = forHost
    /\ pos' = position /\ done' = <<>>
    /\ UNCHANGED <<file, free, position, host, data, written, answer>>

EndRead ==
    /\ pc' = IF toHost THEN "host_write" ELSE "idle"
    /\ position' = pos /\ Forget
    /\ answer' = [Nothing EXCEPT !.pos = position, !.size = asked, !.bytes = done]
    /\ UNCHANGED <<file, free, host, written>>

\* One turn of the loop of read_file.
ReadTurn ==
    LET offset == Offset(pos)
        need == asked - Len(done)
    IN  /\ pc = "read_loop" /\ Len(done) # asked /\ BlockIndex(pos) <= Len(file)
        /\ \/ \E block \in Slot(BlockIndex(pos)) :
                LET size == Take(block, offset, need)
                IN  IF block.size = offset
                    THEN EndRead
                    ELSE /\ pos' = pos + size
                         /\ done' = done \o Copied(block, offset, size)
                         /\ pc' = pc
                         /\ UNCHANGED <<file, free, position, host, data, asked, toHost,
                                        written, answer>>
           \/ /\ \/ /\ BlockIndex(pos) = BlocksCountInInode
                    /\ pc' \in {"stuck", "dead"}
                 \/ /\ \E block \in Slot(BlockIndex(pos)) : block.size < offset
                    /\ offset + need > MaxData
                    /\ pc' = "dead"
              /\ Forget /\ UNCHANGED <<file, free, position, host, written, answer>>

ReadEnds ==
    /\ pc = "read_loop" /\ (Len(done) = asked \/ BlockIndex(pos) > Len(file))
    /\ EndRead

\* The end of read_file_to_file.
WriteHost ==
    /\ pc = "host_write"
    /\ host' = Overlay(answer.bytes, host)
    /\ pc' = "idle"
    /\ UNCHANGED <<file, free, position, locals, written, answer>>

\* Other programs of the host replace its file.
ChangeHost ==
    /\ pc \in {"idle", "host_read"}
    /\ host' \in HostFiles
    /\ UNCHANGED <<file, free, position, pc, locals, written, answer>>

Restart ==
    /\ pc \in {"dead", "stuck"}
    /\ pc' = "idle"
    /\ UNCHANGED <<file, free, position, host, locals, written, answer>>

Next ==
    \/ \E p \in Positions : Lseek(p)
    \/ \E n \in Lengths : \E bytes \in [1 .. n -> Bytes] : Write(bytes)
    \/ StatHost \/ ReadHost \/ WriteTurn \/ WriteEnds
    \/ \E size \in Sizes : Read(size, FALSE)
    \/ \E size \in Sizes \cup {MaxFile} : "read_to" \in Transfers /\ Read(size, TRUE)
    \/ ReadTurn \/ ReadEnds \/ WriteHost
    \/ ChangeHost \/ Restart

Spec == Init /\ [][Next]_vars

----------------------------------------------------------------------------
(* Properties.                                                             *)

\* The type invariant: a block never holds more than fits, a file never more
\* blocks than an inode, and done never more than was given or asked for.
TypeOK ==
    /\ file \in Seq(Blocks) /\ Len(file) \in 1 .. BlocksCountInInode
    /\ free \in Nat /\ position \in Nat /\ pos \in Nat /\ asked \in Nat
    /\ host \in Seq(AnyByte) /\ data \in Seq(AnyByte) /\ done \in Seq(AnyByte)
    /\ toHost \in BOOLEAN
    /\ pc \in {"idle", "host_read", "host_write", "write_loop", "read_loop", "dead", "stuck"}
    /\ pc = "write_loop" => Len(done) <= Len(data) /\ Len(data) <= MaxFile
    /\ pc = "read_loop" => Len(done) <= asked /\ asked <= MaxFile

(* write_to_file and read_file agree: whatever was in the file before, a   *)
(* read from where the last write began returns the bytes that were        *)
(* written, unless that write began more than one block behind the file.   *)
ReadBack ==
    written.dense /\ answer.pos = written.pos =>
        LET n == Smaller(answer.size, Len(written.bytes))
        IN  Len(answer.bytes) >= n /\ SubSeq(answer.bytes, 1, n) = SubSeq(written.bytes, 1, n)

(* read_file: a read that begins in the data of a block, or at its end,    *)
(* and does not run over the largest file, returns the bytes that the      *)
(* blocks have at these positions, counts no others, and stops short only  *)
(* where the data of a block ends.                                         *)
DataSize(index) == IF index < Len(file) THEN file[index + 1].size ELSE 0
InData(p) == Offset(p) < DataSize(BlockIndex(p))
ReadsTheData ==
    LET p == answer.pos
        next == p + Len(answer.bytes)
    IN  Offset(p) <= DataSize(BlockIndex(p)) /\ next <= MaxFile =>
            /\ \A q \in p .. next - 1 :
                    /\ InData(q)
                    /\ answer.bytes[q - p + 1] = file[BlockIndex(q) + 1].bytes[Offset(q) + 1]
            /\ Len(answer.bytes) < answer.size => ~InData(next)

(* A user who writes only at the end has a file as AppendFile describes    *)
(* it; a write takes effect when the table is written.                     *)
Contents == [k \in 1 .. Length |-> file[BlockIndex(k - 1) + 1].bytes[Offset(k - 1) + 1]]

Promise == INSTANCE AppendFile WITH
    contents <- IF pc = "write_loop" THEN SubSeq(Contents, 1, position) ELSE Contents,
    given <- data,
    answer <- answer.bytes

ImplementsAppendFile == Promise!Spec

(* README.md:33: without a size "file will be readed till end".            *)
ReadTillEnd == answer.size = MaxFile => answer.pos + Len(answer.bytes) >= Length
=============================================================================
