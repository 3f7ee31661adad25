# A verification of the mini file system `ext`

The repository is a file system in one image file, with a shell: `mkdir`, `touch`,
`ls`, `open`, `close`, `lseek`, `read`, `write`, and `init` to format the image.
Nothing is cached. Every command opens the image, reads the superblock, the
descriptor table, the inodes and the blocks it needs, changes copies of them in
memory and writes them back, one `write_while()` after another, and closes the image.
There are no threads. What is hard about this program is that a command may end
between any two of its writes - the process is killed, a write fails, it runs into
the end of the image, or it goes on with memory it has released - and that the next
command, in this process or in another one, has nothing but the image to go by.

This directory holds TLA+ modules that model the program at that grain, the TLC
configurations that check them, and proofs checked by TLAPS.

## The system

| part | code (`src/FileSystem/`) | state | operations | correct when |
| --- | --- | --- | --- | --- |
| superblock | `core/superblock.*` | two reservation masks | reserve/free inode and block, read, write | an id that something refers to is marked; marks are not lost |
| descriptors table | `core/descriptors_table.*` | `reserved_fd`, `fd_to_inode`, `fd_to_position` | init, reserve, free, read, write | no file in two entries, three arrays that agree |
| inodes | `core/inode.*` | kind, number of blocks, block ids | init, read, write | a block list only grows, and is nobody else's |
| blocks | `core/block.*` | owner, `data_size`, data or records | init, read, write | never data and records; records are complete |
| namespace | `core/methods.*`, `interface/create_dir.h`, `create_file.h`, `ls.h` | the records in the first block of each directory | path walk, mkdir, touch, ls | a tree; unique names; `.` and `..` agree with it |
| descriptors | `interface/open_file.h`, `close_file.h`, `lseek_pos.h` | the table | open, close, lseek | only what is linked can be open |
| file contents | `interface/read_file.h`, `write_to_file.h` | blocks, inode, position | read, write, and to or from a host file | what is read is what was written; no loop is endless |
| formatting | `interface/init.h` | the whole image | init_fs, read_fs | an empty root directory |
| I/O loops, parsing | `utils.c` | - | read_while, write_while, parse_path, split_path, parse_command | they end; they stay within their buffers |
| shell | `interface/client.h`, `main.c` | - | the command loop | one command at a time |

The parts call each other downwards only (shell, handlers, `core`, `utils`) and
share nothing but the image. `PROJECT.json` lists the hazards of this code, each at
its line and with the properties that look at it.

## The modules

| module | models |
| --- | --- |
| `Superblock` | the id spaces and the scans `reserve_inode`, `reserve_block` |
| `DescriptorsTable` | the table and `reserve_descriptor`, `free_descriptor` |
| `Blocks` | inodes, blocks and records, and how the helpers build them |
| `ExtFS` | the image, the process, every command; the properties |
| `NameTree` | abstract: a tree of names to which one node is added at a time |
| `ExtFSTree` | the refinement mapping from `ExtFS` to `NameTree` |
| `ExtFSInvariant` | what holds between the image and the locals of a command at every point of it: `TreeInv`, `SpaceInv` |
| `OpenFiles` | abstract: a table from descriptors to open files with positions |
| `ExtFSTable` | the refinement mapping from `ExtFS` to `OpenFiles` |
| `FileIO` | `write_to_file` and `read_file` with the bytes they move, `write_from` and `read_to` with the host's file |
| `AppendFile` | abstract: a sequence of bytes that grows at its end, and a position in it |
| `Mount` | `read_while` and `write_while` byte by byte, in `init` and `read_fs` |
| `PathParsing` | `split_path`, `parse_path` and the walk, on strings |
| `Client` | the loop of the shell, `read_command_from_stdin`, `parse_command` |
| `MCExtFS`, `MCFileIO`, `MCMount`, `MCPathParsing`, `MCClient` | values of the constants for TLC |
| `ExtFS_proofs`, `ExtFSInvariant_proofs`, `ExtFSTree_proofs`, `ExtFSOrderly_proofs`, `FileIO_proofs`, `Mount_proofs`, `PathParsing_proofs`, `Client_proofs` | theorems and proofs |

`ExtFS` composes `Superblock`, `DescriptorsTable` and `Blocks`. The other models look at one
side of the same commands at a grain of their own: `FileIO` at the bytes, where `ExtFS`
has only `data_size`; `Mount` at the single transfers, where `ExtFS` has whole writes;
`PathParsing` and `Client` at what happens before a command of `ExtFS` begins, that is, at
how a path becomes a sequence of names and a line a call.

The `D_Slip` definitions (`HasName_SkipsLast`, ...) are variants of `D` with a mistake in
them. Nothing uses them; putting one in the place of `D` makes the property it is
listed with in `PROJECT.json` fail, which shows that the property can fail.

### State of `ExtFS`

`image`, `inodeMask`, `blockMask`, `reservedFd`, `fdToInode`, `fdToPosition`, `inodes` and
`blocks` are what is on the image; a mask is the set of the ids that are marked.
`pc` and `mem` are the process: where it is and the locals of the command it executes.
All of `mem` is gone when a command ends, however it ends.

### Actions and the grain of a step

A command is cut at each `write_while()` that changes the image. Reading, and
computing in memory, happens in the action before the write it leads to; no other
process works on the image, so nothing can come between.

    init    InitFs, FormatSuperblock, FormatTable, then as mkdir up to the masks
    mkdir   Resolve, Walk*, Create, WriteNewBlock, WriteNewInode, WriteInodesMask,
    touch      WriteBlocksMask, Link, LinkInfo, LinkInode, LinkName
    ls      Resolve, Walk*, List
    open    Resolve, Walk*, Open, WriteTableReserved, WriteTableInode, WriteTablePosition
    close   Close, then the three writes of the table; lseek likewise
    read    Transfer, ReadTurn*, ReadEnds, then the table
    write   Transfer, (WriteTurn, [GrowInfo, GrowIds,] WriteInfo, WriteData)*, WriteEnds,
               the table, WriteInodesMask, WriteBlocksMask

`MountFails` and `DirUnreadable` are the refusals at the head of the commands. `Crash` kills
the process between two writes, `WriteFails` makes the next write return -1, `Restart`
starts the program again. A refusal that leaves the image untouched and gives back the
prompt is not a step of its own in `Close`, `Lseek` and `Transfer`: it changes nothing.

Some writes are merged where no reader could tell the difference:

- the writes of a new block and of a new inode are one step each: nothing on the image
  leads to either until the record in the parent is complete;
- the first superblock of a format is one step: an image with half of one ends before
  `read_super_block` has read all of it, and so hangs the process as an empty one does.
  The empty descriptor table of a format is one step, the image being unusable until
  the root's inode is marked;
- `write_to_file` writes the inode once more before the superblock; the bytes are those
  already on the image;
- rewriting `fs_info`, which never changes, has no step.

A write is not torn within: a `write_while()` has happened or it has not.

Undefined behaviour is a choice. `create_dir` and `create_file` go on after their helper has
failed, with the superblock and the inode released and the image closed; since a closed
image cannot be written, the process survives or dies (`UndefinedBehaviour`). A write that
could not write everything releases superblock and table twice, and dies. An `init` whose
write of the root's records fails releases a record's path twice (`block.c:87` and, through
`methods.c:52`, `block.c:219`), and survives or dies. `read_file`
past the end of `data_size` copies what lies behind the buffer, or dies. The slot behind a
full inode's `block_ids` may hold any id. `read_block` of a block with records and data
releases records through a null pointer, and dies.

`read_while()` at the end of the image never returns: the state `stuck`. Whether a read gets
there depends on how long the image is (`Readable`): it is long enough if a later block was
written, or this block with all that its `block_info` promises; `torn` marks a block of
which that is not so. A record that was counted and not written yet reads as a blank
one. Bytes that an interrupted command left in a block that is later reserved again are not
counted on: such a block is torn like a fresh one until its data is written.

### The other modules

`FileIO`: `file` is the list of the file's blocks, each with `data_size` and all its bytes;
`free` counts the blocks left in the image, `position` is the descriptor's, `host` the
host's file. One action is one turn of a loop (`WriteTurn`, `ReadTurn`), with the head of
the handler before it (`Write`, `StatHost` and `ReadHost` for `write_from`, `Read`) and its
end behind it (`WriteEnds`, `ReadEnds`, `WriteHost` for `read_to`). `written` and `answer`
remember the last write and what the last read returned. `ChangeHost` lets other programs
replace the host's file, also between the call that asks for its size and the one that
reads it. Commands are not interrupted here; that is the business of `ExtFS`. Only
`data_size` bytes of a block are read back into a buffer that was zeroed, so `Loaded`
forgets the rest. What lies behind a buffer is `Junk`; a copy that runs over it returns
junk or kills the process.

`Mount`: the file as its length, whether its bytes are those of an image, and what its
first bytes say of the sizes of the masks; the process as the loop it is in and how many
bytes that still waits for. `WriteSome` and `ReadSome` move any number of bytes the host
likes, at least one; at the end of the file `ReadSome` is not enabled, which is the loop
that turns without moving anything. `WriteFails`, `ReadFails` and `Kill` may come at any time.

`PathParsing`: a string is a sequence of characters; `Split` is `split_path`, `Descend` one
call of `parse_path` and the level of the recursion that makes it, `Arrive` and `Exit` its
ends. `overrun` records that a buffer of `max_path_len` bytes was written behind its end. The
properties compare the walk with the names of the whole string (`Starts`, `NameAt`), which
the code never looks at as a whole; `Enumerates` says "all of them, in order".

`Client`: `input` is what has not been read, `buffer` the command buffer with what the last
call of `fgets` left in it. `ReadLine`, `ReadNothing` (end of input), `Parse` (every branch
of the loop) and `Handle` (the call). A handler may return or end the process (`exit`): most
end it where they cannot go on, at an image without a root, a path without a slash, a
write that fails, and which of these it meets is the business of `ExtFS` and
`PathParsing`. It ends as `starved` when the host has no descriptor left for the image, and
`lseek_pos` leaves one open when it refuses its arguments. Commands with the same
arguments share a letter; which arguments they are matters to none of this. The properties take the script apart by counting its newlines
(`EndOf`, `Line`, `Unended`), where the code takes what `fgets` gives it.

### Properties

*Types.* `TypeOK`.

*Descriptors.* `DescriptorExclusive`: no file stands in two entries of `fd_to_inode`,
whatever was interrupted. `OneDescriptorAtWork`: what a command has not written of the table
yet concerns one descriptor, so that an interruption tears one entry and no more.
`TableAgrees`: without interruptions the three arrays agree
after every command, and what is open has a name and is not the root.

*Namespace.* `NamesUnique`; `LinksFormTree`: each link is held by a linked directory, leads
to a marked inode that no other link leads to, and there is no cycle; `DotsAgree`: `.` and
`..` lead where the links say. All three hold at every point of every command, thus
wherever it is interrupted. `ImplementsTree`: the records are, through the mapping
of `ExtFSTree`, a behaviour of `NameTree`: one node appears at a time, with its name, in the
last write of `mkdir` or `touch`, and none disappears. `TreeInv` is what these rest on, see
the proofs.

*Interruptions.* `OnlyWindowsHurt`: a step that breaks `TreeInv` is an interruption in one of
the two windows below, and `init` establishes it on whatever image it finds.

*Space.* `BlocksOwned`: everything linked owns its blocks alone, and they are marked.
`NothingIsLost`: links, kinds, block lists and marks only grow. `WritesInPlace`: of all that is
linked, a step changes the inode of what the command writes to (`AtWork`) and one of its
blocks (`SlotAtWork`): for `write` the one its position points into or, if that is behind the
file, the last; for `mkdir` and `touch` the directory's first. `SpaceAccounted`, of each step: of a new image nothing is lost
(`LostInodes`, `LostBlocks`: marked, and neither linked nor about to be), and from then on a step
loses exactly the node at work if it is interrupted or finds the directory full
(`ParentFull`), one block if it finds its file full (`FileFull`), and otherwise nothing:
not when inodes or blocks run out, nor when an earlier command was interrupted.
`SpaceInv` is what it rests on beside `TreeInv`.

*Liveness.* `CommandsEnd`: a command leaves its loops. `CommandsAdvance`: each step of it lowers
`StepsLeft`, the most steps it can still take, which is why.

*Open files.* `ImplementsOpenFiles`: as long as nothing interrupts it, the three arrays
are one table of `OpenFiles`: a descriptor given out was free and the smallest, its file was
not open, a command changes no entry but its own. The commit point is the first of the
three writes.

*Bytes.* `ImplementsAppendFile`: for a user who writes at the end and seeks within the
file, `FileIO` is a behaviour of `AppendFile`: every read returns the bytes of one growing
sequence, and a write cut short by a full file or a full image ends between two blocks.
`ReadBack`: wherever one writes, a read from there returns what was written, unless the
write began more than one block behind the file. `ReadsTheData`: a read that begins in
the data of a block or at its end returns the bytes the blocks hold and stops only where
the data of a block ends.

*Mounting.* `MountsOnlyWhole`: `read_fs` accepts only an image whose superblock was written
to its end, although `magic` comes first. `TransfersAdvance`: each call of `read()` or `write()` that moves a
byte brings the loops nearer to their end. `InitEnds`, `ReadEnds`: short transfers keep neither
loop from ending, if the file is as long as its first bytes say.

*Strings.* `WalksItsNames`: an absolute path that is walked to its end is walked name by
name (two slashes in a row end the process). `CanonicalAccepted`: no ordinary
path is refused. `StaysInBuffers`: names that leave two bytes free stay in their buffers;
`parse_path` writes its terminator a byte late, so one free byte is not enough.

*Shell.* `ExecutesTheLines`: what is executed are the lines typed, each once and in order, as
long as each fits the buffer; behind them the last of them again and again. `EndsOf`: what ends the
shell besides `quit` and the handlers' own exits. It dies by itself only at the end of its
input or of a `read` without arguments, and is starved only when as many `lseek`s
were given as the host has descriptors, whatever other commands were given and refused.

*Not true of the program*, though its documentation says so: `BlocksNeverMixed` (`block.h:36`),
`ReadTillEnd` (`README.md:33`) and `RelativeCrashes` (`utils.h:41`); see the findings below.

### Two windows

There are two stretches in which the process must not be killed, and the operator
`Window` names them:

- `init`, between the two masks of its last superblock: the image can be mounted, and
  the root's block is free. The next `mkdir` reserves block 0 and overwrites the root.
- `write`, from the first block it reserves to its last write: a file owns blocks the
  mask on the image does not know, and the next reservation shares them.

With an interruption in a window `BlocksOwned` fails at once, and a few commands later
`LinksFormTree`, `DotsAgree` and `NamesUnique` do too. The runs of
these properties exclude exactly the windows (`WindowCrashes = FALSE`), and their theorems
assume `~(Interruptions /\ WindowCrashes)`. The run `descriptors` includes the windows, and says what
is left then: `OnlyWindowsHurt`, that there is no third window and that the damage lasts until the
next `init`; `DescriptorExclusive` and `OneDescriptorAtWork`, which no interruption anywhere
breaks. The theorems of these three, `TypeCorrect` and `CommandsAreFinite` (a damaged image
makes no command run on for ever) assume nothing about interruptions.

## The runs

| run | module | bounds | faults | properties | states |
| --- | --- | --- | --- | --- | --- |
| `namespace` | `MCExtFS` | 4 inodes, 5 blocks, 3 names, 4 records a directory, paths to depth 2, also through `..` and with an empty name | outside the windows | `TreeInv`, `NamesUnique`, `LinksFormTree`, `DotsAgree`, `NothingIsLost`, `SpaceAccounted`, `ImplementsTree` | 240 thousand |
| `descriptors` | `MCExtFS` | 2 inodes, 3 blocks, 2 blocks a file, 2 descriptors, writes of 1, positions 0 and 1 | anywhere, in the windows too | `DescriptorExclusive`, `OneDescriptorAtWork`, `OnlyWindowsHurt` | 1.6 million |
| `growth` | `MCExtFS` | 3 inodes, 5 blocks, 3 blocks a file, 1 unit of data a block, writes of 2, positions 0 and 2 | outside the windows | `TypeOK`, `TreeInv`, `BlocksOwned`, `NothingIsLost`, `SpaceAccounted`, `WritesInPlace` | 368 thousand |
| `orderly` | `MCExtFS` | 4 inodes, 5 blocks, 2 blocks of 2 units a file, 2 descriptors, one name, paths to depth 2, all commands, writes of 3, positions 0 and 3 | none | `TableAgrees`, `ImplementsOpenFiles`, `CommandsAdvance`, `CommandsEnd` under `FairSpec` | 636 thousand |
| `mixed_block` | `MCExtFS` | 3 inodes, one descriptor | none | `BlocksNeverMixed`, violated | |
| `append_only` | `MCFileIO` | 2 blocks of 2 bytes, two values of a byte, writes of 1 and 3, host files of 0 and 3 bytes, no block or two left | the host's file changes | `ImplementsAppendFile` | 2.3 million |
| `overwrite` | `MCFileIO` | 3 blocks of 2 bytes, writes of 1 and 3, reads of 3, positions 0, 1, 3 and 5, one block or three left | none | `TypeOK`, `ReadBack`, `ReadsTheData` | 3.6 million |
| `tail_lost` | `MCFileIO` | as `overwrite`, position 0 | none | `ReadTillEnd`, violated | |
| `mount_whole` | `MCMount` | a superblock of 3 + 2 + 4 bytes; other files of 0, 2, 5 and 12 | short transfers, failures, kills anywhere | `TypeOK`, `MountsOnlyWhole`, `TransfersAdvance`, `InitEnds`, `ReadEnds` under `FairSpec` | 1020 |
| `paths` | `MCPathParsing` | all strings of up to 7 characters over two letters and the slash, buffers of 4 | | `WalksItsNames`, `CanonicalAccepted`, `StaysInBuffers` | 16 thousand |
| `relative_path` | `MCPathParsing` | as `paths`, strings of up to 4 characters | | `RelativeCrashes`, violated | |
| `shell` | `MCClient` | all scripts of up to 3 lines out of 14, with and without a last newline; a buffer of 7; two descriptors of the host | | `ExecutesTheLines`, `EndsOf` | 69 thousand |

Why these bounds are enough to be of interest:

- *image.* With four inodes a directory, one within it and a file in either exist at once,
  and the next creation finds the inode mask full; with four records a directory is full
  after two names, so that the third name of `namespace` meets the case in which a node is
  lost, before the inodes run out; with three blocks a file and five blocks in all, a file
  of `growth` can have all its blocks while others are free, and two files can use up the
  block mask before either is full, so that `SpaceAccounted` tells a block that is lost
  from one that was not to be had; one unit of data a block makes every write of two
  cross a block; positions behind the end make sparse files; a file and two descriptors are
  what it takes to open it twice, in `descriptors`, where an `init` killed in its window also lets
  the next `touch` take the root's block, and a growth killed between its writes leaves a
  file that counts that block; `orderly` has three nodes to open, one in the other, and
  two descriptors, and two units of data a block, so that a read can begin behind the
  data of a block it finds.
- *bytes.* With blocks of two bytes a write of three always crosses a block, at an offset of
  zero or one; with two or three blocks a file the positions cover the first and the last
  block, the end of the file and what is behind it; two values of a byte tell what was
  written from what was there before (they are interchangeable, hence the symmetry).
- *superblock.* Each part has more than one byte, so that each may be cut in the middle; the
  other files are empty, shorter than the header, longer than it, and longer than everything.
- *strings.* Seven characters hold three names with every arrangement of slashes around
  them, and names of one byte less than, as many as and more than a buffer of four.
- *shell.* Three lines are a command, one that meets what the first left behind, and one
  that meets the end of the input; a line of seven does not fit; with two descriptors of the
  host two refused `lseek`s leave none for the command of the third line.

Ids, sizes and names beyond these bounds are the business of the theorems.

Nothing but the constants bounds the state spaces: masks, tables, blocks and positions are
finite by themselves, and a script ends, after which the last line gets shorter. Deadlock
is checked in all runs; there is none, as a command can always be given.

Fairness: `ExtFS!FairSpec` asks weak fairness of `Step` alone, the actions of a command at
work, and `Mount!FairSpec` of the transfers and of what follows each loop. A process that is
not killed runs on, and `read()` and `write()` return, so that is what the operating system
gives. No command, interruption, failure or restart has to happen.

### Findings

- `mixed_block`: `write` on the descriptor of a directory, which `open` gives out, writes a
  `data_size` into a block that has records, before `write_block` refuses it. From then on
  every walk through that directory kills the process.
- `relative_path`: a path that does not begin with a slash but has one further on loses its
  first name and is walked without it (`utils.c:49`), `a/b` as `/b`. `parse_path` (`utils.h:41`)
  promises that such a path will crash the program; only one without any slash does.
- `tail_lost`: `write_to_file` sets `data_size` to where it has written to, also when the
  block held more. A shorter write at the head of a file hides the rest of its block and,
  as a read stops where the data of a block ends, all blocks behind it.

### Cases the properties leave out

The properties that hold are about the cases in which the program does what it says. These
are the others, which a reader of the properties should know:

- `open` takes the name of a directory for that of a file (`methods.c:242`), though
  `methods.h:72` speaks of a file. `TableAgrees` and `OpenFiles` mean any named inode.
- A read that begins behind the data of a block counts as many bytes as were asked, which
  are zeros, or what lies behind the buffer (`read_file.h:115`), though `read_file.h:28`
  promises the count of the bytes read. `ReadsTheData` begins in the data or at its end.
- A write that begins more than one block behind the file lands in the next block
  (`write_to_file.h:178`), where a read from there does not look. `ReadBack` leaves it out.
- `read_fs` hangs on a file that is shorter than its first bytes say, an empty one for
  instance, though `superblock.h:61` promises -1. `ReadEnds` asks for the length.
- At the end of its input the shell executes its last command again and again, a character
  shorter each time, until the line is empty (`utils.c:113`). `ExecutesTheLines` says so.
- `read_to` does not truncate its target (`read_file.h:196`): what a longer file had behind
  the data stays. `Overlay` says so, and `write_from` reads it back in `append_only`.
- The number of a descriptor is not compared with the size of the table (`client.h:117`),
  though `read_file.h:23` asks for an opened one. `ExtFS` keeps to the table.

## What is proved

`ExtFS_proofs`, for every value of the constants that meets the four assumptions (positive
sizes; at least two records a directory; `.`, `..` and the empty name are not names of users;
commands, paths, sizes and positions of the right types), with any interruptions, in the
windows too:

- `TypeCorrect == Spec => []TypeOK`. `TypeOK` is inductive by itself: the model is typed so
  that the arguments are those of the code. One lemma per group of actions; they rest
  on lemmas about the scans (`FirstFreeIsFree`, `FreeFdIsFree`, `LookupFinds`: a `CHOOSE` of
  the first has something to choose, by the well-foundedness of `<` on `Nat`) and on
  `ChunkFits`, that a turn of `write_to_file` stays within its block.
- `DescriptorsExclusive == Spec => []DescriptorExclusive`. `DescriptorExclusive` is not
  inductive: `WriteTableInode` copies the table in memory to the image. `DescriptorInv`
  adds that the table being written is exclusive; `reserve_descriptor` keeps it so because
  it compares every entry, `free_descriptor` because zero is the root. That a torn table
  cannot break it is why the scan may ignore `reserved_fd`.
- `OneDescriptorChanges == Spec => []OneDescriptorAtWork`: the three operators of the table change
  one entry of the table they are given, and that is the one on the image.
- `CommandsAreFinite == Spec => CommandsAdvance /\ [](Busy => StepsLeft # 0)`. Each turn of a loop
  moves at least one byte (`ChunkFits`; a read leaves at once where `data_size` ends),
  and `NeedInv`, that a turn of `write_to_file` begins with something to write, keeps it so
  through the writes of the turn. This is the part of `CommandsEnd` that is about the code;
  what is left of it is that a process which can take a step takes one.

`ExtFSInvariant_proofs` and `ExtFSTree_proofs`, for every value of the constants with
`~(Interruptions /\ WindowCrashes)`, that is, killed or failing anywhere but in the two windows:

- `TreeInvariant == Spec => []TreeInv`, the inductive invariant. None of the properties of the
  namespace is inductive, because a command builds for several writes what it links by the
  last one. `TreeInv` therefore says of each point of each command what it holds in memory and
  how much of that the image has: `NodeInv`, `ProgressInv` and `RecordInv` for `mkdir`
  and `touch` (an inode and a block nobody refers to; the record they append, of which the
  image may have the count and the inode but not the name), `InitInv` for a format,
  `CopyInv`, `BlockInv` and `GrownInv` for `write`, whose copy of the inode runs ahead of the image
  and whose reservations the image does not know yet. `Mask`, `InodeOf` and `BlockOf` are the image
  as it will be when the turn at work is written: of that, `Owns` holds all the time.
  That a new node's id is greater than its parent's (`Prefix`: ids are handed out in order
  and never given back) is what excludes cycles.
- `NamesAreUnique`, `LinksAreTree`, `DotsFollowLinks`, `BlocksAreOwned` follow from it. The proof
  that it is inductive has one lemma per group of actions; the writes that change nothing a path
  leads to share one (`TreeKept`).
- `OnlyWindowsAreHarmful == Spec => OnlyWindowsHurt`, without the assumption about interruptions. The
  lemma on which `TreeInvariant` rests is about one step and asks only that this step is
  no interruption in a window; `InitFsMends` asks nothing of the image.
- `WritesStayInPlace == Spec => WritesInPlace`. `TurnInv` is what this takes besides `TreeInv`: from
  the choice of a turn of `write_to_file` to its last write the block at work is the one the
  position points into, or the last. That it is nobody else's is `Owns`; that
  `mkdir` and `touch` write to blocks of nobody until they append to the parent is `NodeInv`.
- `NothingIsEverLost == Spec => NothingIsLost`, an action property: each step is looked at with
  `TreeInv` on both sides.
- `TreeImplemented == Spec => ImplementsTree`, the refinement: the write of a record's name is the
  one step that adds a node of `NameTree`, `init` takes the tree away when it truncates the image
  and makes the root with the mask of the inodes, and every other step, interruptions
  included, leaves the tree alone.

But for `OnlyWindowsAreHarmful` these are false if a window is interrupted, see above.

`ExtFSOrderly_proofs`, for every value of the constants; with `Interruptions = FALSE`:

- `TableImplemented == Spec => ImplementsOpenFiles`, the refinement. Three lemmas say what the
  operators of the table do to the abstract one: `ReserveOpens` (with `FreeFdIsFirst`: the
  descriptor chosen is the smallest), `FreeCloses`, `SetPositionMoves`. `TableInv` is the
  invariant: free entries are cleared, so that closing and opening again gives a fresh
  entry; between the three writes the image holds what has been written of the table in
  memory; and a transfer at work has an open descriptor. Every action then either changes
  the committed table by one of the three operators, or leaves it alone. With
  interruptions the theorem is false: a table torn after its first write is none of
  `OpenFiles`, and `DescriptorsExclusive` is what is left.
- `TableIsRight == Spec => []TableAgrees`. Whatever `OpenFiles` does leaves its entries in order
  (`StaysWellOpen`), so this half of the property is inherited through the refinement; that an
  open file has a name is `OpenedInv` of `TreeInv`.
and, like the theorems of the tree, with `~(Interruptions /\ WindowCrashes)`:

- `SpaceInvariant == Spec => []SpaceInv`, inductive together with `TreeInv`. `ParentInv` closes the
  gap between the two reads of the parent: it is read before the node is reserved, and read
  again to append to it, and if the second could fail where the first did not, the node would
  be lost without being interrupted. `FreshInv`: the inode taken was free, so that
  nothing lost before is given out as new.
- `SpaceIsAccounted == Spec => SpaceAccounted`, the action property, which follows. Every step that
  is no interruption keeps `LostInodes` and `LostBlocks`, since what it marks is linked or held
  by the command at work (`NodeInv`, `ProgressInv`), but the end in a full directory
  and the turn in a full file, which lose what the property says; an interruption
  loses what was held, `EndLosesNew`. For a file's blocks the marks are those of `Mask`,
  which counts the reservations that a `write` has not put on the image.

`Mount_proofs`, for superblocks of every size, any other file, and any failures:

- `TypeCorrect == Spec => []TypeOK`, where `need \in Nat` is what matters: no loop counts
  below zero, however few bytes the host moves at a time.
- `OnlyWholeMounted == Spec => []MountsOnlyWhole`, from `ReaderInv`: while the process reads,
  the offset, what this loop waits for and what the later loops will ask for add up to the
  length that the header describes, and the offset never passes the end of the file. So a
  reader that got through has seen as many bytes as the superblock has.
- `TransfersAreFinite == Spec => TransfersAdvance`: `StepsLeft` counts a call for every byte that this
  loop and the later ones wait for, which is the worst the host can do.

`FileIO_proofs`, for blocks and files of every size, any data, any sizes and positions, any
number of free blocks, and a host file that changes:

- `TypeCorrect == Spec => []TypeOK`, from `TypeInv`, which adds the types of the two records
  of what was written and read: `read_to` writes to the host what the last read delivered.
- `WrittenIsReadBack == Spec => []ReadBack`. `WriteInv`: while a write is at work, the file holds
  what its turns have put so far, and a turn that is not the last ends where a block ends.
  This is what makes it harmless that each turn sets `data_size` anew: earlier turns lie in
  earlier blocks (`EarlierBlock`). It also keeps `BlockIndex(pos) <= Len(file)`, which is
  the condition under which the block appended is the one a reader looks at. `ReadInv`: a
  read at work agrees with the last write as far as both go, because the next byte
  that was written is still in the data of its block (`NextIsHeld`), so that the read does not stop.
- `DataAreRead == Spec => []ReadsTheData`. `DataInv`: a read that begins in the data of a block, or
  at its end, begins every turn so; hence `data_size - offset` does not wrap. The slot
  behind the largest file can only be copied from by going beyond `MaxFile`.

They rest on lemmas about division (`BlockAndOffset`, `PositionOf`, `SameBlock`, `NextBlock`), on
what sequences do (`Joined`, `PartOf`) and on what a turn of either loop does (`TurnPuts`,
`TurnReads`).

`AppendImplemented == Spec => ImplementsAppendFile`, for `AppendOnly = TRUE`, is the refinement. Its
`AppendInv` says that the file has no gaps, that the position of a write is the end of the file
after every turn, and that a read at work has collected bytes of the file, or has run behind the
largest file there can be. The turns of `write_to_file` are steps of
nobody, as the mapping shows the file up to the position in the descriptor; the end of the
command, which moves that, appends all of them at once. What a read returns is what the
abstract file has from the position on.

`PathParsing_proofs`, for any alphabet, any set of paths and any length of the buffers:

- `AbsolutePathsAreWalked`, `CanonicalPathsAreAccepted`, `BuffersHold`, that is, the three
  properties that hold, from `PathInvariant == Spec => []PathInv`. `PathInv` says where a walk
  is: what is left to parse begins at a slash of the path and ends at the path's end, or at
  the slash before the name that was split off, and the names looked up are those in front
  of it (`OnTheWay`). Of a walk along a relative path it says nothing (`Relative`).
  `SlashFromFinds` and its like say what `strchr` and `strrchr` find.

`Client_proofs`, for any set of scripts, any command buffer and any number of files of the host:

- `ShellExecutesTheLines == Spec => []ExecutesTheLines`, from `ScriptInv`: what was read of the script
  ends behind a newline of it, as many newlines have been passed as commands were read, and the
  buffer holds the last of them; or the input is used up. `NextNewline`, `EndOfIs`
  and `LastLine` connect counting newlines with finding the next one; `PartOfPart`, what
  `fgets` takes from what is left with the script.
- `ShellEndsOf == Spec => []EndsOf`, from `EndsInv`: no more files are left open than `lseek`s were
  executed, whether the handlers return or end the process.

Only model-checked: liveness (`CommandsEnd`, `InitEnds`, `ReadEnds`), which is beyond the
prover here, as is `ENABLED`, which fairness is made of. The part of these that is about
the code, that there are only so many steps to take, is proved (`CommandsAreFinite`,
`TransfersAreFinite`); that a command at work always can take one, and `ReadEnds`'s that the bytes
the header promises do arrive, is left to TLC. `BlocksNeverMixed`, `ReadTillEnd`
and `RelativeCrashes` are false. All other properties of the runs, the invariants and the action properties, are
theorems.

## Not modelled

- Read errors of the host in `ExtFS`: a read returns what is there, or meets the end of the
  image. (`Mount` has them for `read_fs`.) Failures of `open()` to create a file.
- The memory of the shell beyond its command buffer: the 256 bytes `read` copies into,
  whatever size is asked for; an input buffer that was never filled before its first use.
- The empty path, and the arithmetic of a path longer than its length's type holds.
- Descriptor numbers that are out of the table's range.
- `free_inode` and `free_block`: they change a mask in memory that is not written again.
- `help`, and what is printed. The messages and the wording are nobody's state.
- The build files and `tests/`: a script that reads the report of a memory checker.

## Plan

1. (done) `Superblock`, `DescriptorsTable`, `Blocks`, `ExtFS` with its runs; `NameTree` and the
   refinement; `TypeCorrect`, `DescriptorsExclusive`.
2. (done) `OpenFiles` and the proof that the table implements it; `FileIO` with `AppendFile` and
   the proofs of what is written and read; `Mount` and its proofs; `PathParsing`; `Client`.
3. (done) That each step of `FileIO` is one of `AppendFile`, for a user who writes at the end.
4. (done) `TreeInv` and the proofs of the namespace and of space: the properties, then that each step
   of `ExtFS` is one of `NameTree` or none; `SpaceAccounted`; without interruptions,
   `TableAgrees`.
5. (done) The proofs about `PathParsing` and `Client`.
6. (done) What an interruption in a window leaves: `OnlyWindowsHurt`, `OneDescriptorAtWork`,
   `CommandsAdvance`; and where commands write: `WritesInPlace`. Their theorems.
7. What holds of the files that a window's interruption did not concern, until the next
   command meets a block of two owners.
