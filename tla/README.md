# A TLA+ development of the simple MS-FAT file system

The repository holds a user-level library, `libfs`, that keeps a flat file
system on a virtual disk (a host file read and written in blocks of 4096
bytes), and command-line tools that drive it. This directory models the
library, the block device under it and the tools above it as state machines,
checks them with TLC on small instances, and proves with TLAPS, for every value
of the constants, every safety property the passing runs check and the
refinements. The code departs from its own headers in a number of places; the
models follow the code, and each departure is a property of its own that TLC
violates (the runs marked **violated** below).

## The system

| Part | Source | State it keeps | Operations |
|---|---|---|---|
| FAT allocator | `libfs/fs.c` 413-498, 744-754 | `fat[]`: per data block 0 (free), the next block, or `FAT_EOC` | first block, walk, extend, n-th block, free a chain |
| Root directory | `fs.c` 296-365, 670-762 | `root[128]`: name, size, first block | create, delete, find, list |
| Open-file table | `fs.c` 370-398, 786-893 | `open_files[32]`: entry pointer and 16-bit offset; `num_open_files` (8 bits) | open, close, stat, lseek |
| Read and write path | `fs.c` 402-411, 895-1253 | nothing of its own: offset, size, FAT, blocks on the disk | read, write |
| Mounting | `fs.c` 122-292, 500-621 | `is_disk_mounted`, `sb`, pointers to the tables | mount, umount |
| Volume image | `fs.c` 94-111, 140-337, 563-606 | the bytes of superblock, FAT blocks, root block | encode, decode, validate |
| Block device | `libfs/disk.c` | one host descriptor and a block count | open, close, count, read, write |
| Tools | `apps/test_fs.c`, `simple_reader.c`, `simple_writer.c` | script position, one descriptor | `info ls add rm cat stat script` |

The tools call the library, the library calls the block device; nothing calls
back and there is one thread. All state is in globals. What makes the system
hard is not concurrency but

- **sequences**: the FAT is a shared linked structure with no owner recorded,
  so each call trusts all earlier ones to have left chains that end and do not
  meet; one wrong entry shows many calls later as a loop that never ends or a
  file with somebody else's data;
- **two copies**: data blocks go to the disk at once, FAT and directory only
  in `fs_umount`, FAT first. A process that stops elsewhere (`die()` in the
  tools, the two-second `timeout` of the grading scripts, a call that hangs)
  loses the session, and one that stops inside `fs_umount` leaves a new FAT
  under an old directory;
- **state that outlives a session**: `num_open_files` and `is_disk_mounted`
  are not reset where one would expect;
- **width**: offsets of 16 bits, a counter of 8, sizes of 32;
- **limits**: a full disk in the middle of a write, a full directory, full
  slots.

What makes each part correct:

- allocator: chains end and share no block; a free block is in no chain; an
  allocated one is in some chain; a call changes no chain but its own;
- directory: unique names; a file's size and first block agree with its chain;
- open-file table: a descriptor belongs to a file that exists; the counter
  never drops below the slots in use; a free slot can be had;
- read and write: a short count only when the disk is full or the file ends;
  the file grows by what is written past its end;
- mounting: what was saved is what is mounted; a save that is cut off leaves a
  volume; a mount that fails can be tried again;
- image: decoding what was encoded gives it back; block device: bounds,
  nothing read or written while closed.

## Modules

| Module | What it is |
|---|---|
| `FatVolume` | The two tables as values: types, the look-ups of the code (`FreeBlocks`, `find_data_block`), and what makes a pair of tables sound. Operators only, since a table exists in memory and on the disk. |
| `IoSegments` | How a transfer is cut into a partial first block, full blocks and a last block: the arithmetic that `fs_read` and `fs_write` share, and the byte-by-byte reference. Operators only. |
| `FileSystem` | The library: mount, umount, create, delete, open, close, lseek and the metadata half of read and write. Extends the two above. Specifications `Spec`, `CrashSpec`, `FairSpec`. |
| `FileData` | `FileSystem` with the bytes of the blocks; each piece of a write is a step. Shown to implement `FileSystem`. |
| `Namespace` | What a caller sees of names, sizes and descriptors, without FAT or entries: the abstract store. It is what the code does, not what `fs.h` asks. |
| `NamespaceRefinement` | The mapping under which `FileSystem` implements `Namespace`. |
| `Disk` | `disk.c`: one host file open at a time. |
| `VolumeImage` | The blocks of a volume: checks on the superblock, place of FAT entries, encoding of directory entries. Operators only. |
| `Mounting` | `fs_mount` and `fs_umount` over `Disk` and `VolumeImage`: several disks, good and bad, and every failing exit. |
| `Tools` | The programs under `apps/` over `FileSystem`: which calls each makes, and what it does when one fails. |
| `MCFileSystem`, `MCFileData`, `MCMounting`, `MCTools` | Model values, symmetry and state constraints for TLC. |
| `FatVolumeProofs` | Lemmas about the tables: which changes keep a volume sound, and what its chains are. |
| `FileSystemProofs` | Types, descriptors, the counter and sound volumes of `FileSystem`. |
| `IoSegmentsProofs` | The pieces of a transfer, for every offset, count and block size. |
| `FileChainProofs` | What `FileSystem` promises of whole chains: integrity, stability, no loss, short writes. |
| `FileDataProofs` | `FileData` implements `FileSystem`, and keeps and returns the contents of files. |
| `NamespaceProofs` | `FileSystem` implements `Namespace`. |
| `MountingProofs` | The theorems about `Mounting`. |
| `ToolsProofs` | The programs make only calls `FileSystem` has, and save what they should. |

`FileSystem` and `Mounting` both model `fs_mount` and `fs_umount`, at different
grain. `FileSystem` takes one valid volume, two ways for a mount to end, and
asks what sequences of calls do to it; `Mounting` takes any image and lets the
calls of a session change the tables at will, and asks what reaches which disk.

### How state and actions correspond to the code

`status` is `is_disk_mounted`, with "failed" for the flag left set by a mount
that returned -1. `fat`, `root`, `open_files`, `num_open_files` are the
globals of those names, `disk` the FAT blocks and the root block on the disk.
`call` holds the local variables of the call in progress: `pc` names its loop.

A call without a loop over a chain is one step (`Create`, `Open`, `Close`,
`Lseek`, `Read`, `DeleteEmpty`). The others take one step per iteration:

- `fs_write`: `Write` (the file has blocks), `WriteFirstBlock` (it has none
  and gets one) or `WriteNoBlock` (none is free); `Walk` to the end of the
  chain; `Extend` per new block; `Allocated` when the chain is long enough or
  the disk full; then `WriteAll`, which advances offset and size, or
  `WriteShort`, the early return that does not.
- `fs_delete`: `Delete`, `FreeBlock` per turn of the `while` loop, `FreeLast`
  for the statements after it.
- `fs_umount`: `Umount` writes the FAT, `UmountRoot` the directory.

While `call` is not `Idle` no other call begins. `Kill` ends the process, at
any point, and the next one starts from the disk; `Spec` leaves out the one
point inside `fs_umount`, `CrashSpec` does not. A call that returns -1 before
changing anything is a stuttering step and has no action.

What is abstracted in `FileSystem`: names are model values (an invalid name is
only turned down); the contents of blocks are left to `FileData`, since
metadata does not depend on them: a transfer completes exactly if the last
block it needs is in the chain (`LastBlock`), because chains are contiguous in
position. That this is so is the property `ImplementsFileSystem`. The superblock
is constant and valid and the FAT fits one block (at most 2048 data blocks). In
the status "failed" the tables point to freed memory, and only `fs_close`, which
does not touch them, and the end of the process are modelled here. Descriptors
are the 32 slots; the numbers 32 to 127 that the bound checks let through read
outside of the array and are not in the model.

**`FileData`.** `blocks` is the data area of the disk, `io` the locals of a
running `fs_write`: the caller's buffer, how many pieces are done and
`bytes_written`. After `BeginTransfer`, `TransferPiece` writes the next piece
of `Pieces(offset, count)` to the block that `find_data_block` gives, through
the bounce buffer where it is not a full one; `FinishWrite` and `FinishShort`
are the two ways out. `fs_read` has no step of its own between pieces (nothing
can change under it) and is a function of the chain and the blocks; it yields
the returned number, the buffer, and whether the offset moves. All other calls
are the actions of `FileSystem`. Two variables are observers and not state of
the program: `holds`, per file and position the bytes a caller may find there
by what calls have returned, and `gone`, the files deleted since the last
`fs_umount`, which a crash brings back.

**`Namespace`.** A volume is a function from names to sizes, in memory and
saved; a descriptor is a name and an offset. `NamespaceRefinement` maps the
directory entries in use to it and an open slot to its file's name. The steps of
loops map to stutters, the two halves of `fs_umount` to one save at
`UmountRoot`. That the store is implemented says that directory entries, chains
and crashes do not show through names, sizes and descriptors. It does not say
that the behaviour is what `fs.h` asks: where the header differs the store does
as the code does, and a violated property has the header's line. That is so for
unmounting with descriptors open and opening after it (`RoomToOpen`), seeking
beyond 65535 (`SeekGoesToOffset`), the size after an overwrite or a short write
(`WriteFollowsHeader`) and, in `FileData` only, reading past the end and the
offset after a short read (`ReadFollowsHeader`).

**`Disk`, `VolumeImage`, `Mounting`.** `host` maps a host file to its blocks,
`disk_fd` and `bcount` are the fields of `disk`, and `stray` counts descriptors
nobody can close any more. `sb`, `fat` and `root` are the globals of those
names with the state of the memory they point to: null at the start of a
process, live, freed by `fs_umount`, or given up half filled by a mount that
failed. `fs_mount` writes nothing and is one step, one action per exit:
`MountOddSize`, `MountNoSuperblock`, `MountBadSuperblock`, `MountBadFat`,
`MountBadRoot`, `MountOk`. `fs_umount` is one step per block written
(`SaveFatBlock`, `SaveRoot`) and `EndUmount`; `UmountFailed` and
`UmountDangling` are the call after a failed mount, the first ending in a null
pointer, the second on freed memory and so free to overwrite any block with
anything. `SessionCall` stands for what the other calls, `fs_create` to
`fs_write`, do to the tables.
`saved` is an observer: what each disk held when its last `fs_umount` ended.
A block is the record of what it is read as; an entry of the FAT or of the
directory is where the code puts it, so that FAT block i goes to and comes from
entry 4096 * i (`Stride`, `fs.c:273` and `565`), and the directory is read from
block `num_fat_blocks + 1` and saved to `root_index`. Any block passes for a
directory that has zeros where the padding of each entry is looked for
(`RootReadable`): zeros, a superblock, and a FAT block with free entries there,
whose entries then are names, sizes and indices (`FileOfFat`).

**`Tools`.** `tool` is the running process: its command, the position in the
sequence of calls (`CallsOf`), and its locals. A call is the action of
`FileSystem`; `Fail` is what follows one that returned -1: `fs_umount` and
`die` in `test_fs.c`, `exit` at once where `simple_*` assert. `ToolStat` has the
early return of `cat`. A script is any sequence of lines, with the three ways
it ends: through `fs_umount` (`Ended`), at once when a `MOUNT` is refused
(`MountRefused`), and at once when a `READ` asserts that it could read a host
file (`Aborted`). One process runs at a time; it ends by `Exit`, or by `Timeout`
at any moment, inside `fs_umount` too, and both clear the memory of the library
as `Kill` does. So a later process may find a disk that a save cut short has
left.

## Runs

| Run | Module, specification | Shows |
|---|---|---|
| `session` | `FileSystem`, one session | chains end and share no block (`ChainsIntact`), nothing is lost while FAT entry 0 is reserved (`NoLossWhileReserved`), a write falls short only on a full disk (`ShortWriteOnlyWhenFull`), a call leaves every other chain alone and only appends to its own (`ChainsStable`), and the abstract store is implemented (`ImplementsNamespace`) |
| `sessions` | `FileSystem`, `FairSpec`, any number of sessions | the volume is sound in memory and on the disk (`VolumesSound`), and half written if the old files still exist (`TornSaveSound`); the counter of open files is never below the slots in use and never wraps (`OpenCountBounds`); calls return (`CallsReturn`) |
| `data` | `FileData` | a file holds what was last written to it (`ContentsKept`), also for who mounts the disk after a crash outside of `fs_umount` (`CrashKeepsContents`); a read returns it, in order, as far as the chain goes (`ReadsReturnContents`); a transfer puts every byte in its place and moves no other (`TransfersExact`); `ImplementsFileSystem` |
| `mounting` | `Mounting` | the flag of the library and the descriptor of the device agree (`FlagFollowsDevice`); a disk holds what was last saved on it (`DiskHoldsSaved`) and mounting returns that (`MountLoadsSaved`); only tables of the open disk are written (`WritesStayInVolume`) |
| `tools` | `Tools`, processes killed at any moment | also after a torn `fs_umount`: types (`TypeOK`), unique names and descriptors of files that exist (`OpenFilesExist`), `ImplementsNamespace`. A program that ends by itself has saved its session, but for three exits: a second `MOUNT` in a script, a `READ` in one that asserts, and a short write of `simple_writer` (`NothingUnsaved`); every command ends (`CommandsEnd`) |
| `delete_leaks` | `FileSystem` | **violated** `NoBlockLost`: deleting a file of several blocks frees the first only |
| `delete_hangs` | `FileSystem`, `FairSpec` | **violated** `DeleteReturns`: a second such deletion loops for ever |
| `open_refused` | `FileSystem` | **violated** `RoomToOpen`: `fs_open` fails with slots free, after sessions that unmounted with files open, which `fs_umount` does not refuse |
| `seek_wraps` | `FileSystem` | **violated** `SeekGoesToOffset`: an offset that does not fit its 16 bits is cut off, and the seek succeeds. On the disk of this run, of one byte, a file gets that long only because an overwrite makes it longer, so the counterexample shows that half of `WriteFollowsHeader` too |
| `read_contract` | `FileData` | **violated** `ReadFollowsHeader`: a read goes on to the end of the last block, and one cut short there leaves the offset alone; the last state of the counterexample shows both |
| `write_contract` | `FileData` | **violated** `WriteFollowsHeader`: a write cut short by a full disk reports bytes that the size does not have |
| `fat_blocks` | `Mounting` | **violated** `EachFatBlockLoaded`: with two FAT blocks, the entries of the second are lost |

The violated properties state what `README.md` and `libfs/fs.h` of the
repository say; the findings in `PROJECT.json` quote the lines. The first two
come from one statement, `fs.c:749`: the loop of `fs_delete` clears an entry
before it reads the next index from it, so it goes on at block 0, and ends by
clearing the reserved entry 0. After that the saved volume is refused by
`load_fat` (`MountFails`), and a further deletion of several blocks never
meets `FAT_EOC`: in the model, a `FreeBlock` that changes nothing, for ever.
`NoLossWhileReserved` and `CallsReturn` hold because they speak of the
sessions before that. `CommandsEnd` holds although a command may meet any disk:
`rm` deletes once per process, and `fs_mount` has just checked entry 0, at
which its loop stops; `add` and `simple_writer` write only to the file they
have just created, and so walk no chain found on the disk, which after a torn
save may be circular. Scripts, which write and delete at will, are outside it.

Some properties hold in a weaker form than one would wish, and say so.
`ContentsKept` speaks of files still whole (`Intact`), and, as all of
`FileData`, of behaviours in which the process does not die inside `fs_umount`:
a file deleted before such a death comes back with blocks that may have been
used again. For the same reason a file deleted since the last save may hold
anything in `CrashKeepsContents`, and `TornSaveSound` speaks of sessions that
deleted no saved file. `ReadsReturnContents` and `TransfersExact` take the
16-bit offset as it is and counts from 1. `FlagFollowsDevice` holds of the
state that a failed mount leaves too: both are then still set, so that every
later `fs_mount` in the process is refused and an `fs_umount` writes the FAT;
what `DiskHoldsSaved` adds is that this does no harm to a good disk.
`NothingUnsaved` names the three exits that do not save. `DiskHoldsSaved`
speaks of disks in the formatter's layout and of the first FAT block: the
second is what `fat_blocks` is about, and on a disk whose directory is
elsewhere than where it is read from (`fs.c:532`, `606`) nothing is claimed.
`WritesStayInVolume` excuses `UmountDangling`, whose behaviour is undefined.

**Bounds.** In the runs of `FileSystem`, two names and entries, and (but in
`delete_leaks`, `delete_hangs` and `seek_wraps`) two descriptors:
enough for two files to compete for blocks, for a name to be reused, for two
descriptors on one file, and for full slots and a full directory. `session` has
three data blocks of two bytes: chains of three blocks, partial blocks, the disk
filling up in the middle of a write; `OffsetMod = 4` makes offsets wrap at two
blocks. Its constraint `OneSession` stops at the first step of `fs_umount`,
since the product of a large memory and a large disk is out of reach.
`sessions` has two data blocks of one byte and no such constraint.
`MaxSize` bounds sizes and `MaxCount` the count of a call; both only cut off
longer files.

`data` has two blocks of two bytes, two names and one descriptor, so a transfer
can begin and end inside a block, fall short after a piece, and reach a block
that another file gave back. Of the three bytes one is what the formatter
writes and never written by a caller; a written buffer begins with `Mark` and
goes on with the third, so that a byte at the wrong place is told apart
(`MarkedBuffers`). `SavesOneFile` lets `fs_umount` save one kind of volume, a
file of one full block, and the sessions after it hold one file at a time: that
one file deleted, its block used again and the process dying is the case
`CrashKeepsContents` is about. `TransfersExact` also tries the running transfer
lengthened by one and two blocks, for full blocks in the middle.

`mounting` has two disks from eleven images: a small volume, one with two FAT
blocks, and one for each failing check or unchecked field (a wrong count, no
block for the directory, `root_index` on the FAT or beyond the directory, a bad
padding, a FAT block for a directory that passes and one that does not, an
empty file, an odd size). A FAT block holds five entries, which is the length
of one directory entry, and the directory one file; two descriptors are left to
the process. `OneLargeDisk` keeps the larger volume to one of the two disks,
`FewEntries` the changes of a session to three entries of the FAT, in both
blocks, and `DataBlocksKept` leaves out junk on data blocks, which nothing
reads. The sample entry has a size and an index whose bytes differ.

`tools` has two names, two data blocks of one byte, and one descriptor: a tool
opens one file, and a script that opens a second while the first is open is
refused by the library. Commands run on every disk that arises, those of torn
saves included; `ScriptsOnSoundDisks` and `ScriptsClose` bound scripts only: a
script runs on a sound disk, of which it may make, by dying inside `fs_umount`,
every torn one, and closes its files before it mounts the volume again. What a
script may do on a torn disk, or with a counter that is too high, is in the
theorems about `CrashSpec`.

**Fairness.** `FairSpec` assumes `WF_vars(CallStep)`: a call that has begun
takes its next step, because it runs on its caller's thread and waits for
nothing. Nothing is assumed of the caller: it need never call, and may die.
`ToolSpec` assumes the same of a process, `WF_toolVars(ProgramStep)`: a program
that has started makes its next call, which is its own straight-line code.
Nothing is assumed of who starts or kills programs, nor of the lines of a
script.

## Proofs

The theorems hold for all values of the constants that meet the assumptions the
modules name:

- `FatVolume`, `FileSystem`, `IoSegments`: block indices below `FAT_EOC`, at
  most 254 descriptors so that the counter fits 8 bits, positive block size and
  offset width, `NoName` no name and `NULL` no descriptor;
- `FileData`, `NamespaceRefinement`: what a formatter writes is a byte, `NULL`
  is no abstract descriptor either;
- `Disk`, `Mounting`: a host file is a finite run of blocks, the bytes in them
  are bytes and FAT entries two of them; the entries of the directory fit a
  block (`EntriesPerBlockAssumption`), and a name and a padding have a length;
  the directory entries a session may make fit their fields
  (`FitsEntry`). Nothing else is assumed of what a disk holds, nor of `Junk`,
  an entry in memory never written, but that it has 16 bits;
- `Tools`: `NoTool` is no process, and counts go up to the largest size
  (`WholeFileAssumption`; both are bounds of the model, and `cat` reads a file
  in one call).

| Theorem | Statement | Module |
|---|---|---|
| `TypeCorrect` | `CrashSpec => []TypeOK` | `FileSystemProofs` |
| `DescriptorsCorrect` | `CrashSpec => []OpenFilesExist` | |
| `OpenCountCorrect` | `CrashSpec => []OpenCountBounds` | |
| `VolumesStaySound` | `Spec => []VolumesSound` | |
| `TornSavesSound` | `Spec => []TornSaveSound` | |
| `ChainsCorrect` | `Spec => []ChainsIntact` | `FileChainProofs` |
| `ShortWritesCorrect` | `Spec => []ShortWriteOnlyWhenFull` | |
| `ChainsStableCorrect` | `Spec => ChainsStable` | |
| `NoLossCorrect` | `Spec => []NoLossWhileReserved` | |
| `NamespaceCorrect` | `CrashSpec => ImplementsNamespace` | `NamespaceProofs` |
| `TransferExact` | `MovesExactly(offset, count)`, any offset, `count > 0` | `IoSegmentsProofs` |
| `DataImplementsFileSystem` | `DataSpec => ImplementsFileSystem` | `FileDataProofs` |
| `DataTypeCorrect` | `DataSpec => []DataTypeOK` | |
| `TransfersCorrect` | `DataSpec => []TransfersExact` | |
| `ContentsCorrect` | `DataSpec => []ContentsKept` | |
| `CrashContentsCorrect` | `DataSpec => []CrashKeepsContents` | |
| `ReadsCorrect` | `DataSpec => []ReadsReturnContents` | |
| `MountTypeCorrect` | `MountSpec => []MountTypeOK` | `MountingProofs` |
| `FlagCorrect` | `MountSpec => []FlagFollowsDevice` | |
| `WritesCorrect` | `MountSpec => WritesStayInVolume` | |
| `SavesCorrect` | `MountSpec => []DiskHoldsSaved` | |
| `LoadsCorrect` | `MountSpec => []MountLoadsSaved` | |
| `ToolsUseLibrary` | `ToolSpec => CrashSpec` | `ToolsProofs` |
| `ToolsSave` | `ToolSpec => NothingUnsaved` | |

**`FileSystem`.** The invariants are not inductive alone: between two
iterations the truth is in the locals. `TypeInv` adds that a write still fits
under `MaxSize` and that the block a loop is at is one (`CallTyped`).
`DescriptorInv` adds that a file being deleted exists and is open nowhere.
`VolumeInv` adds that an allocation stands on an allocated block, that a
deletion is either at the first block of a file that is still whole or already
at block 0, and that the FAT on the disk is the one in memory while `fs_umount`
is between its writes. They build on each other: `VolumeInv` needs that open
descriptors are on existing files, or a write could follow the head of an empty
entry.

`VolumeSound` is the local form of integrity (a link leads to an allocated
block, no two links or heads lead to the same one, none leads to a head or to
block 0), and each change to the FAT is one lemma of `FatVolumeProofs`:
`FirstBlockSound`, `LinkSound`, `FreeHeadSound`, `FreeReservedSound`, and
`SameHeads` for changes to the directory. `FreeReservedSound` is why the
defect of `fs_delete` loses blocks but never cross-links files.

**Chains.** What is proved entry by entry has to be carried to whole chains,
and a chain is the recursive function `find_data_block`. That it satisfies its
equation is shown once, from the walks of bounded length that agree with each
other; induction on positions is then a fact about sets of naturals
(`SetInduction`), which needs no operator for a parameter. On a sound volume two
positions of the same or of different files never hold the same block
(injectivity, by induction on the nearer one), and as there are only `NumBlocks`
blocks, a chain that had not ended by then would repeat one: `ChainsCorrect`
follows from `VolumesSound` alone. The same lemmas say what freeing a head,
giving a first block or adding a link does to the chain of every file, which is
`ChainsStable`, one call at a time.

`WriteInv` says what an allocation knows of its progress: `block_index` is
position `num_data_blocks - 1` of its own file. With that the loop ends at a
chain of `num_target_blocks` blocks or with nothing free, which is
`ShortWriteOnlyWhenFull`. `LossInv` is `NoLossWhileReserved` between the
iterations and on the disk; it excuses a deletion only from the moment its loop
has reached block 0, where entry 0 is about to lose its mark.

**`Namespace`.** A directory is a function from names to entries because names
differ (`DescriptorInv`), so each change of one entry is the change of one name,
and an open slot keeps its name because the entry it points to stays in use.
Each step of the library is one of the store or a stutter; the two halves of
`fs_umount` are a stutter and a save, whatever crash comes between.

**Transfers.** `TransferExact` is about the arithmetic alone: the pieces are
consecutive, one block each, the first ending and the last beginning at a block
border, whatever offset, count and block size. `TransferInv` says what a
transfer in progress has done: `bytes_written` is where the last piece written
ends, and the block of that piece is in the chain. So it reaches the end exactly
if the last block it needs is in the chain: that is the refinement of
`FileSystem`, whose `WriteAll` and `WriteShort` look at that block only.

`ContentsInv` is about the bytes on the disk: each whole file holds, at every
position its chain covers, a byte allowed there, where a running write counts as
far as its pieces have landed (`Landed`); nothing is claimed of positions the
chain does not cover yet. A piece written changes no other file because chains
do not meet (`ChainsCorrect`) and its own only at the piece (`TransferExact`).
The delicate part is what the tables *on the disk* make of the same blocks,
since data blocks are overwritten at once and the tables lag behind. A file that
has not been deleted since the last `fs_umount` (`gone`) still exists in memory,
at the same entry, and its chain there begins with the one it has on the disk:
creating a file, a first block and a link only add to chains. So what holds in
memory holds for who mounts the disk after a crash. A deleted file's blocks may
have new owners, hence `gone`.

**`Mounting`.** `WritesCorrect` needs to know that the superblock in memory is
the one still on the open disk when `fs_umount` goes by it. `ImageInv` says so
of any live `sb`, with what `load_superblock` checked, and that live tables come
with it. That no write destroys it rests on two of those checks:
`num_fat_blocks` below the number of blocks, so that FAT blocks end before the
disk does, and `root_index` above 0.

`SavesCorrect` adds `TableInv`: until a call changes them the tables in memory
are what the open disk decodes to, the FAT also after a mount that failed behind
it; a running `fs_umount` has written the first FAT block, then the directory,
and until it ends its disk does not count as saved; all other disks stay as they
are. Under it lie the lemmas that an entry decoded from its encoded bytes is
that entry, four bytes for the size and two for the index. A volume without a
FAT block is not in the layout `DiskHoldsSaved` speaks of: there is nothing to
read entry 0 from, and `load_fat` tests memory it has not written.
Where a FAT block passes for the directory, what is loaded and saved again are
still a size of four bytes and an index of two, since the entries have 16 bits
(`FatFits`).

**`Tools`.** Each step of a program, and its death, is shown to be a step of
the library or none (`ToolsUseLibrary`). As the death may come inside
`fs_umount`, it is `CrashSpec` that the tools implement: types, descriptors, the
counter and the store of names carry over, and what is proved of `Spec` (sound
volumes, whole chains, contents) does not. `ToolInv` then
says where a program can be when: mounted from its second call to its last, in
a call exactly at the position of that call, memory equal to the disk while
nothing is mounted, and throughout for commands that never write. A call that
fails leads to `fs_umount` or, where the result is asserted, happens before
anything has changed; `simple_writer`'s `fs_open` cannot fail since the file it
has created is there. That its short write means a full disk has to be shown on
a volume that may be torn, so `ShortWritesCorrect` does not help: `FreshWrite`
says that the file written to is the one just created, that it got its blocks
from the free ones in this very write, and that they lead to the block the
allocation is at, which needs nothing of the rest of the volume.

**Only model-checked**: liveness under fairness (`CallsReturn`, `CommandsEnd`),
which needs ENABLED and so is out of the prover's reach. The violated
properties of the last seven runs are counterexamples and have no proof.

## Plan

The modules are written and checked, and their safety properties proved. What
is left is to prove what stands behind the liveness runs without temporal
reasoning:

1. a measure for `CallsReturn`: each step of a call decreases it (the positions
   left in the chain, the blocks still wanted), while entry 0 is reserved;
2. that a step of a running call is always possible (some action of `CallStep`
   is not refused by its guards), so that only fairness is missing;
3. the number of steps a `Tools` command takes after each call;
4. what `fs_info` counts: free blocks and blocks of files add up to the volume
   while nothing is lost.

## Not modelled

- Host I/O that fails (`open`, `fstat`, `lseek`, `read`, `write`, `malloc`):
  the error returns behind it cannot be told from a process that dies, except
  for the descriptor kept after a failed `fstat`. The one kept after an odd size
  (`disk.c:60`) is in the model, as `stray`; no property is about it.
- Descriptors 32 to 127 (`fs.c:829` and the like): undefined behaviour outside
  of `open_files`.
- Calls other than `fs_umount` after a failed mount or, for `fs_ls`, without
  one (`fs.c:767`): they read null or freed tables.
- The part of `load_fat`'s buffer that is overrun, the first time with two FAT
  blocks and 2049 to 3071 data blocks, and the wrap of its size.
- What `fs_info` and `fs_ls` print; they change no state. What they count is
  `FreeBlocks` and `Live`.
- The formatting of messages, the tokens of a script line, the host files that
  `add` and scripts read.
- `fs_make.x` and `fs_ref.x`, binaries; what the former writes is an initial
  state. Scripts and build files.
