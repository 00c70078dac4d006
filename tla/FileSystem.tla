------------------------------ MODULE FileSystem ------------------------------
(***************************************************************************)
(* The file system library of libfs/fs.c as the state machine its callers  *)
(* drive: mounting and unmounting, the root directory, the table of open   *)
(* files, and the metadata side of reading and writing (which blocks a     *)
(* file owns, its size, the offsets).  The contents of the blocks are left *)
(* out; see module FileData.                                               *)
(*                                                                         *)
(* The library is single-threaded and keeps everything in global           *)
(* variables.  A call that runs no loop over a chain is one step.  A call  *)
(* that does is one step per iteration, its locals kept in call, and until *)
(* it returns no other call can begin.  What may intervene is the death of *)
(* the process (Kill): the FAT and the directory reach the disk only in    *)
(* fs_umount, so everything since the last one is then lost.               *)
(*                                                                         *)
(* A call that returns -1 without touching any state is a stuttering step  *)
(* and has no action here.                                                 *)
(***************************************************************************)
EXTENDS FatVolume, IoSegments

CONSTANTS
  NumFds,     (* FS_OPEN_MAX_COUNT, the slots of open_files.             *)
  OffsetMod,  (* The offset of a descriptor is a uint16_t: 2^16.         *)
  MaxCount,   (* Bound of the model on the count of a read or a write.   *)
  NULL        (* An empty slot of open_files.                            *)

FileDescriptor == [file: Files, offset: 0 .. OffsetMod - 1]

(* num_open_files is a uint8_t.                                            *)
CountMod == 256

(* What is left of a size_t stored in the offset of a descriptor.          *)
ToOffset(n) == n % OffsetMod

ASSUME NumFdsAssumption    == NumFds \in 1 .. CountMod - 2
ASSUME OffsetModAssumption == OffsetMod \in Nat \ {0}
ASSUME MaxCountAssumption  == MaxCount \in Nat
ASSUME NULLAssumption      == NULL \notin FileDescriptor

VARIABLES
  status,         (* is_disk_mounted, split by what fs_mount returned:
                     "mounted" after 0, "failed" when it returned -1 with
                     the flag already set, "unmounted" when it is clear.  *)
  fat,            (* The FAT in memory.  Neither it nor root is read while
                     unmounted; the model parks them at the disk's.       *)
  root,           (* The root directory in memory.                        *)
  open_files,     (* Slot |-> FileDescriptor or NULL.                     *)
  num_open_files, (* The counter kept beside open_files.                  *)
  disk,           (* The FAT blocks and the root block of the disk.       *)
  call            (* The call in progress: its loop and its locals.       *)

vars == <<status, fat, root, open_files, num_open_files, disk, call>>

Fds == 0 .. NumFds - 1

(* call.pc says which loop the call is in: "alloc" and "xfer" belong to    *)
(* fs_write, "free" to fs_delete, "saving" to fs_umount.  call.arg is the  *)
(* descriptor written to or the directory entry deleted, call.count the    *)
(* bytes asked for, call.block block_index and call.have the blocks        *)
(* counted so far (num_data_blocks of allocate_blocks_in_fat).             *)
Calls == [pc:    {"idle", "alloc", "xfer", "free", "saving"},
          arg:   Nat,
          count: 0 .. MaxCount,
          block: FatEntry,
          have:  Nat]

Idle == [pc |-> "idle", arg |-> 0, count |-> 0, block |-> 0, have |-> 0]

(* A library call can begin: the volume is mounted and no call is running. *)
Ready == status = "mounted" /\ call = Idle

(* is_disk_mounted, which a mount that failed leaves set.                  *)
FlaggedMounted == status # "unmounted" /\ call = Idle

IsOpen(fd)  == open_files[fd] # NULL
OpenFds     == {fd \in Fds : IsOpen(fd)}
NoneOpen    == [fd \in Fds |-> NULL]

(* find_matching_filename: the entry of that name, of which there is at    *)
(* most one (NamesDiffer).                                                 *)
Named(name) == {i \in Files : root[i].filename = name}

Least(S) == CHOOSE x \in S : \A y \in S : x =< y

(* The file a running write or delete works on.                            *)
Target(c) ==
  CASE c.pc \in {"alloc", "xfer"} -> {open_files[c.arg].file}
    [] c.pc = "free"              -> {c.arg}
    [] OTHER                      -> {}

-----------------------------------------------------------------------------
Init ==
  /\ status = "unmounted"
  /\ fat = FormattedFat
  /\ root = FormattedRoot
  /\ open_files = NoneOpen
  /\ num_open_files = 0
  /\ disk = [fat |-> FormattedFat, root |-> FormattedRoot]
  /\ call = Idle

(***************************************************************************)
(* fs_mount of the volume.  The superblock of a formatted volume is valid  *)
(* and constant, so the check left is the one of load_fat: entry 0 of the  *)
(* FAT must be FAT_EOC.  Slots are cleared, num_open_files is not.  The    *)
(* faulty variant clears neither.                                          *)
(***************************************************************************)
MountKeepsSlots ==
  /\ status = "unmounted" /\ call = Idle
  /\ disk.fat[0] = FAT_EOC
  /\ status' = "mounted"
  /\ fat' = disk.fat
  /\ root' = disk.root
  /\ UNCHANGED <<open_files, num_open_files, disk, call>>

MountOk ==
  /\ status = "unmounted" /\ call = Idle
  /\ disk.fat[0] = FAT_EOC
  /\ status' = "mounted"
  /\ fat' = disk.fat
  /\ root' = disk.root
  /\ open_files' = NoneOpen
  /\ UNCHANGED <<num_open_files, disk, call>>

(* load_fat gives up after load_disk has set is_disk_mounted.              *)
MountFails ==
  /\ status = "unmounted" /\ call = Idle
  /\ disk.fat[0] # FAT_EOC
  /\ status' = "failed"
  /\ fat' = disk.fat
  /\ UNCHANGED <<root, open_files, num_open_files, disk, call>>

(***************************************************************************)
(* fs_umount writes the FAT blocks, then the root block.  Open files do    *)
(* not stop it: the test on num_open_files has an empty body.  The faulty  *)
(* variant begins with the root block.                                     *)
(***************************************************************************)
UmountRootFirst ==
  /\ Ready
  /\ disk' = [disk EXCEPT !.root = root]
  /\ call' = [Idle EXCEPT !.pc = "saving"]
  /\ UNCHANGED <<status, fat, root, open_files, num_open_files>>

Umount ==
  /\ Ready
  /\ disk' = [disk EXCEPT !.fat = fat]
  /\ call' = [Idle EXCEPT !.pc = "saving"]
  /\ UNCHANGED <<status, fat, root, open_files, num_open_files>>

UmountRoot ==
  /\ call.pc = "saving"
  /\ disk' = [disk EXCEPT !.root = root]
  /\ status' = "unmounted"
  /\ call' = Idle
  /\ UNCHANGED <<fat, root, open_files, num_open_files>>

-----------------------------------------------------------------------------
(* fs_create takes the first empty entry and resets all of it.  The faulty *)
(* variant keeps the first_index it finds there.                           *)
CreateKeepsIndex(name) ==
  /\ Ready
  /\ Named(name) = {}
  /\ Named(NoName) # {}
  /\ root' = [root EXCEPT ![Least(Named(NoName))] =
       [filename |-> name, file_size |-> 0, first_index |-> @.first_index]]
  /\ UNCHANGED <<status, fat, open_files, num_open_files, disk, call>>

Create(name) ==
  /\ Ready
  /\ Named(name) = {}
  /\ Named(NoName) # {}
  /\ root' = [root EXCEPT ![Least(Named(NoName))] =
       [filename |-> name, file_size |-> 0, first_index |-> FAT_EOC]]
  /\ UNCHANGED <<status, fat, open_files, num_open_files, disk, call>>

(***************************************************************************)
(* fs_delete compares the name with that of every open file, then frees    *)
(* the chain.  The loop clears an entry before it reads the next index     *)
(* from that same entry, so after its first iteration block_index is 0.    *)
(*                                                                         *)
(* Faulty variants: DeletableAlways forgets the open files, FreeBlockStays *)
(* never advances block_index, and FreeLastForgets leaves the entry of the *)
(* last block as it is.                                                    *)
(***************************************************************************)
DeletedFile == [filename |-> NoName, file_size |-> 0, first_index |-> FAT_EOC]

DeletableAlways(name, i) == Ready /\ i \in Named(name)

Deletable(name, i) ==
  /\ Ready
  /\ i \in Named(name)
  /\ \A fd \in OpenFds : root[open_files[fd].file].filename # name

DeleteEmpty(name) == \E i \in Files :
  /\ Deletable(name, i)
  /\ root[i].first_index = FAT_EOC
  /\ root' = [root EXCEPT ![i] = DeletedFile]
  /\ UNCHANGED <<status, fat, open_files, num_open_files, disk, call>>

Delete(name) == \E i \in Files :
  /\ Deletable(name, i)
  /\ root[i].first_index # FAT_EOC
  /\ call' = [Idle EXCEPT !.pc = "free", !.arg = i, !.block = root[i].first_index]
  /\ UNCHANGED <<status, fat, root, open_files, num_open_files, disk>>

FreeBlockStays ==
  /\ call.pc = "free"
  /\ fat[call.block] # FAT_EOC
  /\ fat' = [fat EXCEPT ![call.block] = 0]
  /\ UNCHANGED <<status, root, open_files, num_open_files, disk, call>>

FreeBlock ==
  /\ call.pc = "free"
  /\ fat[call.block] # FAT_EOC
  /\ fat' = [fat EXCEPT ![call.block] = 0]
  /\ call' = [call EXCEPT !.block = fat'[call.block]]
  /\ UNCHANGED <<status, root, open_files, num_open_files, disk>>

FreeLastForgets ==
  /\ call.pc = "free"
  /\ fat[call.block] = FAT_EOC
  /\ root' = [root EXCEPT ![call.arg] = DeletedFile]
  /\ call' = Idle
  /\ UNCHANGED <<status, fat, open_files, num_open_files, disk>>

FreeLast ==
  /\ call.pc = "free"
  /\ fat[call.block] = FAT_EOC
  /\ fat' = [fat EXCEPT ![call.block] = 0]
  /\ root' = [root EXCEPT ![call.arg] = DeletedFile]
  /\ call' = Idle
  /\ UNCHANGED <<status, open_files, num_open_files, disk>>

-----------------------------------------------------------------------------
(* add_file_to_fd_array tests the counter, with > where the 32 slots would *)
(* call for >=, and then searches for an empty slot.                       *)
AddFile(i) ==
  /\ num_open_files <= NumFds
  /\ OpenFds # Fds
  /\ open_files' = [open_files EXCEPT ![Least(Fds \ OpenFds)] =
       [file |-> i, offset |-> 0]]
  /\ num_open_files' = (num_open_files + 1) % CountMod

Open(name) == \E i \in Named(name) :
  /\ Ready
  /\ AddFile(i)
  /\ UNCHANGED <<status, fat, root, disk, call>>

(* fs_close asks for nothing but is_disk_mounted and a slot in use.  The   *)
(* faulty variant leaves the slot as it is.                                *)
CloseKeepsSlot(fd) ==
  /\ FlaggedMounted
  /\ IsOpen(fd)
  /\ num_open_files' = (num_open_files - 1) % CountMod
  /\ UNCHANGED <<status, fat, root, open_files, disk, call>>

Close(fd) ==
  /\ FlaggedMounted
  /\ IsOpen(fd)
  /\ open_files' = [open_files EXCEPT ![fd] = NULL]
  /\ num_open_files' = (num_open_files - 1) % CountMod
  /\ UNCHANGED <<status, fat, root, disk, call>>

(* The offset asked for is a size_t, the one kept a uint16_t.              *)
Lseek(fd, offset) ==
  /\ Ready
  /\ IsOpen(fd)
  /\ offset <= root[open_files[fd].file].file_size
  /\ open_files' = [open_files EXCEPT ![fd].offset = ToOffset(offset)]
  /\ UNCHANGED <<status, fat, root, num_open_files, disk, call>>

(***************************************************************************)
(* fs_read advances the offset only when every block it asks for is in the *)
(* chain.  It returns early, the offset untouched, when the chain ends     *)
(* first; a count of 0 leaves the offset alone whatever it returns.        *)
(***************************************************************************)
Read(fd, count) ==
  LET offset == open_files[fd].offset
      first  == root[open_files[fd].file].first_index
  IN
  /\ Ready
  /\ IsOpen(fd)
  /\ count > 0
  /\ find_data_block(fat, first, find_num_target_blocks(offset, count) - 1) # FAT_EOC
  /\ open_files' = [open_files EXCEPT ![fd].offset = ToOffset(offset + count)]
  /\ UNCHANGED <<status, fat, root, num_open_files, disk, call>>

-----------------------------------------------------------------------------
(***************************************************************************)
(* fs_write.  allocate_blocks_in_fat gives a file without blocks its first *)
(* one, walks to the end of the chain, and extends it until it has         *)
(* num_target_blocks blocks or no entry is free; its result is ignored.    *)
(* Then the data is transferred block by block.  MaxSize only bounds the   *)
(* model.                                                                  *)
(***************************************************************************)
Writable(fd, count) ==
  /\ Ready
  /\ IsOpen(fd)
  /\ count > 0
  /\ root[open_files[fd].file].file_size + count <= MaxSize

InCall(pc, fd, count, block) ==
  [pc |-> pc, arg |-> fd, count |-> count, block |-> block, have |-> 1]

Write(fd, count) ==
  LET first == root[open_files[fd].file].first_index IN
  /\ Writable(fd, count)
  /\ first # FAT_EOC
  /\ call' = InCall("alloc", fd, count, first)
  /\ UNCHANGED <<status, fat, root, open_files, num_open_files, disk>>

WriteFirstBlock(fd, count) ==
  LET i     == open_files[fd].file
      block == Least(FreeBlocks(fat))
  IN
  /\ Writable(fd, count)
  /\ root[i].first_index = FAT_EOC
  /\ FreeBlocks(fat) # {}
  /\ fat' = [fat EXCEPT ![block] = FAT_EOC]
  /\ root' = [root EXCEPT ![i].first_index = block]
  /\ call' = InCall("alloc", fd, count, block)
  /\ UNCHANGED <<status, open_files, num_open_files, disk>>

(* No block for a file that has none: the transfer finds nothing to write  *)
(* to and fs_write returns 0.                                              *)
WriteNoBlock(fd, count) ==
  /\ Writable(fd, count)
  /\ root[open_files[fd].file].first_index = FAT_EOC
  /\ FreeBlocks(fat) = {}
  /\ call' = InCall("xfer", fd, count, FAT_EOC)
  /\ UNCHANGED <<status, fat, root, open_files, num_open_files, disk>>

TargetBlocks == find_num_target_blocks(open_files[call.arg].offset, call.count)

Walk ==
  /\ call.pc = "alloc"
  /\ fat[call.block] # FAT_EOC
  /\ call' = [call EXCEPT !.block = fat[call.block], !.have = @ + 1]
  /\ UNCHANGED <<status, fat, root, open_files, num_open_files, disk>>

(* Adds a block after the last one.  Faulty variants: ExtendFromHead links *)
(* the first block of the file to it, ExtendPastFree the last block to the *)
(* index at which the search for a free one goes on.                       *)
ExtendFromHead ==
  LET block == Least(FreeBlocks(fat))
      first == root[open_files[call.arg].file].first_index
  IN
  /\ call.pc = "alloc"
  /\ fat[call.block] = FAT_EOC
  /\ call.have < TargetBlocks
  /\ FreeBlocks(fat) # {}
  /\ fat' = [fat EXCEPT ![first] = block, ![block] = FAT_EOC]
  /\ call' = [call EXCEPT !.block = block, !.have = @ + 1]
  /\ UNCHANGED <<status, root, open_files, num_open_files, disk>>

ExtendPastFree ==
  LET block == Least(FreeBlocks(fat)) IN
  /\ call.pc = "alloc"
  /\ fat[call.block] = FAT_EOC
  /\ call.have < TargetBlocks
  /\ FreeBlocks(fat) # {}
  /\ fat' = [fat EXCEPT ![call.block] = block + 1, ![block] = FAT_EOC]
  /\ call' = [call EXCEPT !.block = block, !.have = @ + 1]
  /\ UNCHANGED <<status, root, open_files, num_open_files, disk>>

Extend ==
  LET block == Least(FreeBlocks(fat)) IN
  /\ call.pc = "alloc"
  /\ fat[call.block] = FAT_EOC
  /\ call.have < TargetBlocks
  /\ FreeBlocks(fat) # {}
  /\ fat' = [fat EXCEPT ![call.block] = block, ![block] = FAT_EOC]
  /\ call' = [call EXCEPT !.block = block, !.have = @ + 1]
  /\ UNCHANGED <<status, root, open_files, num_open_files, disk>>

(* The chain is long enough, or no entry is free.  The faulty variant is   *)
(* content with one block less.                                            *)
AllocatedOneShort ==
  /\ call.pc = "alloc"
  /\ fat[call.block] = FAT_EOC
  /\ call.have + 1 >= TargetBlocks \/ FreeBlocks(fat) = {}
  /\ call' = [call EXCEPT !.pc = "xfer"]
  /\ UNCHANGED <<status, fat, root, open_files, num_open_files, disk>>

Allocated ==
  /\ call.pc = "alloc"
  /\ fat[call.block] = FAT_EOC
  /\ call.have >= TargetBlocks \/ FreeBlocks(fat) = {}
  /\ call' = [call EXCEPT !.pc = "xfer"]
  /\ UNCHANGED <<status, fat, root, open_files, num_open_files, disk>>

(* The last block the transfer of the running write needs.                 *)
LastBlock ==
  find_data_block(fat, root[open_files[call.arg].file].first_index, TargetBlocks - 1)

(* The whole count is written: offset and size both grow by it.            *)
WriteAll ==
  /\ call.pc = "xfer"
  /\ LastBlock # FAT_EOC
  /\ open_files' = [open_files EXCEPT ![call.arg].offset = ToOffset(@ + call.count)]
  /\ root' = [root EXCEPT ![open_files[call.arg].file].file_size = @ + call.count]
  /\ call' = Idle
  /\ UNCHANGED <<status, fat, num_open_files, disk>>

(* The chain ends first: fs_write returns what it has written so far,      *)
(* before the statements that advance the offset and the size.             *)
WriteShort ==
  /\ call.pc = "xfer"
  /\ LastBlock = FAT_EOC
  /\ call' = Idle
  /\ UNCHANGED <<status, fat, root, open_files, num_open_files, disk>>

-----------------------------------------------------------------------------
(***************************************************************************)
(* The process ends without fs_umount: it exits on an error, its time runs *)
(* out, it is stuck in a call.  The next process starts from the disk.     *)
(* Spec excludes the one moment at which the disk is half written;         *)
(* CrashSpec allows it.                                                    *)
(***************************************************************************)
Kill ==
  /\ status' = "unmounted"
  /\ fat' = disk.fat
  /\ root' = disk.root
  /\ open_files' = NoneOpen
  /\ num_open_files' = 0
  /\ call' = Idle
  /\ UNCHANGED disk

Caller ==
  \/ MountOk \/ MountFails \/ Umount
  \/ \E name \in Names : Create(name) \/ DeleteEmpty(name) \/ Delete(name) \/ Open(name)
  \/ \E fd \in Fds :
       \/ Close(fd)
       \/ \E offset \in 0 .. MaxSize : Lseek(fd, offset)
       \/ \E count \in 1 .. MaxCount :
            \/ Read(fd, count)
            \/ Write(fd, count) \/ WriteFirstBlock(fd, count) \/ WriteNoBlock(fd, count)

(* The steps of a call that has begun.                                     *)
CallStep ==
  \/ UmountRoot
  \/ FreeBlock \/ FreeLast
  \/ Walk \/ Extend \/ Allocated
  \/ WriteAll \/ WriteShort

Next == Caller \/ CallStep \/ (call.pc # "saving" /\ Kill)

Spec      == Init /\ [][Next]_vars
CrashSpec == Init /\ [][Next \/ Kill]_vars

(* A call runs on the caller's thread and yields to nobody.                *)
FairSpec  == Spec /\ WF_vars(CallStep)

-----------------------------------------------------------------------------
(***************************************************************************)
(* What the file system promises.                                          *)
(***************************************************************************)
TypeOK ==
  /\ status \in {"unmounted", "mounted", "failed"}
  /\ fat \in Fat
  /\ root \in Root
  /\ open_files \in [Fds -> FileDescriptor \union {NULL}]
  /\ num_open_files \in 0 .. CountMod - 1
  /\ disk \in [fat: Fat, root: Root]
  /\ call \in Calls

(* The files whose chain is intact: all in use, but for one fs_delete is   *)
(* taking apart.                                                           *)
Intact == Live(root) \ (IF call.pc = "free" THEN Target(call) ELSE {})

(* While the volume is mounted, and between the loops of every call, each  *)
(* file's chain ends and no block is in two files (the walks in            *)
(* allocate_blocks_in_fat and find_data_block rely on the first, every     *)
(* read and write on the second).                                          *)
ChainsIntact == status = "mounted" => ChainIntegrity(fat, root, Intact)

(* The same, entry by entry, in memory and on the disk.  The disk is left  *)
(* out while fs_umount is between its two writes.                          *)
VolumesSound ==
  /\ status = "mounted" => VolumeSound(fat, root, Intact)
  /\ call.pc # "saving" => VolumeSound(disk.fat, disk.root, Live(disk.root))

(* fs_umount writes the FAT before the root block.  A process that dies in *)
(* between leaves the new FAT under the old directory; that is still a     *)
(* volume whenever every file of the old directory still exists and starts *)
(* at the block it started at, or had none.                                *)
KeepsOldFiles == \A i \in Live(disk.root) :
  /\ i \in Live(root)
  /\ disk.root[i].first_index \in {FAT_EOC, root[i].first_index}

TornSaveSound ==
  call.pc = "saving" /\ KeepsOldFiles =>
    VolumeSound(disk.fat, disk.root, Live(disk.root))

(* fs_delete loses no block as long as the reserved entry of the FAT has   *)
(* not been overwritten: every allocated block belongs to a file.          *)
NoLossWhileReserved ==
  Ready /\ fat[0] = FAT_EOC => LostBlocks(fat, root) = {}

(* fs_delete turns down an open file by comparing names; since no two      *)
(* files share one, no descriptor is ever left on an empty entry.          *)
OpenFilesExist ==
  /\ NamesDiffer(root) /\ NamesDiffer(disk.root)
  /\ status = "mounted" => \A fd \in OpenFds : open_files[fd].file \in Live(root)

(* num_open_files, which fs_mount forgets to reset, never falls below the  *)
(* number of descriptors in use and never wraps around its 8 bits.         *)
OpenCountBounds ==
  /\ Cardinality(OpenFds) <= num_open_files
  /\ num_open_files <= NumFds + 1

(* A write that cannot transfer everything has left no block free: it      *)
(* writes as many bytes as possible.                                       *)
ShortWriteOnlyWhenFull ==
  call.pc = "xfer" /\ LastBlock = FAT_EOC => FreeBlocks(fat) = {}

(* A call on one file leaves the chains of all others as they were, and a  *)
(* write only ever appends to the chain of its own.                        *)
ChainsStable ==
  [][status = "mounted" /\ status' = "mounted" =>
       \A i \in Intact \intersect Intact' : \A n \in 0 .. NumBlocks - 1 :
         LET before == ChainOf(fat, root, i)
             after  == (ChainOf(fat, root, i))'
         IN  after[n] = before[n] \/ (before[n] = FAT_EOC /\ i \in Target(call)')]_vars

(* A call that has begun returns: allocation and unmounting always,        *)
(* deletion while the reserved entry is intact.                            *)
CallsReturn ==
  (call.pc \in {"alloc", "xfer", "saving"} \/ (call.pc = "free" /\ fat[0] = FAT_EOC))
    ~> (call = Idle)

-----------------------------------------------------------------------------
(***************************************************************************)
(* The strengthenings that make the invariants inductive: what the calls   *)
(* in progress know between two iterations.  The first two hold whenever   *)
(* the process dies, the third unless it dies in fs_umount.                *)
(***************************************************************************)
CallTyped ==
  /\ call.pc \in {"alloc", "xfer"} =>
       /\ call.arg \in Fds
       /\ IsOpen(call.arg)
       /\ root[open_files[call.arg].file].file_size + call.count <= MaxSize
  /\ call.pc = "free" => call.arg \in Files
  /\ call.pc \in {"alloc", "free"} => call.block \in Blocks

TypeInv == TypeOK /\ CallTyped

DescriptorInv ==
  /\ OpenFilesExist
  /\ call.pc # "idle" => status = "mounted"
  /\ call.pc = "free" =>
       /\ call.arg \in Live(root)
       /\ \A fd \in OpenFds : open_files[fd].file # call.arg

(* An allocation is at a block of a chain; a deletion is at the first      *)
(* block of a file that is still whole, or past it, at block 0.            *)
VolumeInv ==
  /\ VolumesSound
  /\ call.pc = "alloc" => call.block \in DataBlocks /\ fat[call.block] # 0
  /\ call.pc = "free" /\ call.block # 0 =>
       /\ call.block # FAT_EOC
       /\ call.block = root[call.arg].first_index
       /\ VolumeSound(fat, root, Live(root))
  /\ call.pc = "saving" => disk.fat = fat

(* An allocation has counted the blocks of its file up to the one it is    *)
(* at, and a transfer that will fall short has left no block free.         *)
WriteInv ==
  /\ call.pc = "alloc" =>
       /\ call.count > 0 /\ call.have > 0
       /\ call.block = find_data_block(fat, root[open_files[call.arg].file].first_index,
                                       call.have - 1)
  /\ ShortWriteOnlyWhenFull

(* No block is lost, in memory or on the disk, while entry 0 is reserved.  *)
(* A deletion that has left a chain behind is about to overwrite it.       *)
LossInv ==
  /\ status = "mounted" /\ fat[0] = FAT_EOC /\ ~(call.pc = "free" /\ call.block = 0) =>
       LostBlocks(fat, root) = {}
  /\ call.pc # "saving" /\ disk.fat[0] = FAT_EOC =>
       LostBlocks(disk.fat, disk.root) = {}

-----------------------------------------------------------------------------
(***************************************************************************)
(* What the documentation says and the code does not do.                   *)
(***************************************************************************)

(* README.md, on deleting: "frees all blocks associated with it, clear the *)
(* FAT of all its data blocks".                                            *)
NoBlockLost == Ready => LostBlocks(fat, root) = {}

(* fs.h, fs_delete: "-1 if [...]. 0 otherwise": a deletion returns.        *)
DeleteReturns == (call.pc = "free") ~> (call = Idle)

(* fs.h, fs_open: "-1 if [...] there are already %FS_OPEN_MAX_COUNT files  *)
(* currently open.  Otherwise, return the file descriptor": a slot that is *)
(* free can be had.  It would be so if fs_umount did as fs.h says of it    *)
(* ("-1 if [...] there are still open file descriptors"); but it saves and *)
(* closes, and the counter keeps the files that were open.                 *)
RoomToOpen == Ready /\ OpenFds # Fds => num_open_files <= NumFds

(* fs.h, fs_lseek: "Set the file offset [...] to the argument @offset".    *)
SeekGoesToOffset ==
  [][\A fd \in Fds, offset \in 0 .. MaxSize :
       Lseek(fd, offset) => open_files'[fd].offset = offset]_vars

=============================================================================
