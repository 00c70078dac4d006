----------------------------- MODULE FileChainProofs -----------------------------
(***************************************************************************)
(* What FileSystem promises of whole chains: that they end and do not      *)
(* meet, that a call changes no chain but its own, that a write falls      *)
(* short only on a full volume, and that no allocated block is lost while  *)
(* the reserved entry of the FAT is intact.                                *)
(***************************************************************************)
EXTENDS FileSystemProofs, IoSegmentsProofs

(* The block at a position of a file.                                      *)
BlockAt(i, n) == find_data_block(fat, root[i].first_index, n)

LEMMA MountedVolume ==
  ASSUME VolumeSpecInv
  PROVE  /\ fat \in Fat /\ root \in Root /\ call \in Calls
         /\ open_files \in [Fds -> FileDescriptor \union {NULL}]
         /\ Live(root) \subseteq Files /\ Intact \subseteq Live(root)
         /\ status = "mounted" => VolumeSound(fat, root, Intact)
         /\ call.pc # "idle" => status = "mounted"
         /\ call.pc # "free" => Intact = Live(root)
BY IntactFiles
DEF VolumeSpecInv, TypeInv, TypeOK, DescriptorInv, VolumeInv, VolumesSound, Live, Intact

(* Every walk of allocate_blocks_in_fat and find_data_block comes to an    *)
(* end, and no two files share a block, on every mounted volume and        *)
(* between any two steps of a call.                                        *)
THEOREM ChainsCorrect == Spec => []ChainsIntact
<1>1. VolumeSpecInv => ChainsIntact
  BY MountedVolume, SoundIsIntegral DEF ChainsIntact
<1> QED
  BY VolumeInvariant, <1>1, PTL

(* The file a running write belongs to.                                    *)
LEMMA WrittenFile ==
  ASSUME VolumeSpecInv, call.pc \in {"alloc", "xfer"}
  PROVE  /\ call.arg \in Fds /\ open_files[call.arg] \in FileDescriptor
         /\ open_files[call.arg].file \in Live(root)
         /\ Intact = Live(root)
         /\ status = "mounted" /\ VolumeSound(fat, root, Intact)
<1>1. /\ call.arg \in Fds /\ IsOpen(call.arg) /\ call.pc # "free" /\ call.pc # "idle"
      /\ open_files \in [Fds -> FileDescriptor \union {NULL}]
  BY DEF VolumeSpecInv, TypeInv, TypeOK, CallTyped
<1>2. status = "mounted"
  BY <1>1, MountedVolume
<1>3. call.arg \in OpenFds /\ open_files[call.arg] \in FileDescriptor
  BY <1>1 DEF OpenFds, IsOpen
<1>4. open_files[call.arg].file \in Live(root)
  BY <1>2, <1>3 DEF VolumeSpecInv, DescriptorInv, OpenFilesExist
<1> QED
  BY <1>1, <1>2, <1>3, <1>4, MountedVolume

(* The file a descriptor refers to when a call begins.                     *)
LEMMA OpenFile ==
  ASSUME VolumeSpecInv, Ready, NEW fd \in Fds, IsOpen(fd)
  PROVE  /\ open_files[fd] \in FileDescriptor
         /\ open_files[fd].file \in Live(root)
         /\ Intact = Live(root) /\ VolumeSound(fat, root, Intact)
<1>1. fd \in OpenFds /\ status = "mounted" /\ call.pc # "free"
  BY DEF OpenFds, Ready, Idle
<1>2. open_files[fd] \in FileDescriptor
  BY MountedVolume DEF IsOpen
<1>3. open_files[fd].file \in Live(root)
  BY <1>1 DEF VolumeSpecInv, DescriptorInv, OpenFilesExist
<1> QED
  BY <1>1, <1>2, <1>3, MountedVolume

(* Linking a free block behind the one an allocation is at.                *)
LEMMA ExtendChains ==
  ASSUME VolumeSpecInv, WriteInv, Extend
  PROVE  LET i == open_files[call.arg].file
             block == Least(FreeBlocks(fat))
         IN
         /\ \A j \in Live(root) \ {i}, n \in Nat :
              find_data_block(fat', root[j].first_index, n) = BlockAt(j, n)
         /\ call.have > 0
         /\ \A n \in 0 .. call.have - 1 :
              find_data_block(fat', root[i].first_index, n) = BlockAt(i, n)
         /\ \A n \in Nat : n >= call.have => BlockAt(i, n) = FAT_EOC
         /\ find_data_block(fat', root[i].first_index, call.have) = block
         /\ \A n \in Nat : n > call.have =>
              find_data_block(fat', root[i].first_index, n) = FAT_EOC
<1> DEFINE i == open_files[call.arg].file
           block == Least(FreeBlocks(fat))
           last == call.block
           have == call.have
<1>1. /\ call.pc = "alloc" /\ fat[last] = FAT_EOC /\ FreeBlocks(fat) # {}
      /\ fat' = [fat EXCEPT ![last] = block, ![block] = FAT_EOC]
  BY DEF Extend
<1>2. i \in Live(root) /\ Intact = Live(root) /\ VolumeSound(fat, root, Live(root))
  BY <1>1, WrittenFile
<1>3. fat \in Fat /\ have \in Nat /\ have > 0 /\ have - 1 \in Nat
  BY <1>1, MountedVolume DEF Calls, WriteInv
<1>4. last \in DataBlocks /\ BlockAt(i, have - 1) = last
  BY <1>1 DEF VolumeSpecInv, VolumeInv, WriteInv, BlockAt
<1>5. block \in DataBlocks /\ fat[block] = 0
  BY <1>1, <1>3, FreeBlockIsData
<1> HIDE DEF i, block, last, have
<1>6. /\ fat'[block] = FAT_EOC /\ fat'[last] = block
      /\ \A b \in Blocks : b # block /\ b # last => fat'[b] = fat[b]
  BY <1>1, <1>3, <1>4, <1>5, BlockFacts DEF Fat
<1>7. ASSUME NEW j \in Live(root) \ {i}, NEW n \in Nat
      PROVE  find_data_block(fat', root[j].first_index, n) = BlockAt(j, n)
  <2>1. \A b \in DataBlocks : fat[b] # 0 =>
          \/ fat'[b] = fat[b]
          \/ \E k \in Live(root) \ {j}, m \in Nat :
               find_data_block(fat, root[k].first_index, m) = b
    BY <1>2, <1>3, <1>4, <1>5, <1>6, BlockFacts DEF BlockAt
  <2> QED
    BY <1>2, <1>3, <2>1, ChainUntouched DEF BlockAt
<1>8. PICK p \in Nat : p = have - 1
  BY <1>3
<1>9. /\ p + 1 = have
      /\ \A k \in 0 .. p : find_data_block(fat', root[i].first_index, k) = BlockAt(i, k)
      /\ find_data_block(fat', root[i].first_index, p + 1) = block
      /\ \A k \in Nat : k > p + 1 =>
           find_data_block(fat', root[i].first_index, k) = FAT_EOC
  <2>1. find_data_block(fat, root[i].first_index, p) = last /\ fat[last] = FAT_EOC
    BY <1>1, <1>4, <1>8 DEF BlockAt
  <2>2. p + 1 = have
    BY <1>3, <1>8
  <2> QED
    BY <1>2, <1>3, <1>4, <1>5, <1>6, <2>1, <2>2, ChainExtended DEF BlockAt
<1>10. BlockAt(i, have) = FAT_EOC
  BY <1>1, <1>4, <1>8, <1>9, FindNext, BlockFacts DEF BlockAt, NextInChain
<1>11. \A n \in Nat : n >= have => BlockAt(i, n) = FAT_EOC
  BY <1>3, <1>10, ChainEnded DEF BlockAt
<1> QED
  BY <1>3, <1>7, <1>8, <1>9, <1>11 DEF i, block, have

(* A first block for a file that has none.                                 *)
LEMMA FirstBlockChains ==
  ASSUME VolumeSpecInv, NEW fd \in Fds, NEW count, WriteFirstBlock(fd, count)
  PROVE  LET i == open_files[fd].file
             block == Least(FreeBlocks(fat))
         IN
         /\ \A j \in Live(root) \ {i}, n \in Nat :
              find_data_block(fat', root'[j].first_index, n) = BlockAt(j, n)
         /\ \A n \in Nat : BlockAt(i, n) = FAT_EOC
         /\ find_data_block(fat', root'[i].first_index, 0) = block
         /\ \A n \in Nat \ {0} : find_data_block(fat', root'[i].first_index, n) = FAT_EOC
<1> DEFINE i == open_files[fd].file
           block == Least(FreeBlocks(fat))
<1>1. /\ Ready /\ IsOpen(fd)
      /\ root[i].first_index = FAT_EOC
      /\ FreeBlocks(fat) # {}
      /\ fat' = [fat EXCEPT ![block] = FAT_EOC]
      /\ root' = [root EXCEPT ![i].first_index = block]
  BY DEF WriteFirstBlock, Writable
<1>2. /\ i \in Live(root) /\ Live(root) \subseteq Files /\ VolumeSound(fat, root, Live(root))
      /\ fat \in Fat /\ root \in Root
  BY <1>1, OpenFile, MountedVolume
<1>3. block \in DataBlocks /\ fat[block] = 0
  BY <1>1, <1>2, FreeBlockIsData
<1> HIDE DEF i, block
<1>4. fat'[block] = FAT_EOC /\ \A b \in Blocks : b # block => fat'[b] = fat[b]
  BY <1>1, <1>2, <1>3, BlockFacts DEF Fat
<1>5. root'[i].first_index = block /\ \A j \in Files : j # i => root'[j] = root[j]
  BY <1>1, <1>2 DEF Root, File
<1>6. ASSUME NEW j \in Live(root) \ {i}, NEW n \in Nat
      PROVE  find_data_block(fat', root'[j].first_index, n) = BlockAt(j, n)
  <2>1. \A b \in DataBlocks : fat[b] # 0 => fat'[b] = fat[b]
    BY <1>3, <1>4, BlockFacts
  <2>2. root'[j].first_index = root[j].first_index
    BY <1>2, <1>5
  <2> QED
    BY <1>2, <2>1, <2>2, ChainUntouched DEF BlockAt
<1>7. \A n \in Nat : BlockAt(i, n) = FAT_EOC
  BY <1>1, EmptyChain DEF BlockAt
<1>8. find_data_block(fat', root'[i].first_index, 0) = block
  BY <1>5, FindFirst
<1>9. find_data_block(fat', root'[i].first_index, 0 + 1) = FAT_EOC
  BY <1>3, <1>4, <1>8, FindNext, BlockFacts DEF NextInChain
<1>10. \A n \in Nat \ {0} : find_data_block(fat', root'[i].first_index, n) = FAT_EOC
  BY <1>9, ChainEnded
<1> QED
  BY <1>6, <1>7, <1>8, <1>10 DEF i, block

(* Each turn of the loop of fs_delete clears the first block of the        *)
(* deleted file or the reserved entry.                                     *)
LEMMA FreedChains ==
  ASSUME VolumeSpecInv, FreeBlock \/ FreeLast
  PROVE  \A j \in Live(root) \ {call.arg}, n \in Nat :
           find_data_block(fat', root[j].first_index, n) = BlockAt(j, n)
<1>1. /\ call.pc = "free" /\ fat' = [fat EXCEPT ![call.block] = 0]
  BY DEF FreeBlock, FreeLast
<1>2. call.block \in Blocks /\ call.arg \in Live(root) /\ fat \in Fat
  BY <1>1, MountedVolume DEF VolumeSpecInv, TypeInv, CallTyped, DescriptorInv
<1>3. \A b \in Blocks : b # call.block => fat'[b] = fat[b]
  BY <1>1, <1>2 DEF Fat
<1>4. CASE call.block = 0
  <2>1. VolumeSound(fat, root, Intact) /\ Intact = Live(root) \ {call.arg}
    BY <1>1, MountedVolume, IntactFiles
  <2>2. \A b \in DataBlocks : fat[b] # 0 => fat'[b] = fat[b]
    BY <1>3, <1>4, BlockFacts
  <2> QED
    BY <1>2, <2>1, <2>2, ChainUntouched DEF BlockAt
<1>5. CASE call.block # 0
  <2>1. /\ call.block = root[call.arg].first_index
        /\ VolumeSound(fat, root, Live(root))
    BY <1>1, <1>5 DEF VolumeSpecInv, VolumeInv
  <2>2. find_data_block(fat, root[call.arg].first_index, 0) = call.block
    BY <2>1, FindFirst
  <2>3. ASSUME NEW j \in Live(root) \ {call.arg}, NEW n \in Nat
        PROVE  find_data_block(fat', root[j].first_index, n) = BlockAt(j, n)
    <3>1. \A b \in DataBlocks : fat[b] # 0 =>
            \/ fat'[b] = fat[b]
            \/ \E k \in Live(root) \ {j}, m \in Nat :
                 find_data_block(fat, root[k].first_index, m) = b
      BY <1>2, <1>3, <2>2, BlockFacts
    <3> QED
      BY <1>2, <2>1, <3>1, ChainUntouched DEF BlockAt
  <2> QED
    BY <2>3
<1> QED
  BY <1>4, <1>5

-----------------------------------------------------------------------------
(***************************************************************************)
(* What an allocation knows of its own progress.                           *)
(***************************************************************************)
LEMMA WriteInit == Init => WriteInv
BY DEF Init, Idle, WriteInv, ShortWriteOnlyWhenFull

LEMMA WriteStep ==
  VolumeSpecInv /\ WriteInv /\ [Next]_vars => WriteInv'
<1> SUFFICES ASSUME VolumeSpecInv, WriteInv, [Next]_vars
             PROVE  WriteInv'
  OBVIOUS
<1>1. CASE call'.pc \notin {"alloc", "xfer"}
  BY <1>1 DEF WriteInv, ShortWriteOnlyWhenFull
<1>2. CASE \E fd \in Fds, count \in 1 .. MaxCount : Write(fd, count)
  <2>1. PICK fd \in Fds, count \in 1 .. MaxCount : Write(fd, count)
    BY <1>2
  <2>2. /\ call'.pc = "alloc" /\ call'.arg = fd /\ call'.count = count /\ call'.have = 1
        /\ call'.block = root[open_files[fd].file].first_index
        /\ UNCHANGED <<fat, root, open_files>>
    BY <2>1 DEF Write, InCall
  <2>3. BlockAt(open_files[fd].file, 0) = call'.block
    BY <2>2, FindFirst DEF BlockAt
  <2> QED
    BY <2>2, <2>3 DEF WriteInv, ShortWriteOnlyWhenFull, BlockAt
<1>3. CASE \E fd \in Fds, count \in 1 .. MaxCount : WriteFirstBlock(fd, count)
  <2>1. PICK fd \in Fds, count \in 1 .. MaxCount : WriteFirstBlock(fd, count)
    BY <1>3
  <2>2. /\ call'.pc = "alloc" /\ call'.arg = fd /\ call'.count = count /\ call'.have = 1
        /\ call'.block = Least(FreeBlocks(fat))
        /\ open_files' = open_files
    BY <2>1 DEF WriteFirstBlock, InCall
  <2>3. find_data_block(fat', root'[open_files[fd].file].first_index, 0) = call'.block
    BY <2>1, <2>2, FirstBlockChains
  <2> QED
    BY <2>2, <2>3 DEF WriteInv, ShortWriteOnlyWhenFull
<1>4. CASE \E fd \in Fds, count \in 1 .. MaxCount : WriteNoBlock(fd, count)
  BY <1>4 DEF WriteNoBlock, InCall, WriteInv, ShortWriteOnlyWhenFull, FreeBlocks
<1>5. CASE Walk
  <2>1. /\ call.pc = "alloc" /\ fat[call.block] # FAT_EOC
        /\ call' = [call EXCEPT !.block = fat[call.block], !.have = call.have + 1]
        /\ UNCHANGED <<fat, root, open_files>>
    BY <1>5 DEF Walk
  <2>2. call \in Calls
    BY MountedVolume
  <2>3. /\ call'.pc = "alloc" /\ call'.arg = call.arg /\ call'.count = call.count
        /\ call'.block = fat[call.block] /\ call'.have = call.have + 1
    BY <2>1, <2>2 DEF Calls
  <2> DEFINE i == open_files[call.arg].file
  <2>4. PICK p \in Nat : call.have = p + 1 /\ BlockAt(i, p) = call.block
    <3>1. call.have - 1 \in Nat /\ call.have = (call.have - 1) + 1
      BY <2>1, <2>2 DEF WriteInv, Calls
    <3> QED
      BY <2>1, <3>1 DEF WriteInv, BlockAt
  <2>5. call.block # FAT_EOC
    BY <2>1, BlockFacts DEF VolumeSpecInv, VolumeInv
  <2>6. BlockAt(i, p + 1) = fat[call.block]
    BY <2>4, <2>5, FindNext DEF BlockAt, NextInChain
  <2>7. call'.have - 1 = p + 1 /\ call'.have > 0
    BY <2>3, <2>4
  <2> QED
    BY <2>1, <2>3, <2>6, <2>7 DEF WriteInv, ShortWriteOnlyWhenFull, BlockAt
<1>6. CASE Extend
  <2>1. /\ call.pc = "alloc"
        /\ call' = [call EXCEPT !.block = Least(FreeBlocks(fat)), !.have = call.have + 1]
        /\ UNCHANGED <<root, open_files>>
    BY <1>6 DEF Extend
  <2>2. call \in Calls
    BY MountedVolume
  <2>3. /\ call'.pc = "alloc" /\ call'.arg = call.arg /\ call'.count = call.count
        /\ call'.block = Least(FreeBlocks(fat)) /\ call'.have = call.have + 1
    BY <2>1, <2>2 DEF Calls
  <2>4. call'.have - 1 = call.have /\ call'.have > 0
    BY <2>2, <2>3 DEF Calls
  <2>5. find_data_block(fat', root[open_files[call.arg].file].first_index, call.have) =
          Least(FreeBlocks(fat))
    BY <1>6, ExtendChains
  <2> QED
    BY <2>1, <2>3, <2>4, <2>5 DEF WriteInv, ShortWriteOnlyWhenFull
<1>7. CASE Allocated
  <2>1. /\ call.pc = "alloc" /\ call' = [call EXCEPT !.pc = "xfer"]
        /\ call.have >= TargetBlocks \/ FreeBlocks(fat) = {}
        /\ UNCHANGED <<fat, root, open_files>>
    BY <1>7 DEF Allocated
  <2>2. call \in Calls /\ call'.pc = "xfer" /\ call'.arg = call.arg /\ call'.count = call.count
    BY <2>1, MountedVolume DEF Calls
  <2>3. LastBlock' = LastBlock /\ FreeBlocks(fat') = FreeBlocks(fat)
    BY <2>1, <2>2 DEF LastBlock, TargetBlocks
  <2>4. ASSUME call.have >= TargetBlocks
        PROVE  LastBlock # FAT_EOC
    <3> DEFINE i == open_files[call.arg].file
               target == TargetBlocks - 1
    <3>1. open_files[call.arg].offset \in Nat /\ call.count \in Nat /\ call.count > 0
      BY <2>1, <2>2, WrittenFile, OffsetModAssumption, MaxCountAssumption
      DEF FileDescriptor, Calls, WriteInv
    <3>2. TargetBlocks \in Nat \ {0}
      BY <3>1, TargetBlocksPositive DEF TargetBlocks
    <3>3. target \in Nat /\ call.have - 1 \in Nat /\ target =< call.have - 1
      BY <2>2, <2>4, <3>2 DEF Calls
    <3>4. BlockAt(i, call.have - 1) # FAT_EOC
      BY <2>1, BlockFacts DEF WriteInv, VolumeSpecInv, VolumeInv, BlockAt
    <3> HIDE DEF target
    <3>5. BlockAt(i, target) # FAT_EOC
      BY <3>3, <3>4, ChainEnded DEF BlockAt
    <3> QED
      BY <3>5 DEF LastBlock, BlockAt, target
  <2> QED
    BY <2>1, <2>2, <2>3, <2>4 DEF WriteInv, ShortWriteOnlyWhenFull
<1>8. CASE UNCHANGED vars
  BY <1>8 DEF vars, WriteInv, ShortWriteOnlyWhenFull, LastBlock, TargetBlocks, FreeBlocks
<1>9. CASE
  \/ MountOk \/ MountFails \/ Umount \/ UmountRoot \/ FreeBlock \/ FreeLast
  \/ WriteAll \/ WriteShort \/ Kill
  \/ \E name \in Names : Create(name) \/ DeleteEmpty(name) \/ Delete(name) \/ Open(name)
  \/ \E fd \in Fds : Close(fd)
  \/ \E fd \in Fds, offset \in 0 .. MaxSize : Lseek(fd, offset)
  \/ \E fd \in Fds, count \in 1 .. MaxCount : Read(fd, count)
  <2>1. call'.pc \notin {"alloc", "xfer"}
    <3>1. CASE FreeBlock
      BY <3>1, MountedVolume DEF FreeBlock, Calls
    <3>2. CASE Umount \/ \E name \in Names : Delete(name)
      BY <3>2 DEF Umount, Delete, Idle
    <3>3. CASE
      \/ MountOk \/ MountFails \/ UmountRoot \/ FreeLast \/ WriteAll \/ WriteShort \/ Kill
      \/ \E name \in Names : Create(name) \/ DeleteEmpty(name) \/ Open(name)
      \/ \E fd \in Fds : Close(fd)
      \/ \E fd \in Fds, offset \in 0 .. MaxSize : Lseek(fd, offset)
      \/ \E fd \in Fds, count \in 1 .. MaxCount : Read(fd, count)
      <4>1. call' = Idle
        BY <3>3
        DEF MountOk, MountFails, UmountRoot, FreeLast, WriteAll, WriteShort, Kill,
            Create, DeleteEmpty, Deletable, Open, Close, Lseek, Read, Ready, FlaggedMounted
      <4> QED
        BY <4>1 DEF Idle
    <3> QED
      BY <1>9, <3>1, <3>2, <3>3
  <2> QED
    BY <1>1, <2>1
<1> QED
  BY <1>2, <1>3, <1>4, <1>5, <1>6, <1>7, <1>8, <1>9 DEF Next, Caller, CallStep

WriteSpecInv == VolumeSpecInv /\ WriteInv

LEMMA WriteInvariant == Spec => []WriteSpecInv
<1>1. Init => WriteInv
  BY WriteInit
<1>2. VolumeSpecInv /\ WriteInv /\ [Next]_vars => WriteInv'
  BY WriteStep
<1> QED
  BY VolumeInvariant, <1>1, <1>2, PTL DEF Spec, WriteSpecInv

(* A write stops short of its count only if it has left no block free: the *)
(* allocation that precedes it counts the blocks it walks over correctly,  *)
(* on chains and volumes of any length.                                    *)
THEOREM ShortWritesCorrect == Spec => []ShortWriteOnlyWhenFull
<1>1. WriteSpecInv => ShortWriteOnlyWhenFull
  BY DEF WriteSpecInv, WriteInv
<1> QED
  BY WriteInvariant, <1>1, PTL

-----------------------------------------------------------------------------
(***************************************************************************)
(* What one step of a call does to the chain of any file.                  *)
(***************************************************************************)
LEMMA ChainsStep ==
  ASSUME VolumeSpecInv, WriteInv, [Next]_vars,
         status = "mounted", status' = "mounted",
         NEW i, i \in Intact, i \in Intact', NEW n \in Nat
  PROVE  \/ find_data_block(fat', root'[i].first_index, n) = BlockAt(i, n)
         \/ BlockAt(i, n) = FAT_EOC /\ i \in Target(call)'
<1>1. /\ i \in Files /\ i \in Live(root) /\ i \in Live(root')
      /\ fat \in Fat /\ root \in Root /\ call \in Calls
  BY MountedVolume DEF Intact, Live
<1>2. CASE UNCHANGED <<fat, root>>
  BY <1>2 DEF BlockAt
<1>3. CASE \E name \in Names : Create(name)
  <2>1. PICK name \in Names : Create(name)
    BY <1>3
  <2>2. Least(Named(NoName)) \in Named(NoName)
    BY <2>1, EmptyEntryIsFile DEF Create
  <2>3. i # Least(Named(NoName))
    BY <1>1, <2>2 DEF Named, Live
  <2>4. root'[i] = root[i] /\ fat' = fat
    BY <1>1, <2>1, <2>3 DEF Create, Root
  <2> QED
    BY <2>4 DEF BlockAt
<1>4. CASE \E name \in Names : DeleteEmpty(name)
  <2>1. PICK e \in Files : root' = [root EXCEPT ![e] = DeletedFile] /\ fat' = fat
    BY <1>4 DEF DeleteEmpty
  <2>2. i # e
    BY <1>1, <2>1, EmptiedEntry
  <2>3. root'[i] = root[i]
    BY <1>1, <2>1, <2>2 DEF Root
  <2> QED
    BY <2>1, <2>3 DEF BlockAt
<1>5. CASE WriteAll
  <2>1. root'[i].first_index = root[i].first_index /\ fat' = fat
    BY <1>1, <1>5 DEF WriteAll, Root, File
  <2> QED
    BY <2>1 DEF BlockAt
<1>6. CASE \E fd \in Fds, count \in 1 .. MaxCount : WriteFirstBlock(fd, count)
  <2>1. PICK fd \in Fds, count \in 1 .. MaxCount : WriteFirstBlock(fd, count)
    BY <1>6
  <2>2. CASE i = open_files[fd].file
    <3>1. BlockAt(i, n) = FAT_EOC
      BY <2>1, <2>2, FirstBlockChains
    <3>2. i \in Target(call)'
      BY <2>1, <2>2 DEF WriteFirstBlock, InCall, Target
    <3> QED
      BY <3>1, <3>2
  <2>3. CASE i # open_files[fd].file
    BY <1>1, <2>1, <2>3, FirstBlockChains
  <2> QED
    BY <2>2, <2>3
<1>7. CASE Extend
  <2>1. root' = root
    BY <1>7 DEF Extend
  <2>2. CASE i = open_files[call.arg].file
    <3>1. i \in Target(call)'
      BY <1>1, <1>7, <2>2 DEF Extend, Calls, Target
    <3>2. CASE n >= call.have
      BY <1>7, <2>2, <3>1, <3>2, ExtendChains
    <3>3. CASE ~ (n >= call.have)
      <4>1. n \in 0 .. call.have - 1
        BY <1>1, <3>3 DEF Calls
      <4> QED
        BY <1>7, <2>1, <2>2, <4>1, ExtendChains
    <3> QED
      BY <3>2, <3>3
  <2>3. CASE i # open_files[call.arg].file
    BY <1>1, <1>7, <2>1, <2>3, ExtendChains
  <2> QED
    BY <2>2, <2>3
<1>8. CASE FreeBlock \/ FreeLast
  <2>1. i # call.arg
    BY <1>8, IntactFiles DEF FreeBlock, FreeLast
  <2>2. root'[i] = root[i]
    BY <1>1, <1>8, <2>1 DEF FreeBlock, FreeLast, Root
  <2> QED
    BY <1>1, <1>8, <2>1, <2>2, FreedChains
<1>9. CASE
  \/ Umount \/ Walk \/ Allocated \/ WriteShort
  \/ \E name \in Names : Delete(name) \/ Open(name)
  \/ \E fd \in Fds : Close(fd)
  \/ \E fd \in Fds, offset \in 0 .. MaxSize : Lseek(fd, offset)
  \/ \E fd \in Fds, count \in 1 .. MaxCount :
       Read(fd, count) \/ Write(fd, count) \/ WriteNoBlock(fd, count)
  BY <1>2, <1>9
  DEF Umount, Walk, Allocated, WriteShort, Delete, Open, Close, Lseek, Read, Write, WriteNoBlock
<1>10. CASE UNCHANGED vars
  BY <1>2, <1>10 DEF vars
<1>11. CASE MountOk \/ MountFails \/ UmountRoot \/ Kill
  BY <1>11 DEF MountOk, MountFails, UmountRoot, Kill
<1> QED
  BY <1>3, <1>4, <1>5, <1>6, <1>7, <1>8, <1>9, <1>10, <1>11 DEF Next, Caller, CallStep

(* No call, in any of its steps, changes the chain of a file it was not    *)
(* called for, and a write only ever appends blocks to its own.            *)
THEOREM ChainsStableCorrect == Spec => ChainsStable
<1>1. ASSUME WriteSpecInv, [Next]_vars
      PROVE  status = "mounted" /\ status' = "mounted" =>
               \A i \in Intact \intersect Intact' : \A n \in 0 .. NumBlocks - 1 :
                 LET before == ChainOf(fat, root, i)
                     after  == (ChainOf(fat, root, i))'
                 IN  after[n] = before[n] \/ (before[n] = FAT_EOC /\ i \in Target(call)')
  <2> SUFFICES ASSUME status = "mounted", status' = "mounted",
                      NEW i \in Intact \intersect Intact', NEW n \in 0 .. NumBlocks - 1
               PROVE  LET before == ChainOf(fat, root, i)
                          after  == (ChainOf(fat, root, i))'
                      IN  after[n] = before[n] \/ (before[n] = FAT_EOC /\ i \in Target(call)')
    OBVIOUS
  <2>1. n \in Nat
    BY NumBlocksAssumption
  <2>2. \/ find_data_block(fat', root'[i].first_index, n) = BlockAt(i, n)
        \/ BlockAt(i, n) = FAT_EOC /\ i \in Target(call)'
    BY <1>1, <2>1, ChainsStep DEF WriteSpecInv
  <2> QED
    BY <2>2 DEF ChainOf, BlockAt
<1> QED
  BY WriteInvariant, <1>1, PTL DEF Spec, ChainsStable

-----------------------------------------------------------------------------
(***************************************************************************)
(* Lost blocks.                                                            *)
(***************************************************************************)

(* Every allocated block is at some position of some file.                 *)
AllReached(f, r) ==
  \A b \in DataBlocks : f[b] # 0 =>
    \E i \in Live(r), n \in Nat : find_data_block(f, r[i].first_index, n) = b

LEMMA LossMeansUnreached ==
  ASSUME NEW f \in Fat, NEW r, VolumeSound(f, r, Live(r))
  PROVE  LostBlocks(f, r) = {} <=> AllReached(f, r)
<1>1. ASSUME NEW b \in DataBlocks
      PROVE  b \in UNION {BlocksOf(f, r, i) : i \in Live(r)} <=>
             \E i \in Live(r), n \in Nat : find_data_block(f, r[i].first_index, n) = b
  <2>1. b # FAT_EOC
    BY BlockFacts
  <2>2. \A i \in Live(r) : b \in BlocksOf(f, r, i) <=>
          \E n \in Nat : find_data_block(f, r[i].first_index, n) = b
    BY <2>1, InChain
  <2> QED
    BY <2>2
<1> QED
  BY <1>1 DEF LostBlocks, AllReached

(* The invariant in these terms.                                           *)
ReachInv ==
  /\ status = "mounted" /\ fat[0] = FAT_EOC /\ ~(call.pc = "free" /\ call.block = 0) =>
       AllReached(fat, root)
  /\ call.pc # "saving" /\ disk.fat[0] = FAT_EOC => AllReached(disk.fat, disk.root)

LEMMA ReachIsLoss ==
  ASSUME VolumeSpecInv
  PROVE  ReachInv <=> LossInv
<1>1. fat \in Fat /\ disk.fat \in Fat
  BY DEF VolumeSpecInv, TypeInv, TypeOK
<1>2. ASSUME status = "mounted", ~(call.pc = "free" /\ call.block = 0)
      PROVE  VolumeSound(fat, root, Live(root))
  BY <1>2, MountedVolume DEF VolumeSpecInv, VolumeInv
<1>3. call.pc # "saving" => VolumeSound(disk.fat, disk.root, Live(disk.root))
  BY DEF VolumeSpecInv, VolumeInv, VolumesSound
<1> QED
  BY <1>1, <1>2, <1>3, LossMeansUnreached DEF ReachInv, LossInv

LEMMA ReachInit == Init => ReachInv
<1>1. \A b \in DataBlocks : FormattedFat[b] = 0
  BY BlockFacts DEF FormattedFat
<1> QED
  BY <1>1 DEF Init, ReachInv, AllReached, Idle

(* Changes of the directory that leave the files with blocks as they are.  *)
LEMMA SameReach ==
  ASSUME NEW f, NEW r, NEW r2, AllReached(f, r),
         \A i \in Live(r) : \/ r[i].first_index = FAT_EOC
                            \/ i \in Live(r2) /\ r2[i].first_index = r[i].first_index
  PROVE  AllReached(f, r2)
<1> SUFFICES ASSUME NEW b \in DataBlocks, f[b] # 0
             PROVE  \E i \in Live(r2), n \in Nat : find_data_block(f, r2[i].first_index, n) = b
  BY DEF AllReached
<1>1. PICK i \in Live(r), n \in Nat : find_data_block(f, r[i].first_index, n) = b
  BY DEF AllReached
<1>2. r[i].first_index # FAT_EOC
  BY <1>1, EmptyChain, BlockFacts
<1> QED
  BY <1>1, <1>2

(* The disk: fs_umount puts there what is in memory.                       *)
LEMMA ReachOnDisk ==
  VolumeSpecInv /\ ReachInv /\ [Next]_vars =>
    (call'.pc # "saving" /\ disk'.fat[0] = FAT_EOC => AllReached(disk'.fat, disk'.root))
<1> SUFFICES ASSUME VolumeSpecInv, ReachInv, [Next]_vars,
                    call'.pc # "saving", disk'.fat[0] = FAT_EOC
             PROVE  AllReached(disk'.fat, disk'.root)
  OBVIOUS
<1>1. CASE Umount
  BY <1>1 DEF Umount, Idle
<1>2. CASE UmountRoot
  <2>1. call.pc = "saving" /\ status = "mounted" /\ disk.fat = fat
    BY <1>2, MountedVolume DEF UmountRoot, VolumeSpecInv, VolumeInv
  <2>2. disk'.fat = fat /\ disk'.root = root
    BY <1>2, <2>1 DEF UmountRoot, VolumeSpecInv, TypeInv, TypeOK
  <2> QED
    BY <2>1, <2>2 DEF ReachInv
<1>3. CASE UNCHANGED vars
  BY <1>3 DEF vars, ReachInv
<1>4. CASE Next /\ ~Umount /\ ~UmountRoot
  <2>1. disk' = disk
    BY <1>4
    DEF Next, Caller, CallStep, MountOk, MountFails, FreeBlock, FreeLast, Walk, Extend,
        Allocated, WriteAll, WriteShort, Kill, Create, DeleteEmpty, Delete, Open,
        Close, Lseek, Read, Write, WriteFirstBlock, WriteNoBlock
  <2>2. call = Idle \/ call.pc \in {"free", "alloc", "xfer"} \/ call.pc # "saving"
    BY <1>4
    DEF Next, Caller, CallStep, MountOk, MountFails, FreeBlock, FreeLast, Walk, Extend,
        Allocated, WriteAll, WriteShort, Create, DeleteEmpty, Delete, Deletable, Open,
        Close, Lseek, Read, Write, WriteFirstBlock, WriteNoBlock, Writable, Ready,
        FlaggedMounted
  <2>3. call.pc # "saving"
    BY <2>2 DEF Idle
  <2> QED
    BY <2>1, <2>3 DEF ReachInv
<1> QED
  BY <1>1, <1>2, <1>3, <1>4

(* The memory.  The reserved entry only ever loses its mark.               *)
LEMMA ReachInMemory ==
  VolumeSpecInv /\ WriteInv /\ ReachInv /\ [Next]_vars =>
    (status' = "mounted" /\ fat'[0] = FAT_EOC /\ ~(call'.pc = "free" /\ call'.block = 0) =>
       AllReached(fat', root'))
<1> SUFFICES ASSUME VolumeSpecInv, WriteInv, ReachInv, [Next]_vars,
                    status' = "mounted", fat'[0] = FAT_EOC,
                    ~(call'.pc = "free" /\ call'.block = 0)
             PROVE  AllReached(fat', root')
  OBVIOUS
<1>1. /\ fat \in Fat /\ root \in Root /\ call \in Calls
      /\ Live(root) \subseteq Files
  BY MountedVolume
<1>2. ASSUME status = "mounted", fat[0] = FAT_EOC, call.pc # "free"
      PROVE  AllReached(fat, root)
  BY <1>2 DEF ReachInv
<1>3. CASE MountOk
  BY <1>3 DEF MountOk, ReachInv, Idle
<1>4. CASE MountFails \/ UmountRoot \/ Kill
  BY <1>4 DEF MountFails, UmountRoot, Kill
<1>5. CASE
  \/ Umount \/ Walk \/ Allocated \/ WriteShort
  \/ \E name \in Names : Delete(name) \/ Open(name)
  \/ \E fd \in Fds : Close(fd)
  \/ \E fd \in Fds, offset \in 0 .. MaxSize : Lseek(fd, offset)
  \/ \E fd \in Fds, count \in 1 .. MaxCount :
       Read(fd, count) \/ Write(fd, count) \/ WriteNoBlock(fd, count)
  <2>1. UNCHANGED <<status, fat, root>>
    BY <1>5
    DEF Umount, Walk, Allocated, WriteShort, Delete, Open, Close, Lseek, Read, Write, WriteNoBlock
  <2>2. call = Idle \/ call.pc \in {"alloc", "xfer"}
    BY <1>5
    DEF Umount, Walk, Allocated, WriteShort, Delete, Deletable, Open, Close, Lseek, Read,
        Write, WriteNoBlock, Writable, Ready, FlaggedMounted
  <2>3. call.pc # "free"
    BY <2>2 DEF Idle
  <2> QED
    BY <1>2, <2>1, <2>3
<1>6. CASE \E name \in Names : Create(name)
  <2>1. PICK name \in Names : Create(name)
    BY <1>6
  <2>2. Least(Named(NoName)) \in Named(NoName)
    BY <2>1, EmptyEntryIsFile DEF Create
  <2>3. status = "mounted" /\ fat' = fat /\ call.pc # "free"
    BY <2>1 DEF Create, Ready, Idle
  <2>4. ASSUME NEW i \in Live(root)
        PROVE  i \in Live(root') /\ root'[i].first_index = root[i].first_index
    <3>1. i # Least(Named(NoName)) /\ i \in Files
      BY <2>2 DEF Named, Live
    <3>2. root'[i] = root[i]
      BY <1>1, <2>1, <3>1 DEF Create, Root
    <3> QED
      BY <3>1, <3>2 DEF Live
  <2> QED
    BY <1>2, <2>3, <2>4, SameReach
<1>7. CASE \E name \in Names : DeleteEmpty(name)
  <2>1. PICK name \in Names, e \in Files :
          /\ Ready /\ root[e].first_index = FAT_EOC
          /\ root' = [root EXCEPT ![e] = DeletedFile] /\ UNCHANGED <<status, fat>>
    BY <1>7 DEF DeleteEmpty, Deletable
  <2>2. status = "mounted" /\ fat' = fat /\ call.pc # "free"
    BY <2>1 DEF Ready, Idle
  <2>3. Live(root') = Live(root) \ {e}
    BY <1>1, <2>1, EmptiedEntry
  <2>4. ASSUME NEW i \in Live(root), i # e
        PROVE  i \in Live(root') /\ root'[i].first_index = root[i].first_index
    BY <1>1, <2>1, <2>3, <2>4 DEF Root
  <2> QED
    BY <1>2, <2>1, <2>2, <2>4, SameReach
<1>8. CASE WriteAll
  <2>1. status = "mounted" /\ fat' = fat /\ call.pc # "free"
    BY <1>8, MountedVolume DEF WriteAll
  <2>2. \A i \in Files : /\ root[i].filename = root'[i].filename
                         /\ root'[i].first_index = root[i].first_index
    BY <1>1, <1>8 DEF WriteAll, Root, File
  <2>3. Live(root') = Live(root)
    BY <2>2, SameNames
  <2> QED
    BY <1>1, <1>2, <2>1, <2>2, <2>3, SameReach
<1>9. CASE \E fd \in Fds, count \in 1 .. MaxCount : WriteFirstBlock(fd, count)
  <2>1. PICK fd \in Fds, count \in 1 .. MaxCount : WriteFirstBlock(fd, count)
    BY <1>9
  <2> DEFINE i == open_files[fd].file
             block == Least(FreeBlocks(fat))
  <2>2. /\ Ready /\ IsOpen(fd) /\ FreeBlocks(fat) # {}
        /\ fat' = [fat EXCEPT ![block] = FAT_EOC]
        /\ root' = [root EXCEPT ![i].first_index = block]
    BY <2>1 DEF WriteFirstBlock, Writable
  <2>3. block \in DataBlocks /\ i \in Live(root)
    BY <1>1, <2>2, FreeBlockIsData, OpenFile
  <2>4. /\ \A j \in Live(root) \ {i}, n \in Nat :
             find_data_block(fat', root'[j].first_index, n) = BlockAt(j, n)
        /\ \A n \in Nat : BlockAt(i, n) = FAT_EOC
        /\ find_data_block(fat', root'[i].first_index, 0) = block
    BY <2>1, FirstBlockChains
  <2> HIDE DEF i, block
  <2>5. fat[0] = FAT_EOC /\ \A b \in DataBlocks : b # block => fat'[b] = fat[b]
    BY <1>1, <2>2, <2>3, BlockFacts DEF Fat
  <2>6. \A j \in Files : root[j].filename = root'[j].filename
    BY <1>1, <2>2 DEF Root, File
  <2>7. Live(root') = Live(root)
    BY <2>6, SameNames
  <2>8. AllReached(fat, root)
    BY <1>2, <2>2, <2>5 DEF Ready, Idle
  <2>9. ASSUME NEW b \in DataBlocks, fat'[b] # 0
        PROVE  \E j \in Live(root'), n \in Nat :
                 find_data_block(fat', root'[j].first_index, n) = b
    <3>1. CASE b = block
      BY <2>3, <2>4, <2>7, <3>1
    <3>2. CASE b # block
      <4>1. PICK j \in Live(root), n \in Nat : BlockAt(j, n) = b
        BY <2>5, <2>8, <2>9, <3>2 DEF AllReached, BlockAt
      <4>2. j # i
        BY <2>4, <4>1, BlockFacts
      <4> QED
        BY <2>4, <2>7, <4>1, <4>2
    <3> QED
      BY <3>1, <3>2
  <2> QED
    BY <2>9 DEF AllReached
<1>10. CASE Extend
  <2> DEFINE i == open_files[call.arg].file
             block == Least(FreeBlocks(fat))
  <2>1. /\ call.pc = "alloc" /\ FreeBlocks(fat) # {}
        /\ fat' = [fat EXCEPT ![call.block] = block, ![block] = FAT_EOC]
        /\ root' = root
    BY <1>10 DEF Extend
  <2>2. /\ block \in DataBlocks /\ i \in Live(root) /\ status = "mounted"
        /\ call.block \in DataBlocks /\ fat[call.block] # 0
    BY <1>1, <2>1, FreeBlockIsData, WrittenFile DEF VolumeSpecInv, VolumeInv
  <2>3. /\ \A j \in Live(root) \ {i}, n \in Nat :
             find_data_block(fat', root[j].first_index, n) = BlockAt(j, n)
        /\ call.have \in Nat
        /\ \A n \in 0 .. call.have - 1 :
             find_data_block(fat', root[i].first_index, n) = BlockAt(i, n)
        /\ \A n \in Nat : n >= call.have => BlockAt(i, n) = FAT_EOC
        /\ find_data_block(fat', root[i].first_index, call.have) = block
    BY <1>1, <1>10, ExtendChains DEF Calls
  <2> HIDE DEF i, block
  <2>4. /\ fat[0] = FAT_EOC
        /\ \A b \in DataBlocks : b # block /\ b # call.block => fat'[b] = fat[b]
    BY <1>1, <2>1, <2>2, BlockFacts DEF Fat
  <2>5. AllReached(fat, root)
    BY <1>2, <2>1, <2>2, <2>4
  <2>6. ASSUME NEW b \in DataBlocks, fat'[b] # 0
        PROVE  \E j \in Live(root), n \in Nat :
                 find_data_block(fat', root[j].first_index, n) = b
    <3>1. CASE b = block
      BY <2>2, <2>3, <3>1
    <3>2. CASE b # block
      <4>1. fat[b] # 0
        BY <2>2, <2>4, <2>6, <3>2
      <4>2. PICK j \in Live(root), n \in Nat : BlockAt(j, n) = b
        BY <2>5, <4>1 DEF AllReached, BlockAt
      <4>3. CASE j # i
        BY <2>3, <4>2, <4>3
      <4>4. CASE j = i
        <5>1. ~ (n >= call.have)
          BY <2>3, <4>2, <4>4, BlockFacts
        <5>2. n \in 0 .. call.have - 1
          BY <2>3, <5>1
        <5> QED
          BY <2>3, <4>2, <4>4, <5>2
      <4> QED
        BY <4>3, <4>4
    <3> QED
      BY <3>1, <3>2
  <2> QED
    BY <2>1, <2>6 DEF AllReached
<1>11. CASE FreeBlock
  <2>1. call.pc = "free" /\ call.block \in Blocks /\ fat' = [fat EXCEPT ![call.block] = 0]
    BY <1>11 DEF FreeBlock, VolumeSpecInv, TypeInv, CallTyped
  <2>2. fat'[call.block] = 0
    BY <1>1, <2>1 DEF Fat
  <2>3. call'.pc = "free" /\ call'.block = 0
    BY <1>1, <1>11, <2>2 DEF FreeBlock, Calls
  <2> QED
    BY <2>3
<1>12. CASE FreeLast
  <2> DEFINE e == call.arg
  <2>1. /\ call.pc = "free" /\ fat[call.block] = FAT_EOC
        /\ fat' = [fat EXCEPT ![call.block] = 0]
        /\ root' = [root EXCEPT ![e] = DeletedFile]
    BY <1>12 DEF FreeLast
  <2>2. /\ call.block \in Blocks /\ e \in Files /\ e \in Live(root)
        /\ status = "mounted"
    BY <1>1, <2>1, MountedVolume DEF VolumeSpecInv, TypeInv, CallTyped, DescriptorInv
  <2>3. fat'[call.block] = 0 /\ \A b \in Blocks : b # call.block => fat'[b] = fat[b]
    BY <1>1, <2>1, <2>2 DEF Fat
  <2>4. call.block # 0 /\ fat[0] = FAT_EOC
    BY <2>3, BlockFacts
  <2>5. AllReached(fat, root)
    BY <2>2, <2>4 DEF ReachInv
  <2>6. call.block = root[e].first_index
    BY <2>1, <2>4 DEF VolumeSpecInv, VolumeInv
  <2>7. BlockAt(e, 0) = call.block
    BY <2>6, FindFirst DEF BlockAt
  <2>8. BlockAt(e, 0 + 1) = FAT_EOC
    BY <2>1, <2>7, FindNext DEF BlockAt, NextInChain
  <2>9. \A n \in Nat \ {0} : BlockAt(e, n) = FAT_EOC
    BY <2>8, ChainEnded DEF BlockAt
  <2>10. Live(root') = Live(root) \ {e}
    BY <1>1, <2>1, <2>2, EmptiedEntry
  <2>11. \A j \in Live(root) \ {e}, n \in Nat :
           find_data_block(fat', root[j].first_index, n) = BlockAt(j, n)
    BY <1>12, FreedChains
  <2>12. \A j \in Live(root) \ {e} : root'[j] = root[j]
    BY <1>1, <2>1 DEF Root
  <2> HIDE DEF e
  <2>13. ASSUME NEW b \in DataBlocks, fat'[b] # 0
         PROVE  \E j \in Live(root'), n \in Nat :
                  find_data_block(fat', root'[j].first_index, n) = b
    <3>1. b # call.block /\ fat[b] # 0
      BY <2>3, <2>13, BlockFacts
    <3>2. PICK j \in Live(root), n \in Nat : BlockAt(j, n) = b
      BY <2>5, <3>1 DEF AllReached, BlockAt
    <3>3. j # e
      BY <2>7, <2>9, <3>1, <3>2, BlockFacts
    <3> QED
      BY <2>10, <2>11, <2>12, <3>2, <3>3
  <2> QED
    BY <2>13 DEF AllReached
<1>13. CASE UNCHANGED vars
  BY <1>13 DEF vars, ReachInv
<1> QED
  BY <1>3, <1>4, <1>5, <1>6, <1>7, <1>8, <1>9, <1>10, <1>11, <1>12, <1>13
  DEF Next, Caller, CallStep

LEMMA LossInvariant == Spec => []LossInv
<1>1. Init => ReachInv
  BY ReachInit
<1>2. VolumeSpecInv /\ WriteInv /\ ReachInv /\ [Next]_vars => ReachInv'
  BY ReachOnDisk, ReachInMemory DEF ReachInv
<1>3. VolumeSpecInv /\ ReachInv => LossInv
  BY ReachIsLoss
<1> QED
  BY VolumeInvariant, WriteInvariant, <1>1, <1>2, <1>3, PTL DEF Spec, WriteSpecInv

(* Between calls every allocated block belongs to a file, over any number  *)
(* of sessions, as long as the reserved entry keeps its mark: the loop of  *)
(* fs_delete loses blocks only together with that mark.                    *)
THEOREM NoLossCorrect == Spec => []NoLossWhileReserved
<1>1. LossInv => NoLossWhileReserved
  BY DEF LossInv, NoLossWhileReserved, Ready, Idle
<1> QED
  BY LossInvariant, <1>1, PTL
=============================================================================
