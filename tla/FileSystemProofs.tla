---------------------------- MODULE FileSystemProofs ----------------------------
(***************************************************************************)
(* What FileSystem promises, for every number of files, descriptors and    *)
(* blocks and every size of block.                                         *)
(***************************************************************************)
EXTENDS FileSystem, FatVolumeProofs

-----------------------------------------------------------------------------
(* A set of naturals that is not empty has a least element, which is what  *)
(* the searches for an empty entry, a free block or a free slot return.    *)
LEMMA LeastIsMember ==
  ASSUME NEW S \in SUBSET Nat, S # {}
  PROVE  Least(S) \in S
BY LeastExists DEF Least

(* Offsets and the counter of open files stay in the range of their type.  *)
LEMMA ToOffsetRange ==
  ASSUME NEW n \in Nat
  PROVE  ToOffset(n) \in 0 .. OffsetMod - 1
BY OffsetModAssumption DEF ToOffset

LEMMA CountRange ==
  ASSUME NEW n \in Int
  PROVE  n % CountMod \in 0 .. CountMod - 1
BY DEF CountMod

(* The kinds of table entry, and what searching them yields.               *)
LEMMA FreeBlockIsData ==
  ASSUME NEW f \in Fat, FreeBlocks(f) # {}
  PROVE  /\ Least(FreeBlocks(f)) \in DataBlocks
         /\ f[Least(FreeBlocks(f))] = 0
<1>1. FreeBlocks(f) \in SUBSET Nat
  BY BlockFacts DEF FreeBlocks
<1>2. Least(FreeBlocks(f)) \in FreeBlocks(f)
  BY <1>1, LeastIsMember
<1> QED
  BY <1>2 DEF FreeBlocks

LEMMA EmptyEntryIsFile ==
  ASSUME NEW name, Named(name) # {}
  PROVE  Least(Named(name)) \in Named(name) /\ Least(Named(name)) \in Files
<1>1. Named(name) \in SUBSET Files /\ Files \in SUBSET Nat
  BY NumFilesAssumption DEF Named, Files
<1> QED
  BY <1>1, LeastIsMember

LEMMA EmptySlotIsFd ==
  ASSUME OpenFds # Fds
  PROVE  /\ Least(Fds \ OpenFds) \in Fds
         /\ open_files[Least(Fds \ OpenFds)] = NULL
<1>1. OpenFds \subseteq Fds /\ Fds \in SUBSET Nat
  BY NumFdsAssumption DEF OpenFds, Fds, CountMod
<1>2. Least(Fds \ OpenFds) \in Fds \ OpenFds
  BY <1>1, LeastIsMember
<1> QED
  BY <1>2 DEF OpenFds, IsOpen

-----------------------------------------------------------------------------
(***************************************************************************)
(* Type correctness.  A step of fs_write keeps file_size + count within    *)
(* MaxSize because nothing else runs until it returns; the entry a chain   *)
(* walk reads is that of a block because the walk stops at FAT_EOC.        *)
(***************************************************************************)
LEMMA IdleTyped == Idle \in Calls
BY MaxCountAssumption, BlockFacts DEF Idle, Calls, FatEntry

LEMMA TypeInit == Init => TypeInv
<1> SUFFICES ASSUME Init PROVE TypeInv
  OBVIOUS
<1> USE DEF Init
<1>1. FormattedFat \in Fat
  BY BlockFacts DEF FormattedFat, Fat, FatEntry
<1>2. FormattedRoot \in Root
  BY BlockFacts, MaxSizeAssumption DEF FormattedRoot, Root, File, FatEntry
<1>3. NoneOpen \in [Fds -> FileDescriptor \union {NULL}]
  BY DEF NoneOpen
<1>4. TypeOK
  BY <1>1, <1>2, <1>3, IdleTyped DEF TypeOK, CountMod
<1>5. CallTyped
  BY DEF CallTyped, Idle
<1> QED
  BY <1>4, <1>5 DEF TypeInv

LEMMA TypeStep == TypeInv /\ [Next \/ Kill]_vars => TypeInv'
<1> SUFFICES ASSUME TypeInv, [Next \/ Kill]_vars PROVE TypeInv'
  OBVIOUS
<1> USE DEF TypeInv, TypeOK
<1>1. CASE MountOk
  <2>1. NoneOpen \in [Fds -> FileDescriptor \union {NULL}]
    BY DEF NoneOpen
  <2> QED
    BY <1>1, <2>1 DEF MountOk, CallTyped, Idle
<1>2. CASE MountFails
  BY <1>2 DEF MountFails, CallTyped, Idle
<1>3. CASE Umount
  <2>1. call' \in Calls
    BY <1>3, IdleTyped DEF Umount, Idle, Calls
  <2>2. CallTyped'
    BY <1>3 DEF Umount, Idle, CallTyped
  <2> QED
    BY <1>3, <2>1, <2>2 DEF Umount
<1>4. CASE \E name \in Names : Create(name)
  <2>1. PICK name \in Names : Create(name)
    BY <1>4
  <2> DEFINE e == Least(Named(NoName))
  <2> DEFINE f == [filename |-> name, file_size |-> 0, first_index |-> FAT_EOC]
  <2>2. e \in Files
    BY <2>1, EmptyEntryIsFile DEF Create
  <2>3. f \in File
    BY MaxSizeAssumption DEF File, FatEntry
  <2>4. root' = [root EXCEPT ![e] = f]
    BY <2>1 DEF Create
  <2>5. root' \in Root
    BY <2>2, <2>3, <2>4 DEF Root
  <2>6. CallTyped'
    BY <2>1 DEF Create, Ready, CallTyped, Idle
  <2> QED
    BY <2>1, <2>5, <2>6 DEF Create
<1>5. CASE \E name \in Names : DeleteEmpty(name)
  <2>1. PICK name \in Names : DeleteEmpty(name)
    BY <1>5
  <2>2. DeletedFile \in File
    BY MaxSizeAssumption DEF DeletedFile, File, FatEntry
  <2>3. root' \in Root
    BY <2>1, <2>2 DEF DeleteEmpty, Root
  <2>4. CallTyped'
    BY <2>1 DEF DeleteEmpty, Deletable, Ready, CallTyped, Idle
  <2> QED
    BY <2>1, <2>3, <2>4 DEF DeleteEmpty
<1>6. CASE \E name \in Names : Delete(name)
  <2>1. PICK name \in Names, i \in Files :
          /\ root[i].first_index # FAT_EOC
          /\ call' = [Idle EXCEPT !.pc = "free", !.arg = i, !.block = root[i].first_index]
          /\ UNCHANGED <<status, fat, root, open_files, num_open_files, disk>>
    BY <1>6 DEF Delete
  <2>2. root[i].first_index \in Blocks /\ i \in Nat
    BY <2>1, NumFilesAssumption DEF Root, File, FatEntry, Files
  <2>3. call' \in Calls
    BY <2>1, <2>2, IdleTyped DEF Idle, Calls, FatEntry
  <2>4. CallTyped'
    BY <2>1, <2>2 DEF CallTyped, Idle
  <2> QED
    BY <2>1, <2>3, <2>4
<1>7. CASE \E name \in Names : Open(name)
  <2>1. PICK name \in Names : Open(name)
    BY <1>7
  <2>2. PICK i \in Named(name) :
          /\ Ready
          /\ OpenFds # Fds
          /\ open_files' = [open_files EXCEPT ![Least(Fds \ OpenFds)] =
               [file |-> i, offset |-> 0]]
          /\ num_open_files' = (num_open_files + 1) % CountMod
          /\ UNCHANGED <<status, fat, root, disk, call>>
    BY <2>1 DEF Open, AddFile
  <2>3. [file |-> i, offset |-> 0] \in FileDescriptor
    BY OffsetModAssumption DEF FileDescriptor, Named
  <2>4. open_files' \in [Fds -> FileDescriptor \union {NULL}]
    BY <2>2, <2>3
  <2>5. num_open_files' \in 0 .. CountMod - 1
    BY <2>2, CountRange
  <2>6. CallTyped'
    BY <2>2 DEF Ready, CallTyped, Idle
  <2> QED
    BY <2>2, <2>4, <2>5, <2>6
<1>8. CASE \E fd \in Fds : Close(fd)
  <2>1. PICK fd \in Fds : Close(fd)
    BY <1>8
  <2>2. num_open_files' \in 0 .. CountMod - 1
    BY <2>1, CountRange DEF Close
  <2>3. CallTyped'
    BY <2>1 DEF Close, FlaggedMounted, CallTyped, Idle
  <2> QED
    BY <2>1, <2>2, <2>3 DEF Close
<1>9. CASE \E fd \in Fds, offset \in 0 .. MaxSize : Lseek(fd, offset)
  <2>1. PICK fd \in Fds, offset \in 0 .. MaxSize : Lseek(fd, offset)
    BY <1>9
  <2>2. ToOffset(offset) \in 0 .. OffsetMod - 1
    BY <2>1, ToOffsetRange
  <2>3. open_files' \in [Fds -> FileDescriptor \union {NULL}]
    BY <2>1, <2>2 DEF Lseek, IsOpen, FileDescriptor
  <2>4. CallTyped'
    BY <2>1 DEF Lseek, Ready, CallTyped, Idle
  <2> QED
    BY <2>1, <2>3, <2>4 DEF Lseek
<1>10. CASE \E fd \in Fds, count \in 1 .. MaxCount : Read(fd, count)
  <2>1. PICK fd \in Fds, count \in 1 .. MaxCount : Read(fd, count)
    BY <1>10
  <2>2. open_files[fd] \in FileDescriptor
    BY <2>1 DEF Read, IsOpen
  <2>3. open_files[fd].offset + count \in Nat
    BY <2>2, OffsetModAssumption, MaxCountAssumption DEF FileDescriptor
  <2>4. ToOffset(open_files[fd].offset + count) \in 0 .. OffsetMod - 1
    BY <2>3, ToOffsetRange
  <2>5. open_files' \in [Fds -> FileDescriptor \union {NULL}]
    BY <2>1, <2>2, <2>4 DEF Read, FileDescriptor
  <2>6. CallTyped'
    BY <2>1 DEF Read, Ready, CallTyped, Idle
  <2> QED
    BY <2>1, <2>5, <2>6 DEF Read
<1>11. ASSUME NEW fd \in Fds, NEW count \in 1 .. MaxCount, Writable(fd, count)
       PROVE  /\ open_files[fd] \in FileDescriptor
              /\ root[open_files[fd].file] \in File
              /\ root[open_files[fd].file].file_size + count <= MaxSize
              /\ \A pc \in {"alloc", "xfer"}, block \in FatEntry :
                   InCall(pc, fd, count, block) \in Calls
  <2>1. open_files[fd] \in FileDescriptor
    BY <1>11 DEF Writable, IsOpen
  <2>2. root[open_files[fd].file] \in File
    BY <2>1 DEF FileDescriptor, Root
  <2>3. fd \in Nat /\ count \in 0 .. MaxCount
    BY MaxCountAssumption, NumFdsAssumption DEF Fds, CountMod
  <2>4. \A pc \in {"alloc", "xfer"}, block \in FatEntry :
          InCall(pc, fd, count, block) \in Calls
    BY <2>3 DEF InCall, Calls
  <2> QED
    BY <1>11, <2>1, <2>2, <2>4 DEF Writable
<1>12. CASE \E fd \in Fds, count \in 1 .. MaxCount : Write(fd, count)
  <2>1. PICK fd \in Fds, count \in 1 .. MaxCount : Write(fd, count)
    BY <1>12
  <2>2. Writable(fd, count)
    BY <2>1 DEF Write
  <2> DEFINE first == root[open_files[fd].file].first_index
  <2>3. first \in Blocks /\ first \in FatEntry
    BY <1>11, <2>1, <2>2 DEF Write, File, FatEntry
  <2>4. call' = InCall("alloc", fd, count, first) /\ call' \in Calls
    BY <1>11, <2>1, <2>2, <2>3 DEF Write
  <2>5. CallTyped'
    BY <1>11, <2>1, <2>2, <2>3, <2>4 DEF Write, Writable, InCall, CallTyped, IsOpen
  <2> QED
    BY <2>1, <2>4, <2>5 DEF Write
<1>13. CASE \E fd \in Fds, count \in 1 .. MaxCount : WriteFirstBlock(fd, count)
  <2>1. PICK fd \in Fds, count \in 1 .. MaxCount : WriteFirstBlock(fd, count)
    BY <1>13
  <2>2. Writable(fd, count)
    BY <2>1 DEF WriteFirstBlock
  <2> DEFINE i     == open_files[fd].file
             block == Least(FreeBlocks(fat))
  <2>3. block \in DataBlocks /\ block \in Blocks /\ block \in FatEntry
    BY <2>1, FreeBlockIsData, BlockFacts DEF WriteFirstBlock, FatEntry
  <2>4. fat' \in Fat
    BY <2>1, <2>3 DEF WriteFirstBlock, Fat, FatEntry
  <2>5. i \in Files /\ root[i] \in File
    BY <1>11, <2>2 DEF FileDescriptor
  <2>6. root' = [root EXCEPT ![i] = [root[i] EXCEPT !.first_index = block]]
    BY <2>1, <2>5 DEF WriteFirstBlock
  <2>7. /\ [root[i] EXCEPT !.first_index = block] \in File
        /\ [root[i] EXCEPT !.first_index = block].file_size = root[i].file_size
    BY <2>3, <2>5 DEF File
  <2>8. root' \in Root /\ root'[i].file_size = root[i].file_size
    BY <2>5, <2>6, <2>7 DEF Root
  <2>9. call' = InCall("alloc", fd, count, block) /\ call' \in Calls
    BY <1>11, <2>1, <2>2, <2>3 DEF WriteFirstBlock
  <2>10. CallTyped'
    BY <1>11, <2>1, <2>2, <2>3, <2>8, <2>9
    DEF WriteFirstBlock, Writable, InCall, CallTyped, IsOpen
  <2> QED
    BY <2>1, <2>4, <2>8, <2>9, <2>10 DEF WriteFirstBlock
<1>14. CASE \E fd \in Fds, count \in 1 .. MaxCount : WriteNoBlock(fd, count)
  <2>1. PICK fd \in Fds, count \in 1 .. MaxCount : WriteNoBlock(fd, count)
    BY <1>14
  <2>2. Writable(fd, count)
    BY <2>1 DEF WriteNoBlock
  <2>3. call' = InCall("xfer", fd, count, FAT_EOC) /\ call' \in Calls
    BY <1>11, <2>1, <2>2 DEF WriteNoBlock, FatEntry
  <2>4. CallTyped'
    BY <1>11, <2>1, <2>2, <2>3 DEF WriteNoBlock, Writable, InCall, CallTyped, IsOpen
  <2> QED
    BY <2>1, <2>3, <2>4 DEF WriteNoBlock
<1>15. CASE UmountRoot
  BY <1>15, IdleTyped DEF UmountRoot, CallTyped, Idle
<1>16. CASE FreeBlock
  <2>1. call.block \in Blocks /\ call.arg \in Files
    BY <1>16 DEF FreeBlock, CallTyped
  <2>2. fat' \in Fat
    BY <1>16, <2>1, BlockFacts DEF FreeBlock, Fat, FatEntry
  <2>3. fat'[call.block] = 0
    BY <1>16, <2>1 DEF FreeBlock, Fat
  <2>4. call' = [call EXCEPT !.block = 0]
    BY <1>16, <2>3 DEF FreeBlock
  <2>5. call' \in Calls
    BY <2>4, BlockFacts DEF Calls, FatEntry
  <2>6. CallTyped'
    BY <1>16, <2>1, <2>4, BlockFacts DEF FreeBlock, CallTyped, Calls
  <2> QED
    BY <1>16, <2>2, <2>5, <2>6 DEF FreeBlock
<1>17. CASE FreeLast
  <2>1. call.block \in Blocks /\ call.arg \in Files
    BY <1>17 DEF FreeLast, CallTyped
  <2>2. fat' \in Fat
    BY <1>17, <2>1, BlockFacts DEF FreeLast, Fat, FatEntry
  <2>3. DeletedFile \in File
    BY MaxSizeAssumption DEF DeletedFile, File, FatEntry
  <2>4. root' \in Root
    BY <1>17, <2>3 DEF FreeLast, Root
  <2>5. CallTyped'
    BY <1>17 DEF FreeLast, CallTyped, Idle
  <2> QED
    BY <1>17, <2>2, <2>4, <2>5, IdleTyped DEF FreeLast
<1>18. CASE Walk
  <2>1. call.block \in Blocks
    BY <1>18 DEF Walk, CallTyped
  <2>2. fat[call.block] \in Blocks /\ fat[call.block] \in FatEntry
    BY <1>18, <2>1 DEF Walk, Fat, FatEntry
  <2>3. call' \in Calls
    <3>1. call \in Calls /\ call.have + 1 \in Nat
      BY DEF Calls
    <3>2. call' = [call EXCEPT !.block = fat[call.block], !.have = call.have + 1]
      BY <1>18 DEF Walk
    <3> HIDE DEF TypeInv, TypeOK
    <3> QED
      BY <2>2, <3>1, <3>2 DEF Calls
  <2>4. CallTyped'
    BY <1>18, <2>2 DEF Walk, CallTyped, IsOpen, Calls
  <2> QED
    BY <1>18, <2>3, <2>4 DEF Walk
<1>19. CASE Extend
  <2> DEFINE block == Least(FreeBlocks(fat))
  <2>1. call.block \in Blocks
    BY <1>19 DEF Extend, CallTyped
  <2>2. block \in Blocks /\ block \in FatEntry
    BY <1>19, FreeBlockIsData, BlockFacts DEF Extend, FatEntry
  <2>3. fat' \in Fat
    BY <1>19, <2>1, <2>2 DEF Extend, Fat, FatEntry
  <2>4. call' \in Calls
    <3>1. call \in Calls /\ call.have + 1 \in Nat
      BY DEF Calls
    <3>2. call' = [call EXCEPT !.block = block, !.have = call.have + 1]
      BY <1>19 DEF Extend
    <3> HIDE DEF TypeInv, TypeOK
    <3> QED
      BY <2>2, <3>1, <3>2 DEF Calls
  <2>5. CallTyped'
    BY <1>19, <2>2 DEF Extend, CallTyped, IsOpen, Calls
  <2> QED
    BY <1>19, <2>3, <2>4, <2>5 DEF Extend
<1>20. CASE Allocated
  <2>1. call' \in Calls
    BY <1>20 DEF Allocated, Calls
  <2>2. CallTyped'
    BY <1>20 DEF Allocated, CallTyped, IsOpen, Calls
  <2> QED
    BY <1>20, <2>1, <2>2 DEF Allocated
<1>21. CASE WriteAll
  <2> DEFINE fd == call.arg
             i  == open_files[fd].file
  <2>1. /\ fd \in Fds
        /\ open_files[fd] \in FileDescriptor
        /\ root[i].file_size + call.count <= MaxSize
    BY <1>21 DEF WriteAll, CallTyped, IsOpen
  <2>2. i \in Files /\ root[i] \in File
    BY <2>1 DEF FileDescriptor, Root
  <2>3. root[i].file_size + call.count \in 0 .. MaxSize
    BY <2>1, <2>2, MaxSizeAssumption, MaxCountAssumption DEF File, Calls
  <2>4. open_files[fd].offset + call.count \in Nat
    BY <2>1, OffsetModAssumption, MaxCountAssumption DEF FileDescriptor, Calls
  <2>5. ToOffset(open_files[fd].offset + call.count) \in 0 .. OffsetMod - 1
    BY <2>4, ToOffsetRange
  <2>6. open_files' \in [Fds -> FileDescriptor \union {NULL}]
    BY <1>21, <2>1, <2>5 DEF WriteAll, FileDescriptor
  <2>7. root' \in Root
    BY <1>21, <2>2, <2>3 DEF WriteAll, Root, File
  <2>8. CallTyped'
    BY <1>21 DEF WriteAll, CallTyped, Idle
  <2> QED
    BY <1>21, <2>6, <2>7, <2>8, IdleTyped DEF WriteAll
<1>22. CASE WriteShort
  BY <1>22, IdleTyped DEF WriteShort, CallTyped, Idle
<1>23. CASE Kill
  <2>1. NoneOpen \in [Fds -> FileDescriptor \union {NULL}]
    BY DEF NoneOpen
  <2> QED
    BY <1>23, <2>1, IdleTyped DEF Kill, CallTyped, Idle, CountMod
<1>24. CASE UNCHANGED vars
  BY <1>24 DEF vars, CallTyped, IsOpen
<1> QED
  BY <1>1, <1>2, <1>3, <1>4, <1>5, <1>6, <1>7, <1>8, <1>9, <1>10, <1>12, <1>13,
     <1>14, <1>15, <1>16, <1>17, <1>18, <1>19, <1>20, <1>21, <1>22, <1>23, <1>24
  DEF Next, Caller, CallStep

(* However a process dies, even in the middle of fs_umount, every variable *)
(* keeps its type: offsets and sizes stay within the width of their        *)
(* fields, and a FAT entry is 0, FAT_EOC or the index of a block.          *)
THEOREM TypeCorrect == CrashSpec => []TypeOK
<1>1. TypeInv => TypeOK
  BY DEF TypeInv
<1> QED
  BY TypeInit, TypeStep, <1>1, PTL DEF CrashSpec

-----------------------------------------------------------------------------
(***************************************************************************)
(* Descriptors and names.  fs_create refuses a name that is taken, and     *)
(* fs_delete the name of an open file; as names differ, no descriptor is   *)
(* left on an entry that is emptied.                                       *)
(***************************************************************************)
LEMMA DescriptorInit == Init => DescriptorInv
<1> SUFFICES ASSUME Init PROVE DescriptorInv
  OBVIOUS
<1>1. Live(FormattedRoot) = {}
  BY DEF Live, FormattedRoot
<1> QED
  BY <1>1 DEF Init, DescriptorInv, OpenFilesExist, NamesDiffer, Idle

(* Two directories that agree on the names have the same files.            *)
LEMMA SameNames ==
  ASSUME NEW r1, NEW r2, \A i \in Files : r1[i].filename = r2[i].filename
  PROVE  Live(r1) = Live(r2) /\ (NamesDiffer(r1) => NamesDiffer(r2))
<1>1. Live(r1) = Live(r2)
  BY DEF Live
<1> QED
  BY <1>1 DEF NamesDiffer, Live

(* Emptying an entry takes its file away and leaves the others.            *)
LEMMA EmptiedEntry ==
  ASSUME NEW r \in Root, NEW i \in Files
  PROVE  /\ Live([r EXCEPT ![i] = DeletedFile]) = Live(r) \ {i}
         /\ NamesDiffer(r) => NamesDiffer([r EXCEPT ![i] = DeletedFile])
<1> DEFINE r2 == [r EXCEPT ![i] = DeletedFile]
<1>1. /\ r2[i].filename = NoName
      /\ \A j \in Files : j # i => r2[j] = r[j]
  BY DEF Root, DeletedFile
<1> HIDE DEF r2
<1>2. Live(r2) = Live(r) \ {i}
  BY <1>1 DEF Live
<1>3. NamesDiffer(r) => NamesDiffer(r2)
  BY <1>1 DEF NamesDiffer, Live
<1> QED
  BY <1>2, <1>3 DEF r2

LEMMA DescriptorStep ==
  TypeInv /\ DescriptorInv /\ [Next \/ Kill]_vars => DescriptorInv'
<1> SUFFICES ASSUME TypeInv, DescriptorInv, [Next \/ Kill]_vars
             PROVE  DescriptorInv'
  OBVIOUS
<1> USE DEF TypeInv, TypeOK, DescriptorInv, OpenFilesExist
<1>1. CASE MountOk
  <2>1. OpenFds' = {}
    BY <1>1 DEF MountOk, OpenFds, IsOpen, NoneOpen
  <2> QED
    BY <1>1, <2>1 DEF MountOk, Idle
<1>2. CASE MountFails
  BY <1>2 DEF MountFails, Idle
<1>3. CASE Umount
  <2>1. disk'.root = disk.root /\ OpenFds' = OpenFds /\ call'.pc = "saving"
    BY <1>3 DEF Umount, OpenFds, IsOpen, Idle
  <2> QED
    BY <1>3, <2>1 DEF Umount, Ready
<1>4. CASE \E name \in Names : Create(name)
  <2>1. PICK name \in Names : Create(name)
    BY <1>4
  <2> DEFINE e == Least(Named(NoName))
             new == [filename |-> name, file_size |-> 0, first_index |-> FAT_EOC]
  <2>2. e \in Files /\ Named(name) = {}
    BY <2>1, EmptyEntryIsFile DEF Create
  <2>3. root' = [root EXCEPT ![e] = new]
    BY <2>1 DEF Create
  <2> HIDE DEF e
  <2>4. /\ root'[e].filename = name
        /\ \A i \in Files : i # e => root'[i] = root[i]
    BY <2>2, <2>3 DEF Root
  <2>5. Live(root) \subseteq Live(root')
    BY <2>4, NamesAssumption DEF Live
  <2>6. NamesDiffer(root')
    BY <2>2, <2>4 DEF NamesDiffer, Live, Named
  <2>7. OpenFds' = OpenFds
    BY <2>1 DEF Create, OpenFds, IsOpen
  <2> QED
    BY <2>1, <2>5, <2>6, <2>7 DEF Create, Ready, Idle
<1>5. CASE \E name \in Names : DeleteEmpty(name)
  <2>1. PICK name \in Names, i \in Files :
          /\ Deletable(name, i)
          /\ root' = [root EXCEPT ![i] = DeletedFile]
          /\ UNCHANGED <<status, fat, open_files, num_open_files, disk, call>>
    BY <1>5 DEF DeleteEmpty
  <2>2. \A fd \in OpenFds : open_files[fd].file # i
    BY <2>1 DEF Deletable, Named
  <2>3. Live(root') = Live(root) \ {i} /\ NamesDiffer(root')
    BY <2>1, EmptiedEntry
  <2>4. OpenFds' = OpenFds
    BY <2>1 DEF OpenFds, IsOpen
  <2> QED
    BY <2>1, <2>2, <2>3, <2>4 DEF Deletable, Ready, Idle
<1>6. CASE \E name \in Names : Delete(name)
  <2>1. PICK name \in Names, i \in Files :
          /\ Deletable(name, i)
          /\ call' = [Idle EXCEPT !.pc = "free", !.arg = i, !.block = root[i].first_index]
          /\ UNCHANGED <<status, fat, root, open_files, num_open_files, disk>>
    BY <1>6 DEF Delete
  <2>2. i \in Live(root) /\ \A fd \in OpenFds : open_files[fd].file # i
    BY <2>1, NamesAssumption DEF Deletable, Named, Live
  <2>3. call'.arg = i /\ OpenFds' = OpenFds
    BY <2>1 DEF Idle, OpenFds, IsOpen
  <2> QED
    BY <2>1, <2>2, <2>3 DEF Deletable, Ready
<1>7. CASE \E name \in Names : Open(name)
  <2>1. PICK name \in Names : Open(name)
    BY <1>7
  <2>2. PICK i \in Named(name) :
          /\ Ready
          /\ OpenFds # Fds
          /\ open_files' = [open_files EXCEPT ![Least(Fds \ OpenFds)] =
               [file |-> i, offset |-> 0]]
          /\ UNCHANGED <<status, fat, root, disk, call>>
    BY <2>1 DEF Open, AddFile
  <2>3. i \in Live(root)
    BY NamesAssumption DEF Named, Live
  <2>4. \A fd \in OpenFds' : open_files'[fd].file \in Live(root)
    BY <2>2, <2>3 DEF Ready, OpenFds, IsOpen
  <2> QED
    BY <2>2, <2>4 DEF Ready, Idle
<1>8. CASE \E fd \in Fds : Close(fd)
  <2>1. PICK fd \in Fds : Close(fd)
    BY <1>8
  <2>2. OpenFds' \subseteq OpenFds
    BY <2>1 DEF Close, OpenFds, IsOpen
  <2>3. \A k \in OpenFds' : open_files'[k] = open_files[k]
    BY <2>1 DEF Close, OpenFds, IsOpen
  <2> QED
    BY <2>1, <2>2, <2>3 DEF Close, FlaggedMounted, Idle
<1>9. CASE \E fd \in Fds, offset \in 0 .. MaxSize : Lseek(fd, offset)
  <2>1. PICK fd \in Fds, offset \in 0 .. MaxSize : Lseek(fd, offset)
    BY <1>9
  <2>2. open_files[fd] \in FileDescriptor
    BY <2>1 DEF Lseek, IsOpen
  <2>3. open_files' = [open_files EXCEPT ![fd] =
          [open_files[fd] EXCEPT !.offset = ToOffset(offset)]]
    BY <2>1 DEF Lseek
  <2>4. \A k \in OpenFds' : k \in OpenFds /\ open_files'[k].file = open_files[k].file
    BY <2>1, <2>2, <2>3 DEF Lseek, OpenFds, IsOpen, FileDescriptor
  <2> QED
    BY <2>1, <2>4 DEF Lseek, Ready, Idle
<1>10. CASE \E fd \in Fds, count \in 1 .. MaxCount : Read(fd, count)
  <2>1. PICK fd \in Fds, count \in 1 .. MaxCount : Read(fd, count)
    BY <1>10
  <2>2. open_files[fd] \in FileDescriptor
    BY <2>1 DEF Read, IsOpen
  <2>3. open_files' = [open_files EXCEPT ![fd] =
          [open_files[fd] EXCEPT !.offset = ToOffset(open_files[fd].offset + count)]]
    BY <2>1 DEF Read
  <2>4. \A k \in OpenFds' : k \in OpenFds /\ open_files'[k].file = open_files[k].file
    BY <2>1, <2>2, <2>3 DEF Read, OpenFds, IsOpen, FileDescriptor
  <2> QED
    BY <2>1, <2>4 DEF Read, Ready, Idle
<1>11. CASE \E fd \in Fds, count \in 1 .. MaxCount :
              Write(fd, count) \/ WriteNoBlock(fd, count)
  <2>1. /\ call'.pc \in {"alloc", "xfer"} /\ status = "mounted"
        /\ call = Idle
        /\ UNCHANGED <<status, root, open_files, disk>>
    BY <1>11 DEF Write, WriteNoBlock, Writable, Ready, InCall
  <2> QED
    BY <2>1 DEF OpenFds, IsOpen
<1>12. CASE \E fd \in Fds, count \in 1 .. MaxCount : WriteFirstBlock(fd, count)
  <2>1. PICK fd \in Fds, count \in 1 .. MaxCount : WriteFirstBlock(fd, count)
    BY <1>12
  <2> DEFINE i == open_files[fd].file
  <2>2. /\ call'.pc = "alloc" /\ status = "mounted"
        /\ UNCHANGED <<status, open_files, disk>>
        /\ root' = [root EXCEPT ![i].first_index = Least(FreeBlocks(fat))]
    BY <2>1 DEF WriteFirstBlock, Writable, Ready, InCall
  <2>3. \A j \in Files : root[j].filename = root'[j].filename
    BY <2>2 DEF Root, File
  <2>4. Live(root') = Live(root) /\ NamesDiffer(root')
    BY <2>3, SameNames
  <2> QED
    BY <2>2, <2>4 DEF OpenFds, IsOpen
<1>13. CASE UmountRoot
  <2>1. disk'.root = root
    BY <1>13 DEF UmountRoot
  <2> QED
    BY <1>13, <2>1 DEF UmountRoot, Idle
<1>14. CASE FreeBlock
  <2>1. call'.pc = call.pc /\ call'.arg = call.arg
    BY <1>14 DEF FreeBlock, Calls
  <2> QED
    BY <1>14, <2>1 DEF FreeBlock, OpenFds, IsOpen
<1>15. CASE FreeLast
  <2>1. Live(root') = Live(root) \ {call.arg} /\ NamesDiffer(root')
    BY <1>15, EmptiedEntry DEF FreeLast, CallTyped
  <2> QED
    BY <1>15, <2>1 DEF FreeLast, OpenFds, IsOpen, Idle
<1>16. CASE Walk \/ Extend \/ Allocated
  <2>1. /\ call.pc = "alloc" /\ call'.pc \in {"alloc", "xfer"}
        /\ UNCHANGED <<status, root, open_files, disk>>
    BY <1>16 DEF Walk, Extend, Allocated, Calls
  <2> QED
    BY <2>1 DEF OpenFds, IsOpen
<1>17. CASE WriteAll
  <2> DEFINE fd == call.arg
             i  == open_files[fd].file
  <2>1. fd \in Fds /\ open_files[fd] \in FileDescriptor
    BY <1>17 DEF WriteAll, CallTyped, IsOpen
  <2>2. /\ open_files' = [open_files EXCEPT ![fd] =
             [open_files[fd] EXCEPT !.offset = ToOffset(open_files[fd].offset + call.count)]]
        /\ root' = [root EXCEPT ![i] =
             [root[i] EXCEPT !.file_size = root[i].file_size + call.count]]
    BY <1>17 DEF WriteAll
  <2>3. \A k \in OpenFds' : k \in OpenFds /\ open_files'[k].file = open_files[k].file
    <3> HIDE DEF i
    <3>1. \A k \in Fds : k # fd => open_files'[k] = open_files[k]
      BY <2>1, <2>2
    <3>2. open_files'[fd].file = open_files[fd].file /\ fd \in OpenFds
      BY <1>17, <2>1, <2>2 DEF WriteAll, CallTyped, OpenFds, FileDescriptor
    <3> QED
      BY <3>1, <3>2 DEF OpenFds, IsOpen
  <2>4. \A j \in Files : root[j].filename = root'[j].filename
    BY <2>2 DEF Root, File
  <2>5. Live(root') = Live(root) /\ NamesDiffer(root')
    BY <2>4, SameNames
  <2>6. status = "mounted"
    BY <1>17 DEF WriteAll
  <2> QED
    BY <1>17, <2>3, <2>5, <2>6 DEF WriteAll, Idle
<1>18. CASE WriteShort
  BY <1>18 DEF WriteShort, OpenFds, IsOpen, Idle
<1>19. CASE Kill
  BY <1>19 DEF Kill, Idle
<1>20. CASE UNCHANGED vars
  BY <1>20 DEF vars, OpenFds, IsOpen
<1> QED
  BY <1>1, <1>2, <1>3, <1>4, <1>5, <1>6, <1>7, <1>8, <1>9, <1>10, <1>11, <1>12,
     <1>13, <1>14, <1>15, <1>16, <1>17, <1>18, <1>19, <1>20
  DEF Next, Caller, CallStep

(* Names stay unique and every open descriptor belongs to a file that      *)
(* exists, whenever the process dies: fs_create and fs_delete guard them   *)
(* by looking at names only.                                               *)
THEOREM DescriptorsCorrect == CrashSpec => []OpenFilesExist
<1>1. DescriptorInv => OpenFilesExist
  BY DEF DescriptorInv
<1> QED
  BY TypeInit, TypeStep, DescriptorInit, DescriptorStep, <1>1, PTL DEF CrashSpec

-----------------------------------------------------------------------------
(***************************************************************************)
(* The volume.  Every change to the FAT is one of those of FatVolumeProofs *)
(* and every change to the directory leaves the heads where they are.      *)
(***************************************************************************)
LEMMA VolumeInit == Init => VolumeInv
BY FormattedSound DEF Init, VolumeInv, VolumesSound, Idle

LEMMA IntactFiles ==
  /\ call.pc # "free" => Intact = Live(root)
  /\ call.pc = "free" => Intact = Live(root) \ {call.arg}
BY DEF Intact, Target

(* fs_delete leaves a sound volume behind it: what is left of VolumeInv    *)
(* when its loop is over is the volume without the deleted file.           *)
LEMMA VolumeStep ==
  TypeInv /\ DescriptorInv /\ VolumeInv /\ [Next]_vars => VolumeInv'
<1> SUFFICES ASSUME TypeInv, DescriptorInv, VolumeInv, [Next]_vars
             PROVE  VolumeInv'
  OBVIOUS
<1> USE DEF VolumeInv, VolumesSound
<1>1. /\ fat \in Fat /\ root \in Root /\ disk \in [fat: Fat, root: Root]
      /\ call \in Calls
      /\ Live(root) \subseteq Files
  BY DEF TypeInv, TypeOK, Live
<1>2. call.pc # "idle" => status = "mounted"
  BY DEF DescriptorInv
<1>3. ASSUME status = "mounted", call = Idle
      PROVE  /\ VolumeSound(fat, root, Live(root))
             /\ VolumeSound(disk.fat, disk.root, Live(disk.root))
             /\ \A fd \in Fds : IsOpen(fd) => open_files[fd].file \in Live(root)
  BY <1>3, IntactFiles DEF Idle, DescriptorInv, OpenFilesExist, OpenFds
<1>4. CASE MountOk
  BY <1>4, IntactFiles DEF MountOk, Idle, Intact
<1>5. CASE MountFails
  BY <1>5 DEF MountFails, Idle
<1>6. CASE Umount
  <2>1. /\ status = "mounted" /\ call = Idle
        /\ call'.pc = "saving" /\ disk'.fat = fat
        /\ UNCHANGED <<status, fat, root>>
    BY <1>1, <1>6 DEF Umount, Ready, Idle
  <2>2. Intact' = Live(root)
    BY <2>1 DEF Intact
  <2> QED
    BY <1>3, <2>1, <2>2
<1>7. CASE UmountRoot
  <2>1. /\ call.pc = "saving" /\ status = "mounted" /\ disk.fat = fat
        /\ disk' = [disk EXCEPT !.root = root]
        /\ status' = "unmounted" /\ call' = Idle
    BY <1>2, <1>7 DEF UmountRoot
  <2>2. disk'.fat = fat /\ disk'.root = root
    BY <1>1, <2>1
  <2>3. VolumeSound(fat, root, Live(root))
    BY <2>1, IntactFiles
  <2> QED
    BY <2>1, <2>2, <2>3 DEF Idle
<1>8. CASE \E name \in Names : Create(name) \/ DeleteEmpty(name)
  <2>1. PICK name \in Names : Create(name) \/ DeleteEmpty(name)
    BY <1>8
  <2>2. /\ status = "mounted" /\ call = Idle
        /\ UNCHANGED <<status, fat, disk, call>>
    BY <2>1 DEF Create, DeleteEmpty, Deletable, Ready
  <2>3. PICK i \in Files, f \in File :
          f.first_index = FAT_EOC /\ root' = [root EXCEPT ![i] = f]
    <3>1. CASE Create(name)
      <4> DEFINE f == [filename |-> name, file_size |-> 0, first_index |-> FAT_EOC]
      <4>1. Least(Named(NoName)) \in Files
        BY <3>1, EmptyEntryIsFile DEF Create
      <4>2. f \in File /\ f.first_index = FAT_EOC
        BY MaxSizeAssumption DEF File, FatEntry
      <4> QED
        BY <3>1, <4>1, <4>2 DEF Create
    <3>2. CASE DeleteEmpty(name)
      <4>1. DeletedFile \in File /\ DeletedFile.first_index = FAT_EOC
        BY MaxSizeAssumption DEF DeletedFile, File, FatEntry
      <4> QED
        BY <3>2, <4>1 DEF DeleteEmpty
    <3> QED
      BY <2>1, <3>1, <3>2
  <2>4. \A j \in Live(root') :
          \/ root'[j].first_index = FAT_EOC
          \/ j \in Live(root) /\ root'[j].first_index = root[j].first_index
    BY <1>1, <2>3 DEF Live, Root
  <2>5. Live(root') \in SUBSET Files
    BY DEF Live
  <2>6. VolumeSound(fat, root', Live(root'))
    BY <1>3, <2>2, <2>4, <2>5, SameHeads
  <2>7. Intact' = Live(root')
    BY <2>2 DEF Intact, Idle
  <2> QED
    BY <1>3, <2>2, <2>6, <2>7 DEF Idle
<1>9. CASE \E name \in Names : Delete(name)
  <2>1. PICK name \in Names, i \in Files :
          /\ Deletable(name, i)
          /\ root[i].first_index # FAT_EOC
          /\ call' = [Idle EXCEPT !.pc = "free", !.arg = i, !.block = root[i].first_index]
          /\ UNCHANGED <<status, fat, root, open_files, num_open_files, disk>>
    BY <1>9 DEF Delete
  <2>2. status = "mounted" /\ call = Idle
    BY <2>1 DEF Deletable, Ready
  <2>3. call'.pc = "free" /\ call'.arg = i /\ call'.block = root[i].first_index
    BY <2>1 DEF Idle
  <2>4. Intact' = Live(root) \ {i}
    BY <2>1, <2>3 DEF Intact, Target
  <2>5. VolumeSound(fat, root, Live(root) \ {i})
    BY <1>1, <1>3, <2>2, SameHeads
  <2> QED
    BY <1>3, <2>1, <2>2, <2>3, <2>4, <2>5
<1>10. CASE FreeBlock
  <2>1. /\ call.pc = "free" /\ status = "mounted"
        /\ call.block \in Blocks /\ call.arg \in Files /\ call.arg \in Live(root)
        /\ fat' = [fat EXCEPT ![call.block] = 0]
        /\ UNCHANGED <<status, root, disk>>
    BY <1>2, <1>10 DEF FreeBlock, TypeInv, CallTyped, DescriptorInv
  <2>2. fat'[call.block] = 0
    BY <1>1, <2>1 DEF Fat
  <2>3. call'.pc = "free" /\ call'.arg = call.arg /\ call'.block = 0
    BY <1>1, <1>10, <2>1, <2>2 DEF FreeBlock, Calls
  <2>4. Intact = Live(root) \ {call.arg} /\ Intact' = Live(root) \ {call.arg}
    BY <2>1, <2>3 DEF Intact, Target
  <2>5. VolumeSound(fat', root, Live(root) \ {call.arg})
    <3>1. CASE call.block = 0
      <4>1. VolumeSound(fat, root, Live(root) \ {call.arg})
        BY <2>1, <2>4
      <4> QED
        BY <1>1, <2>1, <3>1, <4>1, FreeReservedSound
    <3>2. CASE call.block # 0
      BY <1>1, <2>1, <3>2, FreeHeadSound
    <3> QED
      BY <3>1, <3>2
  <2> QED
    BY <2>1, <2>3, <2>4, <2>5
<1>11. CASE FreeLast
  <2>1. /\ call.pc = "free" /\ status = "mounted"
        /\ call.block \in Blocks /\ call.arg \in Files /\ call.arg \in Live(root)
        /\ fat' = [fat EXCEPT ![call.block] = 0]
        /\ root' = [root EXCEPT ![call.arg] = DeletedFile]
        /\ call' = Idle
        /\ UNCHANGED <<status, disk>>
    BY <1>2, <1>11 DEF FreeLast, TypeInv, CallTyped, DescriptorInv
  <2>2. VolumeSound(fat', root, Live(root) \ {call.arg})
    <3>1. CASE call.block = 0
      <4>1. VolumeSound(fat, root, Live(root) \ {call.arg})
        BY <2>1, IntactFiles
      <4> QED
        BY <1>1, <2>1, <3>1, <4>1, FreeReservedSound
    <3>2. CASE call.block # 0
      BY <1>1, <2>1, <3>2, FreeHeadSound
    <3> QED
      BY <3>1, <3>2
  <2>3. Live(root') = Live(root) \ {call.arg}
    BY <1>1, <2>1, EmptiedEntry
  <2>4. \A j \in Live(root') : root'[j].first_index = root[j].first_index
    BY <1>1, <2>1, <2>3 DEF Root
  <2>5. VolumeSound(fat', root', Live(root'))
    BY <1>1, <2>2, <2>3, <2>4, SameHeads
  <2>6. Intact' = Live(root')
    BY <2>1 DEF Intact, Idle
  <2> QED
    BY <2>1, <2>5, <2>6 DEF Idle
<1>12. CASE \E fd \in Fds, count \in 1 .. MaxCount : Write(fd, count)
  <2>1. PICK fd \in Fds, count \in 1 .. MaxCount : Write(fd, count)
    BY <1>12
  <2> DEFINE i == open_files[fd].file
  <2>2. /\ status = "mounted" /\ call = Idle /\ IsOpen(fd)
        /\ root[i].first_index # FAT_EOC
        /\ UNCHANGED <<status, fat, root, disk>>
        /\ call'.pc = "alloc" /\ call'.block = root[i].first_index
    BY <2>1 DEF Write, Writable, Ready, InCall
  <2>3. root[i].first_index \in DataBlocks /\ fat[root[i].first_index] # 0
    BY <1>3, <2>2 DEF VolumeSound, HeadSound
  <2>4. Intact' = Live(root)
    BY <2>2 DEF Intact
  <2> QED
    BY <1>3, <2>2, <2>3, <2>4
<1>13. CASE \E fd \in Fds, count \in 1 .. MaxCount : WriteFirstBlock(fd, count)
  <2>1. PICK fd \in Fds, count \in 1 .. MaxCount : WriteFirstBlock(fd, count)
    BY <1>13
  <2> DEFINE i     == open_files[fd].file
             block == Least(FreeBlocks(fat))
  <2>2. /\ status = "mounted" /\ call = Idle /\ IsOpen(fd)
        /\ root[i].first_index = FAT_EOC
        /\ fat' = [fat EXCEPT ![block] = FAT_EOC]
        /\ root' = [root EXCEPT ![i].first_index = block]
        /\ UNCHANGED <<status, disk>>
        /\ call'.pc = "alloc" /\ call'.block = block
    BY <2>1 DEF WriteFirstBlock, Writable, Ready, InCall
  <2>3. block \in DataBlocks /\ fat[block] = 0
    BY <1>1, <2>1, FreeBlockIsData DEF WriteFirstBlock
  <2>4. i \in Files
    BY <1>1, <1>3, <2>2
  <2> HIDE DEF i, block
  <2>5. VolumeSound(fat', root', Live(root))
    BY <1>1, <1>3, <2>2, <2>3, <2>4, FirstBlockSound
  <2>6. \A j \in Files : root[j].filename = root'[j].filename
    BY <1>1, <2>2 DEF Root, File
  <2>7. Live(root') = Live(root) /\ Intact' = Live(root')
    BY <2>2, <2>6, SameNames DEF Intact
  <2>8. fat'[block] # 0
    BY <1>1, <2>2, <2>3, BlockFacts DEF Fat
  <2> QED
    BY <1>3, <2>2, <2>3, <2>5, <2>7, <2>8
<1>14. CASE \E fd \in Fds, count \in 1 .. MaxCount : WriteNoBlock(fd, count)
  <2>1. /\ status = "mounted" /\ call = Idle
        /\ UNCHANGED <<status, fat, root, disk>> /\ call'.pc = "xfer"
    BY <1>14 DEF WriteNoBlock, Writable, Ready, InCall
  <2>2. Intact' = Live(root)
    BY <2>1 DEF Intact
  <2> QED
    BY <1>3, <2>1, <2>2
<1>15. CASE Walk
  <2>1. /\ call.pc = "alloc" /\ status = "mounted"
        /\ fat[call.block] # FAT_EOC
        /\ UNCHANGED <<status, fat, root, disk>>
        /\ call'.pc = "alloc" /\ call'.block = fat[call.block]
    BY <1>1, <1>2, <1>15 DEF Walk, Calls
  <2>2. VolumeSound(fat, root, Live(root)) /\ IsLink(fat, call.block)
    BY <2>1, IntactFiles DEF IsLink
  <2>3. fat[call.block] \in DataBlocks /\ fat[fat[call.block]] # 0
    BY <1>1, <2>2, BlockFacts DEF VolumeSound, LinksSound, IsLink, Fat, FatEntry, DataBlocks
  <2>4. Intact' = Live(root)
    BY <2>1 DEF Intact
  <2> QED
    BY <2>1, <2>2, <2>3, <2>4
<1>16. CASE Extend
  <2> DEFINE block == Least(FreeBlocks(fat))
  <2>1. /\ call.pc = "alloc" /\ status = "mounted"
        /\ fat[call.block] = FAT_EOC
        /\ fat' = [fat EXCEPT ![call.block] = block, ![block] = FAT_EOC]
        /\ UNCHANGED <<status, root, disk>>
        /\ call'.pc = "alloc" /\ call'.block = block
    BY <1>1, <1>2, <1>16 DEF Extend, Calls
  <2>2. block \in DataBlocks /\ fat[block] = 0
    BY <1>1, <1>16, FreeBlockIsData DEF Extend
  <2> HIDE DEF block
  <2>3. VolumeSound(fat, root, Live(root))
    BY <2>1, IntactFiles
  <2>4. VolumeSound(fat', root, Live(root))
    BY <1>1, <2>1, <2>2, <2>3, LinkSound
  <2>5. fat'[block] # 0
    BY <1>1, <2>1, <2>2, BlockFacts DEF Fat
  <2>6. Intact' = Live(root)
    BY <2>1 DEF Intact
  <2> QED
    BY <2>1, <2>2, <2>4, <2>5, <2>6
<1>17. CASE Allocated
  <2>1. /\ call.pc = "alloc" /\ status = "mounted" /\ call'.pc = "xfer"
        /\ UNCHANGED <<status, fat, root, disk>>
    BY <1>1, <1>2, <1>17 DEF Allocated, Calls
  <2>2. Intact = Live(root) /\ Intact' = Live(root)
    BY <2>1 DEF Intact
  <2> QED
    BY <2>1, <2>2
<1>18. CASE WriteAll \/ WriteShort
  <2>1. /\ call.pc = "xfer" /\ status = "mounted" /\ call' = Idle
        /\ UNCHANGED <<status, fat, disk>>
        /\ \/ root' = root
           \/ root' = [root EXCEPT ![open_files[call.arg].file].file_size = @ + call.count]
    BY <1>2, <1>18 DEF WriteAll, WriteShort
  <2>2. \A j \in Files :
          /\ root[j].filename = root'[j].filename
          /\ root'[j].first_index = root[j].first_index
    BY <1>1, <2>1 DEF Root, File
  <2>3. Live(root') = Live(root) /\ Live(root') \in SUBSET Files
    BY <1>1, <2>2, SameNames
  <2>4. VolumeSound(fat, root, Live(root))
    BY <2>1, IntactFiles
  <2>5. VolumeSound(fat, root', Live(root'))
    BY <2>2, <2>3, <2>4, SameHeads
  <2>6. Intact' = Live(root')
    BY <2>1 DEF Intact, Idle
  <2> QED
    BY <2>1, <2>5, <2>6 DEF Idle
<1>19. CASE
  \/ \E name \in Names : Open(name)
  \/ \E fd \in Fds : Close(fd)
  \/ \E fd \in Fds, offset \in 0 .. MaxSize : Lseek(fd, offset)
  \/ \E fd \in Fds, count \in 1 .. MaxCount : Read(fd, count)
  <2>1. call = Idle /\ UNCHANGED <<status, fat, root, disk, call>>
    BY <1>19 DEF Open, AddFile, Close, Lseek, Read, Ready, FlaggedMounted
  <2>2. Intact = Live(root) /\ Intact' = Live(root)
    BY <2>1 DEF Intact, Idle
  <2> QED
    BY <2>1, <2>2 DEF Idle
<1>20. CASE call.pc # "saving" /\ Kill
  BY <1>20 DEF Kill, Idle
<1>21. CASE UNCHANGED vars
  <2>1. Intact' = Intact
    BY <1>21 DEF vars, Intact, Target
  <2> QED
    BY <1>21, <2>1 DEF vars
<1> QED
  BY <1>4, <1>5, <1>6, <1>7, <1>8, <1>9, <1>10, <1>11, <1>12, <1>13, <1>14, <1>15,
     <1>16, <1>17, <1>18, <1>19, <1>20, <1>21
  DEF Next, Caller, CallStep

VolumeSpecInv == TypeInv /\ DescriptorInv /\ VolumeInv

LEMMA VolumeInvariant == Spec => []VolumeSpecInv
<1>1. Init => VolumeSpecInv
  BY TypeInit, DescriptorInit, VolumeInit DEF VolumeSpecInv
<1>2. [Next]_vars => [Next \/ Kill]_vars
  OBVIOUS
<1>3. VolumeSpecInv /\ [Next]_vars => VolumeSpecInv'
  BY <1>2, TypeStep, DescriptorStep, VolumeStep DEF VolumeSpecInv
<1> QED
  BY <1>1, <1>3, PTL DEF Spec

(* As long as no process dies inside fs_umount, no sequence of calls makes *)
(* two files share a block, leads a chain to a free one or to block 0, or  *)
(* leaves the disk in such a state; deletions that lose blocks included.   *)
THEOREM VolumesStaySound == Spec => []VolumesSound
<1>1. VolumeSpecInv => VolumesSound
  BY DEF VolumeSpecInv, VolumeInv
<1> QED
  BY VolumeInvariant, <1>1, PTL

(* A process that dies between the two writes of fs_umount leaves a sound  *)
(* volume on the disk, if the files of the old directory all still exist   *)
(* and start where they started, or had no block.                          *)
THEOREM TornSavesSound == Spec => []TornSaveSound
<1>1. VolumeSpecInv => TornSaveSound
  <2> SUFFICES ASSUME VolumeSpecInv, call.pc = "saving", KeepsOldFiles
               PROVE  VolumeSound(disk.fat, disk.root, Live(disk.root))
    BY DEF TornSaveSound
  <2>1. disk.fat = fat /\ VolumeSound(fat, root, Live(root))
    BY IntactFiles DEF VolumeSpecInv, VolumeInv, VolumesSound, DescriptorInv
  <2>2. Live(disk.root) \in SUBSET Files
    BY DEF Live
  <2>3. \A i \in Live(disk.root) :
          \/ disk.root[i].first_index = FAT_EOC
          \/ i \in Live(root) /\ disk.root[i].first_index = root[i].first_index
    BY DEF KeepsOldFiles
  <2> QED
    BY <2>1, <2>2, <2>3, SameHeads
<1> QED
  BY VolumeInvariant, <1>1, PTL

-----------------------------------------------------------------------------
(***************************************************************************)
(* The counter of open files.  It is not the number of open files, since   *)
(* fs_mount clears the slots alone, but it stays above that number, which  *)
(* is what keeps fs_close from wrapping it around.                         *)
(***************************************************************************)
LEMMA OpenFdsFinite == IsFiniteSet(OpenFds) /\ Cardinality(OpenFds) \in Nat
<1>1. IsFiniteSet(Fds)
  BY FS_Interval, NumFdsAssumption DEF Fds, CountMod
<1>2. OpenFds \subseteq Fds
  BY DEF OpenFds
<1> QED
  BY <1>1, <1>2, FS_Subset, FS_CardinalityType

LEMMA OpenCountInit == Init => OpenCountBounds
<1> SUFFICES ASSUME Init PROVE OpenCountBounds
  OBVIOUS
<1>1. OpenFds = {}
  BY DEF Init, OpenFds, IsOpen, NoneOpen
<1> QED
  BY <1>1, FS_EmptySet, NumFdsAssumption DEF Init, OpenCountBounds, CountMod

LEMMA OpenCountStep ==
  TypeInv /\ OpenCountBounds /\ [Next \/ Kill]_vars => OpenCountBounds'
<1> SUFFICES ASSUME TypeInv, OpenCountBounds, [Next \/ Kill]_vars
             PROVE  OpenCountBounds'
  OBVIOUS
<1> USE DEF OpenCountBounds
<1>1. /\ open_files \in [Fds -> FileDescriptor \union {NULL}]
      /\ num_open_files \in 0 .. CountMod - 1
      /\ NumFds + 1 \in 0 .. CountMod - 1
      /\ Cardinality({}) = 0
  BY FS_EmptySet, NumFdsAssumption DEF TypeInv, TypeOK, CountMod
<1>2. CASE \E name \in Names : Open(name)
  <2>1. PICK name \in Names : Open(name)
    BY <1>2
  <2> DEFINE fd == Least(Fds \ OpenFds)
  <2>2. PICK i \in Named(name) :
          /\ num_open_files <= NumFds
          /\ OpenFds # Fds
          /\ open_files' = [open_files EXCEPT ![fd] = [file |-> i, offset |-> 0]]
          /\ num_open_files' = (num_open_files + 1) % CountMod
    BY <2>1 DEF Open, AddFile
  <2>3. fd \in Fds /\ fd \notin OpenFds
    BY <2>2, EmptySlotIsFd DEF OpenFds, IsOpen
  <2>4. [file |-> i, offset |-> 0] # NULL
    BY NULLAssumption, OffsetModAssumption DEF FileDescriptor, Named
  <2> HIDE DEF fd
  <2>5. OpenFds' = OpenFds \union {fd}
    BY <1>1, <2>2, <2>3, <2>4 DEF OpenFds, IsOpen
  <2>6. Cardinality(OpenFds') = Cardinality(OpenFds) + 1
    BY <2>3, <2>5, OpenFdsFinite, FS_AddElement
  <2>7. num_open_files' = num_open_files + 1
    BY <1>1, <2>2, NumFdsAssumption DEF CountMod
  <2> QED
    BY <1>1, <2>2, <2>6, <2>7, OpenFdsFinite, NumFdsAssumption DEF CountMod
<1>3. CASE \E fd \in Fds : Close(fd)
  <2>1. PICK fd \in Fds : Close(fd)
    BY <1>3
  <2>2. fd \in OpenFds /\ OpenFds' = OpenFds \ {fd}
    BY <1>1, <2>1 DEF Close, OpenFds, IsOpen
  <2>3. /\ Cardinality(OpenFds') = Cardinality(OpenFds) - 1
        /\ Cardinality(OpenFds) - 1 \in Nat
    BY <2>2, OpenFdsFinite, FS_RemoveElement, FS_EmptySet, FS_Subset, FS_CardinalityType
  <2>4. num_open_files' = num_open_files - 1
    BY <1>1, <2>1, <2>3, OpenFdsFinite DEF Close, CountMod
  <2> QED
    BY <1>1, <2>3, <2>4, OpenFdsFinite, NumFdsAssumption DEF CountMod
<1>4. CASE MountOk
  <2>1. OpenFds' = {} /\ num_open_files' = num_open_files
    BY <1>4 DEF MountOk, OpenFds, IsOpen, NoneOpen
  <2> QED
    BY <1>1, <2>1
<1>5. CASE Kill
  <2>1. OpenFds' = {} /\ num_open_files' = 0
    BY <1>5 DEF Kill, OpenFds, IsOpen, NoneOpen
  <2> QED
    BY <1>1, <2>1
<1>6. CASE
  \/ \E fd \in Fds, offset \in 0 .. MaxSize : Lseek(fd, offset)
  \/ \E fd \in Fds, count \in 1 .. MaxCount : Read(fd, count)
  \/ WriteAll
  <2>1. PICK fd \in Fds, n \in 0 .. OffsetMod - 1 :
          /\ IsOpen(fd)
          /\ open_files' = [open_files EXCEPT ![fd] = [open_files[fd] EXCEPT !.offset = n]]
          /\ num_open_files' = num_open_files
    <3>1. CASE \E fd \in Fds, offset \in 0 .. MaxSize : Lseek(fd, offset)
      <4>1. PICK fd \in Fds, offset \in 0 .. MaxSize : Lseek(fd, offset)
        BY <3>1
      <4>2. ToOffset(offset) \in 0 .. OffsetMod - 1
        BY ToOffsetRange
      <4> QED
        BY <4>1, <4>2 DEF Lseek
    <3>2. CASE \E fd \in Fds, count \in 1 .. MaxCount : Read(fd, count)
      <4>1. PICK fd \in Fds, count \in 1 .. MaxCount : Read(fd, count)
        BY <3>2
      <4>2. open_files[fd].offset + count \in Nat
        BY <1>1, <4>1, OffsetModAssumption, MaxCountAssumption
        DEF Read, IsOpen, FileDescriptor
      <4>3. ToOffset(open_files[fd].offset + count) \in 0 .. OffsetMod - 1
        BY <4>2, ToOffsetRange
      <4> QED
        BY <4>1, <4>3 DEF Read
    <3>3. CASE WriteAll
      <4>1. call.arg \in Fds /\ IsOpen(call.arg) /\ call.count \in Nat
        BY <3>3, MaxCountAssumption DEF WriteAll, TypeInv, TypeOK, CallTyped, Calls
      <4>2. open_files[call.arg].offset + call.count \in Nat
        BY <1>1, <4>1, OffsetModAssumption DEF IsOpen, FileDescriptor
      <4>3. ToOffset(open_files[call.arg].offset + call.count) \in 0 .. OffsetMod - 1
        BY <4>2, ToOffsetRange
      <4> QED
        BY <3>3, <4>1, <4>3 DEF WriteAll
    <3> QED
      BY <1>6, <3>1, <3>2, <3>3
  <2>2. [open_files[fd] EXCEPT !.offset = n] # NULL
    <3>1. open_files[fd] \in FileDescriptor
      BY <1>1, <2>1 DEF IsOpen
    <3>2. [open_files[fd] EXCEPT !.offset = n] \in FileDescriptor
      BY <3>1 DEF FileDescriptor
    <3> QED
      BY <3>2, NULLAssumption
  <2>3. OpenFds' = OpenFds
    BY <1>1, <2>1, <2>2 DEF OpenFds, IsOpen
  <2> QED
    BY <2>1, <2>3
<1>7. CASE UNCHANGED <<open_files, num_open_files>>
  BY <1>7 DEF OpenFds, IsOpen
<1>8. CASE
  \/ MountFails \/ Umount \/ UmountRoot \/ FreeBlock \/ FreeLast
  \/ Walk \/ Extend \/ Allocated \/ WriteShort
  \/ \E name \in Names : Create(name) \/ DeleteEmpty(name) \/ Delete(name)
  \/ \E fd \in Fds, count \in 1 .. MaxCount :
       Write(fd, count) \/ WriteFirstBlock(fd, count) \/ WriteNoBlock(fd, count)
  BY <1>7, <1>8
  DEF MountFails, Umount, UmountRoot, FreeBlock, FreeLast, Walk, Extend, Allocated,
      WriteShort, Create, DeleteEmpty, Delete, Write, WriteFirstBlock, WriteNoBlock
<1>9. CASE UNCHANGED vars
  BY <1>7, <1>9 DEF vars
<1> QED
  BY <1>2, <1>3, <1>4, <1>5, <1>6, <1>8, <1>9 DEF Next, Caller, CallStep

(* num_open_files never falls below the number of descriptors in use, nor  *)
(* does it wrap around its 8 bits, over any number of mounts and crashes.  *)
THEOREM OpenCountCorrect == CrashSpec => []OpenCountBounds
BY TypeInit, TypeStep, OpenCountInit, OpenCountStep, PTL DEF CrashSpec
=============================================================================
