----------------------------- MODULE FileDataProofs -----------------------------
(***************************************************************************)
(* That the transfers of FileData implement those of FileSystem, and what  *)
(* the data area holds.                                                    *)
(***************************************************************************)
EXTENDS FileData, FileChainProofs

DataNextOrStutter == [DataNext]_<<vars, dataVars>>

(* A transfer in numbers.                                                  *)
LEMMA Transferring ==
  ASSUME TypeInv, TransferInv, call.pc = "xfer"
  PROVE  /\ call.arg \in Fds /\ WriteFd \in FileDescriptor
         /\ WriteFd.offset \in Nat /\ WriteFd.file \in Files
         /\ call.count \in Nat /\ call.count > 0
         /\ io.moved \in 0 .. Len(WritePieces) /\ io.done \in 0 .. call.count
         /\ Len(WritePieces) \in Nat \ {0}
         /\ TargetBlocks = find_num_target_blocks(WriteFd.offset, call.count)
<1>1. /\ call.arg \in Fds /\ open_files[call.arg] # NULL
      /\ open_files \in [Fds -> FileDescriptor \union {NULL}]
      /\ call \in Calls
  BY DEF TypeInv, TypeOK, CallTyped, IsOpen
<1>2. WriteFd \in FileDescriptor
  BY <1>1 DEF WriteFd
<1>3. WriteFd.offset \in Nat /\ WriteFd.file \in Files
  BY <1>2, OffsetModAssumption DEF FileDescriptor
<1>4. call.count \in Nat
  BY <1>1, MaxCountAssumption DEF Calls
<1>5. call.count > 0
  BY DEF TransferInv
<1>6. Len(WritePieces) \in Nat \ {0}
  BY <1>3, <1>4, <1>5, PieceCount DEF WritePieces
<1>7. io.moved \in 0 .. Len(WritePieces) /\ io.done \in 0 .. call.count
  <2>1. CASE io = NoTransfer
    BY <1>4, <1>6, <2>1 DEF NoTransfer
  <2>2. CASE io # NoTransfer
    BY <2>2 DEF TransferInv
  <2> QED
    BY <2>1, <2>2
<1> QED
  BY <1>1, <1>2, <1>3, <1>4, <1>5, <1>6, <1>7 DEF TargetBlocks, WriteFd

(***************************************************************************)
(* A transfer that ran through all its pieces has found the last block it  *)
(* needs and counted every byte; one that found no block for a piece would *)
(* not have found the last one either.                                     *)
(***************************************************************************)
LEMMA AllMoved ==
  ASSUME TypeInv, TransferInv, call.pc = "xfer", io.moved = Len(WritePieces)
  PROVE  LastBlock # FAT_EOC /\ io.done = call.count
<1> DEFINE n == Len(WritePieces)
<1>1. n \in Nat \ {0} /\ WriteFd.offset \in Nat /\ call.count \in Nat /\ call.count > 0
  BY Transferring
<1>2. io.moved # 0 /\ n \in 1 .. n
  BY <1>1
<1>3. /\ io.done = WritePieces[n].from + WritePieces[n].size
      /\ find_data_block(fat, WriteFile.first_index, WritePieces[n].block) # FAT_EOC
  BY <1>2 DEF TransferInv
<1>4. /\ WritePieces[n].block = find_num_target_blocks(WriteFd.offset, call.count) - 1
      /\ WritePieces[n].from + WritePieces[n].size = call.count
  BY <1>1, <1>2, PieceBlocks DEF WritePieces
<1> QED
  BY <1>3, <1>4, Transferring DEF LastBlock, WriteFile, WriteFd

LEMMA PieceWithoutBlock ==
  ASSUME TypeInv, TransferInv, call.pc = "xfer", io.moved < Len(WritePieces),
         find_data_block(fat, WriteFile.first_index, WritePieces[io.moved + 1].block) = FAT_EOC
  PROVE  LastBlock = FAT_EOC
<1> DEFINE target == find_num_target_blocks(WriteFd.offset, call.count)
<1>1. /\ Len(WritePieces) \in Nat /\ io.moved \in 0 .. Len(WritePieces)
      /\ WriteFd.offset \in Nat /\ call.count \in Nat /\ call.count > 0
  BY Transferring
<1>2. PICK i \in 1 .. Len(WritePieces) : i = io.moved + 1
  <2>1. io.moved + 1 \in 1 .. Len(WritePieces)
    BY <1>1
  <2> QED
    BY <2>1
<1>3. WritePieces[i].block \in Nat /\ WritePieces[i].block =< target - 1
  BY <1>1, PieceBlocks DEF WritePieces
<1>4. target \in Nat \ {0}
  BY <1>1, TargetBlocksPositive
<1> HIDE DEF target
<1>5. PICK m \in Nat : m = target - 1
  <2>1. target - 1 \in Nat
    BY <1>4
  <2> QED
    BY <2>1
<1>6. find_data_block(fat, WriteFile.first_index, m) = FAT_EOC
  BY <1>2, <1>3, <1>5, ChainEnded
<1> QED
  BY <1>5, <1>6, Transferring DEF LastBlock, WriteFile, WriteFd, target

-----------------------------------------------------------------------------
(* The number of pieces fs_read gets through: all that have a block.       *)
LEMMA Readable ==
  ASSUME NEW fd, NEW pieces, Len(pieces) \in Nat
  PROVE  /\ ReadablePieces(fd, pieces) \in 0 .. Len(pieces)
         /\ \A k \in 1 .. ReadablePieces(fd, pieces) : PieceBlock(fd, pieces[k]) # FAT_EOC
         /\ ReadablePieces(fd, pieces) < Len(pieces) =>
              PieceBlock(fd, pieces[ReadablePieces(fd, pieces) + 1]) = FAT_EOC
<1> DEFINE len == Len(pieces)
           Good(n) == /\ \A k \in 1 .. n : PieceBlock(fd, pieces[k]) # FAT_EOC
                      /\ n < len => PieceBlock(fd, pieces[n + 1]) = FAT_EOC
           Missing == {k \in 1 .. len : PieceBlock(fd, pieces[k]) = FAT_EOC}
<1>1. \E n \in 0 .. len : Good(n)
  <2>1. CASE Missing = {}
    <3>1. Good(len)
      BY <2>1
    <3> QED
      BY <3>1
  <2>2. CASE Missing # {}
    <3>1. Missing \in SUBSET Nat
      OBVIOUS
    <3>2. PICK m \in Missing : \A k \in Missing : m =< k
      BY <2>2, <3>1, LeastExists
    <3>3. m \in 1 .. len /\ PieceBlock(fd, pieces[m]) = FAT_EOC
      OBVIOUS
    <3>4. \A k \in 1 .. len : k < m => PieceBlock(fd, pieces[k]) # FAT_EOC
      BY <3>2, <3>3
    <3>5. PICK n \in 0 .. len : n = m - 1
      <4> HIDE DEF Missing, len
      <4>1. len \in Nat
        BY DEF len
      <4>2. m - 1 \in 0 .. len
        BY <3>3, <4>1
      <4> QED
        BY <4>2
    <3>6. n + 1 = m /\ \A k \in 1 .. n : k \in 1 .. len /\ k < m
      BY <3>3, <3>5
    <3>7. Good(n)
      BY <3>3, <3>4, <3>6
    <3> QED
      BY <3>7
  <2> QED
    BY <2>1, <2>2
<1>2. ReadablePieces(fd, pieces) = CHOOSE n \in 0 .. len : Good(n)
  BY DEF ReadablePieces
<1> HIDE DEF Good
<1>3. ReadablePieces(fd, pieces) \in 0 .. len /\ Good(ReadablePieces(fd, pieces))
  BY <1>1, <1>2
<1> QED
  BY <1>3 DEF Good

(* fs_read of a positive count gives as many bytes as its pieces hold, and *)
(* all of them when every piece has a block.                               *)
LEMMA WholeRead ==
  ASSUME TypeInv, NEW fd \in Fds, IsOpen(fd), NEW count \in Nat, count > 0,
         fs_read(fd, count).advances
  PROVE  /\ find_data_block(fat, root[open_files[fd].file].first_index,
                            find_num_target_blocks(open_files[fd].offset, count) - 1) # FAT_EOC
         /\ fs_read(fd, count).ret = count
<1> DEFINE offset == open_files[fd].offset
           pieces == Pieces(offset, count)
           n == ReadablePieces(fd, pieces)
<1>1. offset \in Nat
  BY OffsetModAssumption DEF TypeInv, TypeOK, IsOpen, FileDescriptor
<1>2. Len(pieces) \in Nat \ {0}
  BY <1>1, PieceCount
<1>3. n = Len(pieces) /\ Remainder(offset, count) >= 0
  BY DEF fs_read
<1>4. n # 0 /\ n \in 1 .. Len(pieces)
  BY <1>2, <1>3
<1>5. Remainder(offset, count) \in Nat
  <2>1. Remainder(offset, count) \in 0 .. BlockSize - 1
    BY <1>1, TransferNumbers
  <2> QED
    BY <2>1, BlockSizeAssumption
<1>6. fs_read(fd, count).ret = pieces[n].from + pieces[n].size
  <2>1. ~(Remainder(offset, count) < 0)
    BY <1>5
  <2> QED
    BY <1>4, <2>1 DEF fs_read
<1>7. PieceBlock(fd, pieces[n]) # FAT_EOC
  <2>1. \A k \in 1 .. n : PieceBlock(fd, pieces[k]) # FAT_EOC
    BY <1>2, Readable
  <2> QED
    BY <1>3, <1>4, <2>1
<1>8. /\ pieces[n].block = find_num_target_blocks(offset, count) - 1
      /\ pieces[n].from + pieces[n].size = count
  BY <1>1, <1>3, <1>4, PieceBlocks
<1> QED
  BY <1>6, <1>7, <1>8 DEF PieceBlock

LEMMA EmptyRead ==
  ASSUME TypeInv, NEW fd \in Fds, IsOpen(fd), fs_read(fd, 0).advances
  PROVE  fs_read(fd, 0).ret = 0
<1> DEFINE offset == open_files[fd].offset
<1>1. offset \in Nat
  BY OffsetModAssumption DEF TypeInv, TypeOK, IsOpen, FileDescriptor
<1>2. Remainder(offset, 0) >= 0
  BY DEF fs_read
<1>3. Pieces(offset, 0) = << >> /\ Remainder(offset, 0) = 0
  <2>1. CASE Remainder(offset, 0) < 0
    <3>1. Remainder(offset, 0) \in Int
      <4>1. num_full_blocks(offset, 0) \in Int /\ PartialAmount(offset, 0) \in Int
        BY <1>1, BlockSizeAssumption
        DEF num_full_blocks, PartialAmount, find_num_target_blocks
      <4> QED
        BY <4>1, BlockSizeAssumption DEF Remainder
    <3> QED
      BY <1>2, <2>1, <3>1
  <2> QED
    BY <1>1, <2>1, NothingToMove
<1>4. ReadablePieces(fd, << >>) = 0
  <2>1. Len(<< >>) = 0
    OBVIOUS
  <2>2. ReadablePieces(fd, << >>) \in 0 .. Len(<< >>)
    BY <2>1, Readable
  <2> QED
    BY <2>1, <2>2
<1> QED
  BY <1>3, <1>4 DEF fs_read

(***************************************************************************)
(* ImplementsFileSystem, step by step: every step of DataNext is a step of *)
(* FileSystem or leaves its state alone.                                   *)
(***************************************************************************)
LEMMA ReadImplements ==
  ASSUME TypeInv, NEW fd \in Fds, NEW count \in 0 .. MaxCount, ReadData(fd, count)
  PROVE  [Next]_vars
<1>1. Ready /\ IsOpen(fd) /\ fs_read(fd, count).advances
  BY DEF ReadData
<1>2. /\ open_files \in [Fds -> FileDescriptor \union {NULL}]
      /\ open_files[fd] \in FileDescriptor
      /\ open_files[fd].offset \in 0 .. OffsetMod - 1
  BY <1>1 DEF TypeInv, TypeOK, IsOpen, FileDescriptor
<1>3. CASE count = 0
  <2>1. open_files' = [open_files EXCEPT ![fd].offset = ToOffset(@ + 0)]
    BY <1>1, <1>3, EmptyRead DEF ReadData
  <2>2. ToOffset(open_files[fd].offset + 0) = open_files[fd].offset
    BY <1>2, OffsetModAssumption DEF ToOffset
  <2>3. open_files' = open_files
    BY <1>2, <2>1, <2>2 DEF FileDescriptor
  <2> QED
    BY <2>3 DEF ReadData, vars
<1>4. CASE count # 0
  <2>1. count \in Nat /\ count > 0 /\ count \in 1 .. MaxCount
    BY <1>4, MaxCountAssumption
  <2>2. /\ find_data_block(fat, root[open_files[fd].file].first_index,
                           find_num_target_blocks(open_files[fd].offset, count) - 1) # FAT_EOC
        /\ fs_read(fd, count).ret = count
    BY <1>1, <2>1, WholeRead
  <2>3. open_files' = [open_files EXCEPT ![fd].offset = ToOffset(open_files[fd].offset + count)]
    BY <1>2, <2>2 DEF ReadData
  <2>4. Read(fd, count)
    BY <1>1, <2>1, <2>2, <2>3 DEF ReadData, Read
  <2> QED
    BY <2>1, <2>4 DEF Next, Caller
<1> QED
  BY <1>3, <1>4

LEMMA FinishImplements ==
  ASSUME TypeInv, TransferInv, FinishWrite \/ FinishShort
  PROVE  WriteAll \/ WriteShort
<1>1. CASE FinishWrite
  <2>1. LastBlock # FAT_EOC /\ io.done = call.count
    BY <1>1, AllMoved DEF FinishWrite
  <2>2. /\ open_files' = [open_files EXCEPT ![call.arg].offset = ToOffset(@ + call.count)]
        /\ root' = [root EXCEPT ![open_files[call.arg].file].file_size = @ + call.count]
    BY <1>1, <2>1 DEF FinishWrite, WriteFd
  <2> QED
    BY <1>1, <2>1, <2>2 DEF FinishWrite, WriteAll
<1>2. CASE FinishShort
  BY <1>2, PieceWithoutBlock DEF FinishShort, WriteShort
<1> QED
  BY <1>1, <1>2

LEMMA DataImplements ==
  ASSUME TypeInv, TransferInv, DataNextOrStutter
  PROVE  [Next]_vars
<1>1. CASE MountData \/ UmountData
  BY <1>1 DEF MountData, UmountData, Next, Caller, CallStep
<1>2. ASSUME NEW name \in Names,
             CreateData(name) \/ DeleteData(name) \/ (Open(name) /\ UNCHANGED dataVars)
      PROVE  [Next]_vars
  BY <1>2 DEF CreateData, DeleteData, Next, Caller
<1>3. ASSUME NEW fd \in Fds,
             \/ Close(fd) /\ UNCHANGED dataVars
             \/ \E offset \in 0 .. MaxSize : Lseek(fd, offset) /\ UNCHANGED dataVars
      PROVE  [Next]_vars
  BY <1>3 DEF Next, Caller
<1>4. ASSUME NEW fd \in Fds, NEW count \in 0 .. MaxCount, ReadData(fd, count)
      PROVE  [Next]_vars
  BY <1>4, ReadImplements
<1>5. ASSUME NEW fd \in Fds, NEW count \in 1 .. MaxCount,
             \/ (Write(fd, count) \/ WriteFirstBlock(fd, count)) /\ UNCHANGED dataVars
             \/ WriteNothing(fd, count)
      PROVE  [Next]_vars
  BY <1>5 DEF WriteNothing, Next, Caller
<1>6. CASE (FreeBlock \/ FreeLast \/ Walk \/ Extend) /\ UNCHANGED dataVars
  BY <1>6 DEF Next, CallStep
<1>7. CASE BeginTransfer
  BY <1>7 DEF BeginTransfer, Next, CallStep
<1>8. CASE TransferPiece
  BY <1>8 DEF TransferPiece
<1>9. CASE FinishWrite \/ FinishShort
  BY <1>9, FinishImplements DEF Next, CallStep
<1>10. CASE call.pc # "saving" /\ KillData
  BY <1>10 DEF KillData, Next
<1>11. CASE UNCHANGED <<vars, dataVars>>
  BY <1>11
<1> QED
  BY <1>1, <1>2, <1>3, <1>4, <1>5, <1>6, <1>7, <1>8, <1>9, <1>10, <1>11
  DEF DataNextOrStutter, DataNext

-----------------------------------------------------------------------------
LEMMA NoTransferData == NoTransfer.moved = 0 /\ NoTransfer.done = 0 /\ NoTransfer.buf = << >>
BY DEF NoTransfer

LEMMA IdleOutside ==
  ASSUME TransferInv, call.pc # "xfer"
  PROVE  io = NoTransfer
BY DEF TransferInv

LEMMA QuietTransfer ==
  ASSUME io' = NoTransfer, call'.pc # "xfer", call'.pc = "alloc" => call'.count > 0
  PROVE  TransferInv'
BY DEF TransferInv

LEMMA TransferInit == DataInit => TransferInv
BY DEF DataInit, Init, Idle, TransferInv

(* The calls that leave dataVars alone begin and end without a transfer.   *)
LEMMA OtherCalls ==
  ASSUME TypeInv, TransferInv,
         \/ MountOk \/ MountFails \/ Umount \/ UmountRoot
         \/ \E name \in Names : Create(name) \/ DeleteEmpty(name) \/ Delete(name) \/ Open(name)
         \/ \E fd \in Fds : Close(fd) \/ \E offset \in 0 .. MaxSize : Lseek(fd, offset)
         \/ \E fd \in Fds, count \in 1 .. MaxCount : Write(fd, count) \/ WriteFirstBlock(fd, count)
         \/ FreeBlock \/ FreeLast \/ Walk \/ Extend
  PROVE  /\ call.pc # "xfer" /\ call'.pc # "xfer"
         /\ call'.pc = "alloc" => call'.count > 0
<1> USE MaxCountAssumption
<1>1. call \in Calls
  BY DEF TypeInv, TypeOK
<1>2. CASE \/ MountOk \/ MountFails \/ Umount \/ UmountRoot
           \/ \E name \in Names : Create(name) \/ DeleteEmpty(name) \/ Open(name)
           \/ \E fd \in Fds : Close(fd) \/ \E offset \in 0 .. MaxSize : Lseek(fd, offset)
  <2>1. call = Idle \/ call.pc = "saving"
    BY <1>2 DEF MountOk, MountFails, Umount, UmountRoot, Create, DeleteEmpty, Open, Close,
                Lseek, Ready, FlaggedMounted, Deletable
  <2>2. call' = Idle \/ call' = [Idle EXCEPT !.pc = "saving"]
    BY <1>2 DEF MountOk, MountFails, Umount, UmountRoot, Create, DeleteEmpty, Open, Close,
                Lseek, Ready, FlaggedMounted, Deletable
  <2> QED
    BY <2>1, <2>2 DEF Idle
<1>3. CASE \E name \in Names : Delete(name)
  <2>1. call = Idle /\ call'.pc = "free"
    BY <1>3 DEF Delete, Deletable, Ready, Idle
  <2> QED
    BY <2>1 DEF Idle
<1>4. CASE \E fd \in Fds, count \in 1 .. MaxCount : Write(fd, count) \/ WriteFirstBlock(fd, count)
  <2>1. PICK fd \in Fds, count \in 1 .. MaxCount : Write(fd, count) \/ WriteFirstBlock(fd, count)
    BY <1>4
  <2>2. call = Idle /\ \E block : call' = InCall("alloc", fd, count, block)
    BY <2>1 DEF Write, WriteFirstBlock, Writable, Ready
  <2>3. call.pc = "idle" /\ call'.pc = "alloc" /\ call'.count = count
    BY <2>2 DEF Idle, InCall
  <2> QED
    BY <2>1, <2>3
<1>5. CASE FreeBlock \/ FreeLast
  <2>1. call.pc = "free" /\ (call' = Idle \/ \E b : call' = [call EXCEPT !.block = b])
    BY <1>5 DEF FreeBlock, FreeLast
  <2> QED
    BY <1>1, <2>1 DEF Idle, Calls
<1>6. CASE Walk \/ Extend
  <2>1. call.pc = "alloc" /\ \E b, n : call' = [call EXCEPT !.block = b, !.have = n]
    BY <1>6 DEF Walk, Extend
  <2>2. call'.pc = "alloc" /\ call'.count = call.count
    BY <1>1, <2>1 DEF Calls
  <2> QED
    BY <2>1, <2>2 DEF TransferInv
<1> QED
  BY <1>2, <1>3, <1>4, <1>5, <1>6

LEMMA BeginTransferStep ==
  ASSUME TypeInv, TransferInv, BeginTransfer
  PROVE  TransferInv'
<1>1. call \in Calls /\ call.pc = "alloc" /\ call' = [call EXCEPT !.pc = "xfer"] /\ io = NoTransfer
  BY IdleOutside DEF BeginTransfer, Allocated, TypeInv, TypeOK
<1>2. call'.pc = "xfer" /\ call'.count = call.count /\ call'.arg = call.arg
  BY <1>1 DEF Calls
<1>3. call.count \in Nat /\ call.count > 0
  BY <1>1, MaxCountAssumption DEF TransferInv, Calls
<1>4. PICK buf \in [0 .. call.count - 1 -> Bytes] : io' = [NoTransfer EXCEPT !.buf = buf]
  BY DEF BeginTransfer
<1>5. io' = [buf |-> buf, moved |-> 0, done |-> 0] /\ io'.moved = 0 /\ io'.done = 0 /\ io'.buf = buf
  BY <1>4 DEF NoTransfer
<1>6. buf # << >>
  <2>1. 0 \in DOMAIN buf
    BY <1>3
  <2>2. DOMAIN << >> = {}
    OBVIOUS
  <2> QED
    BY <2>1, <2>2
<1>7. io' # NoTransfer
  BY <1>5, <1>6 DEF NoTransfer
<1>8. open_files' = open_files
  BY DEF BeginTransfer, Allocated
<1>9. Len(WritePieces') \in Nat
  <2>1. /\ WritePieces' = Pieces(open_files[call.arg].offset, call.count)
    BY <1>2, <1>8 DEF WritePieces, WriteFd
  <2>2. open_files[call.arg].offset \in Nat
    BY <1>1, OffsetModAssumption DEF TypeInv, TypeOK, CallTyped, IsOpen, FileDescriptor
  <2> QED
    BY <1>3, <2>1, <2>2, PieceCount
<1>10. io' \in [buf: [0 .. call'.count - 1 -> Bytes], moved: 0 .. Len(WritePieces'),
                done: 0 .. call'.count]
  BY <1>2, <1>3, <1>5, <1>9
<1> QED
  BY <1>2, <1>3, <1>5, <1>7, <1>10 DEF TransferInv

LEMMA PieceStep ==
  ASSUME TypeInv, TransferInv, TransferPiece
  PROVE  /\ io # NoTransfer /\ io'.buf = io.buf
         /\ io'.moved = io.moved + 1
         /\ io'.moved \in 1 .. Len(WritePieces)
         /\ io.done = WritePieces[io'.moved].from
         /\ io'.done = WritePieces[io'.moved].from + WritePieces[io'.moved].size
         /\ io'.done \in 0 .. call.count
         /\ io' \in [buf: [0 .. call.count - 1 -> Bytes], moved: 0 .. Len(WritePieces),
                     done: 0 .. call.count]
<1>1. /\ call.pc = "xfer" /\ io.moved < Len(WritePieces)
      /\ find_data_block(fat, WriteFile.first_index, WritePieces[io.moved + 1].block) # FAT_EOC
      /\ io' = [io EXCEPT !.moved = @ + 1, !.done = @ + WritePieces[io.moved + 1].size]
  BY DEF TransferPiece
<1>2. /\ Len(WritePieces) \in Nat /\ io.moved \in 0 .. Len(WritePieces) /\ io.done \in 0 .. call.count
      /\ WriteFd.offset \in Nat /\ call.count \in Nat /\ call.count > 0
  BY <1>1, Transferring
<1>3. PICK i \in 1 .. Len(WritePieces) : i = io.moved + 1
  <2>1. io.moved + 1 \in 1 .. Len(WritePieces)
    BY <1>1, <1>2
  <2> QED
    BY <2>1
<1>4. PICK block \in Nat, at \in Nat, from \in Nat, size \in Nat :
        PieceWithin(WriteFd.offset, call.count, i, block, at, from, size)
  BY <1>2, PieceBounds DEF WritePieces
<1>5. /\ WritePieces[i].block = block /\ WritePieces[i].from = from /\ WritePieces[i].size = size
      /\ from + size =< call.count
  BY <1>4 DEF PieceWithin, WritePieces
<1>6. io # NoTransfer
  <2>1. ASSUME io = NoTransfer
        PROVE  FALSE
    <3>1. WriteFile.first_index = FAT_EOC
      BY <1>1, <2>1 DEF TransferInv
    <3>2. find_data_block(fat, FAT_EOC, block) = FAT_EOC
      BY EmptyChain
    <3> QED
      BY <1>1, <1>3, <1>5, <3>1, <3>2
  <2> QED
    BY <2>1
<1>7. io \in [buf: [0 .. call.count - 1 -> Bytes], moved: 0 .. Len(WritePieces),
              done: 0 .. call.count]
  BY <1>6 DEF TransferInv
<1>8. io.done = from
  <2>1. CASE io.moved = 0
    <3>1. i = 1 /\ io.done = 0
      BY <1>1, <1>3, <2>1 DEF TransferInv
    <3>2. WritePieces[i].from = 0
      BY <1>2, <3>1, PieceFollows DEF WritePieces
    <3> QED
      BY <1>5, <3>1, <3>2
  <2>2. CASE io.moved # 0
    <3>1. i # 1 /\ i - 1 = io.moved
      BY <1>2, <1>3, <2>2
    <3>2. WritePieces[i].from = WritePieces[i - 1].from + WritePieces[i - 1].size
      BY <1>2, <3>1, PieceFollows DEF WritePieces
    <3>3. io.done = WritePieces[io.moved].from + WritePieces[io.moved].size
      BY <1>1, <2>2 DEF TransferInv
    <3> QED
      BY <1>5, <3>1, <3>2, <3>3
  <2> QED
    BY <2>1, <2>2
<1>9. io' = [io EXCEPT !.moved = i, !.done = from + size]
  BY <1>1, <1>3, <1>5, <1>7, <1>8
<1>10. io'.moved = i /\ io'.done = from + size /\ io'.buf = io.buf
  BY <1>7, <1>9
<1>11. from + size \in 0 .. call.count
  BY <1>2, <1>5
<1>12. io' \in [buf: [0 .. call.count - 1 -> Bytes], moved: 0 .. Len(WritePieces),
                done: 0 .. call.count]
  <2>1. i \in 0 .. Len(WritePieces)
    BY <1>2
  <2>2. io.buf \in [0 .. call.count - 1 -> Bytes]
    BY <1>7
  <2>3. io' = [buf |-> io.buf, moved |-> i, done |-> from + size]
    BY <1>7, <1>9
  <2> QED
    BY <1>11, <2>1, <2>2, <2>3
<1>13. /\ io'.moved = io.moved + 1 /\ io'.moved \in 1 .. Len(WritePieces)
       /\ io'.done \in 0 .. call.count
  BY <1>3, <1>10, <1>11
<1> QED
  BY <1>5, <1>6, <1>8, <1>10, <1>12, <1>13

LEMMA TransferPieceStep ==
  ASSUME TypeInv, TransferInv, TransferPiece
  PROVE  TransferInv'
<1>1. /\ call' = call /\ open_files' = open_files /\ root' = root /\ fat' = fat
      /\ call.pc = "xfer"
      /\ find_data_block(fat, WriteFile.first_index, WritePieces[io.moved + 1].block) # FAT_EOC
  BY DEF TransferPiece, vars
<1>2. /\ WritePieces' = WritePieces /\ WriteFile' = WriteFile
  BY <1>1 DEF WritePieces, WriteFd, WriteFile
<1>3. /\ io # NoTransfer /\ io'.buf = io.buf /\ io'.moved = io.moved + 1
      /\ io'.moved \in 1 .. Len(WritePieces)
      /\ io'.done = WritePieces[io'.moved].from + WritePieces[io'.moved].size
      /\ io' \in [buf: [0 .. call.count - 1 -> Bytes], moved: 0 .. Len(WritePieces),
                  done: 0 .. call.count]
  BY PieceStep
<1>4. io'.moved # 0
  BY <1>3
<1>5. io' # NoTransfer
  BY <1>4, NoTransferData
<1>6. find_data_block(fat, WriteFile.first_index, WritePieces[io'.moved].block) # FAT_EOC
  BY <1>1, <1>3
<1>7. call.count > 0
  BY <1>1 DEF TransferInv
<1> QED
  BY <1>1, <1>2, <1>3, <1>4, <1>5, <1>6, <1>7 DEF TransferInv

LEMMA TransferStep ==
  ASSUME TypeInv, TransferInv, DataNextOrStutter
  PROVE  TransferInv'
<1> DEFINE Quiet ==
      \/ MountOk \/ MountFails \/ Umount \/ UmountRoot
      \/ \E name \in Names : Create(name) \/ DeleteEmpty(name) \/ Delete(name) \/ Open(name)
      \/ \E fd \in Fds : Close(fd) \/ \E offset \in 0 .. MaxSize : Lseek(fd, offset)
      \/ \E fd \in Fds, count \in 1 .. MaxCount : Write(fd, count) \/ WriteFirstBlock(fd, count)
      \/ FreeBlock \/ FreeLast \/ Walk \/ Extend
<1>1. ASSUME Quiet, io' = io
      PROVE  TransferInv'
  <2>1. call.pc # "xfer" /\ call'.pc # "xfer" /\ (call'.pc = "alloc" => call'.count > 0)
    BY <1>1, OtherCalls
  <2> QED
    BY <1>1, <2>1, IdleOutside, QuietTransfer
<1>2. CASE MountData \/ UmountData
  <2>1. Quiet /\ io' = io
    BY <1>2 DEF MountData, UmountData, dataVars
  <2> QED
    BY <1>1, <2>1
<1>3. ASSUME NEW name \in Names,
             CreateData(name) \/ DeleteData(name) \/ (Open(name) /\ UNCHANGED dataVars)
      PROVE  TransferInv'
  <2>1. Quiet /\ io' = io
    BY <1>3 DEF CreateData, DeleteData, dataVars
  <2> QED
    BY <1>1, <2>1
<1>4. ASSUME NEW fd \in Fds,
             \/ Close(fd) /\ UNCHANGED dataVars
             \/ \E offset \in 0 .. MaxSize : Lseek(fd, offset) /\ UNCHANGED dataVars
      PROVE  TransferInv'
  <2>1. Quiet /\ io' = io
    BY <1>4 DEF dataVars
  <2> QED
    BY <1>1, <2>1
<1>5. ASSUME NEW fd \in Fds, NEW count \in 0 .. MaxCount, ReadData(fd, count)
      PROVE  TransferInv'
  <2>1. call = Idle /\ call' = call /\ io' = io
    BY <1>5 DEF ReadData, Ready, dataVars
  <2>2. call.pc = "idle" /\ call'.pc = "idle"
    BY <2>1 DEF Idle
  <2> QED
    BY <2>1, <2>2, IdleOutside, QuietTransfer
<1>6. ASSUME NEW fd \in Fds, NEW count \in 1 .. MaxCount,
             (Write(fd, count) \/ WriteFirstBlock(fd, count)) /\ UNCHANGED dataVars
      PROVE  TransferInv'
  <2>1. Quiet /\ io' = io
    BY <1>6 DEF dataVars
  <2> QED
    BY <1>1, <2>1
<1>7. ASSUME NEW fd \in Fds, NEW count \in 1 .. MaxCount, WriteNothing(fd, count)
      PROVE  TransferInv'
  <2>1. /\ call = Idle /\ call' = InCall("xfer", fd, count, FAT_EOC) /\ io' = io
        /\ root' = root /\ open_files' = open_files
        /\ root[open_files[fd].file].first_index = FAT_EOC
    BY <1>7 DEF WriteNothing, WriteNoBlock, Writable, Ready, dataVars
  <2>2. call.pc = "idle" /\ call'.pc = "xfer" /\ call'.arg = fd /\ call'.count = count
    BY <2>1 DEF Idle, InCall
  <2>3. io' = NoTransfer /\ io'.moved = 0 /\ io'.done = 0
    BY <2>1, <2>2, IdleOutside, NoTransferData
  <2>4. WriteFile'.first_index = FAT_EOC
    BY <2>1, <2>2 DEF WriteFile, WriteFd
  <2> QED
    BY <2>2, <2>3, <2>4 DEF TransferInv
<1>8. CASE (FreeBlock \/ FreeLast \/ Walk \/ Extend) /\ UNCHANGED dataVars
  <2>1. Quiet /\ io' = io
    BY <1>8 DEF dataVars
  <2> QED
    BY <1>1, <2>1
<1>9. CASE BeginTransfer
  BY <1>9, BeginTransferStep
<1>10. CASE TransferPiece
  BY <1>10, TransferPieceStep
<1>11. CASE FinishWrite \/ FinishShort \/ KillData
  <2>1. io' = NoTransfer /\ call' = Idle
    BY <1>11 DEF FinishWrite, FinishShort, KillData, Kill
  <2>2. call'.pc = "idle"
    BY <2>1 DEF Idle
  <2> QED
    BY <2>1, <2>2, QuietTransfer
<1>12. CASE UNCHANGED <<vars, dataVars>>
  BY <1>12 DEF vars, dataVars, TransferInv, WritePieces, WriteFile, WriteFd
<1> HIDE DEF Quiet
<1> QED
  BY <1>2, <1>3, <1>4, <1>5, <1>6, <1>7, <1>8, <1>9, <1>10, <1>11, <1>12
  DEF DataNextOrStutter, DataNext

DataTransferInv == TypeInv /\ TransferInv

LEMMA DataTransferStep ==
  ASSUME DataTransferInv, DataNextOrStutter
  PROVE  DataTransferInv' /\ [Next]_vars
<1>1. [Next]_vars
  BY DataImplements DEF DataTransferInv
<1>2. TypeInv'
  BY <1>1, TypeStep DEF DataTransferInv
<1> QED
  BY <1>1, <1>2, TransferStep DEF DataTransferInv

LEMMA DataTransferInvariant == DataSpec => []DataTransferInv
<1>1. DataInit => DataTransferInv
  BY TypeInit, TransferInit DEF DataInit, DataTransferInv
<1>2. DataTransferInv /\ [DataNext]_<<vars, dataVars>> => DataTransferInv'
  BY DataTransferStep DEF DataNextOrStutter
<1> QED
  BY <1>1, <1>2, PTL DEF DataSpec

(***************************************************************************)
(* Seen without the data blocks, every behaviour with them is one of the   *)
(* file system: in particular a piecewise transfer moves everything        *)
(* exactly when the last block it needs is in the chain, and fs_read       *)
(* advances the offset by the whole count or not at all.                   *)
(***************************************************************************)
THEOREM DataImplementsFileSystem == DataSpec => ImplementsFileSystem
<1>1. DataInit => Init
  BY DEF DataInit
<1>2. DataTransferInv /\ [DataNext]_<<vars, dataVars>> => [Next]_vars
  BY DataTransferStep DEF DataNextOrStutter
<1> QED
  BY <1>1, <1>2, DataTransferInvariant, PTL DEF DataSpec, ImplementsFileSystem, Spec

-----------------------------------------------------------------------------
(***************************************************************************)
(* The types of the data area, and of what the observer believes.          *)
(***************************************************************************)
Beliefs == [Files -> [Positions -> SUBSET Bytes]]

(* A byte of the buffer that has been moved, or will be, is a byte.        *)
LEMMA BufferByte ==
  ASSUME TypeInv, TransferInv, call.pc = "xfer", io # NoTransfer,
         NEW p \in Int, p \in WriteFd.offset .. WriteFd.offset + call.count - 1
  PROVE  io.buf[p - WriteFd.offset] \in Bytes
<1>1. WriteFd.offset \in Nat /\ call.count \in Nat
  BY Transferring
<1>2. io.buf \in [0 .. call.count - 1 -> Bytes]
  BY DEF TransferInv
<1>3. p - WriteFd.offset \in 0 .. call.count - 1
  BY <1>1
<1> QED
  BY <1>2, <1>3

LEMMA PositionsAreNumbers == Positions \subseteq Nat
BY NumBlocksAssumption, BlockSizeAssumption DEF Positions

LEMMA UnwrittenTyped == Unwritten \in [Positions -> SUBSET Bytes]
BY DEF Unwritten

(* What holds says after a transfer.                                       *)
LEMMA HoldsWrittenTyped ==
  ASSUME TypeInv, TransferInv, holds \in Beliefs, call.pc = "xfer"
  PROVE  /\ HoldsWritten \in Beliefs
         /\ \A i \in Files : i # WriteFd.file => HoldsWritten[i] = holds[i]
         /\ \A p \in Positions :
              HoldsWritten[WriteFd.file][p] =
                IF p \in WriteFd.offset .. WriteFd.offset + io.done - 1
                THEN {io.buf[p - WriteFd.offset]} ELSE holds[WriteFd.file][p]
<1> DEFINE f == WriteFd.file
           new == [p \in Positions |->
                     IF p \in WriteFd.offset .. WriteFd.offset + io.done - 1
                     THEN {io.buf[p - WriteFd.offset]} ELSE holds[f][p]]
<1>1. /\ f \in Files /\ WriteFd.offset \in Nat /\ io.done \in 0 .. call.count /\ call.count \in Nat
  BY Transferring
<1>2. HoldsWritten = [holds EXCEPT ![f] = new]
  BY <1>1 DEF HoldsWritten, Beliefs
<1>3. ASSUME NEW p \in Positions
      PROVE  new[p] \in SUBSET Bytes
  <2>1. p \in Int
    BY PositionsAreNumbers
  <2>2. CASE p \in WriteFd.offset .. WriteFd.offset + io.done - 1
    <3>1. io.done # 0
      BY <1>1, <2>1, <2>2
    <3>2. io # NoTransfer
      BY <3>1, NoTransferData
    <3>3. p \in WriteFd.offset .. WriteFd.offset + call.count - 1
      BY <1>1, <2>1, <2>2
    <3>4. io.buf[p - WriteFd.offset] \in Bytes
      BY <2>1, <3>2, <3>3, BufferByte
    <3> QED
      BY <2>2, <3>4
  <2>3. CASE ~(p \in WriteFd.offset .. WriteFd.offset + io.done - 1)
    BY <1>1, <2>3 DEF Beliefs
  <2> QED
    BY <2>2, <2>3
<1>4. new \in [Positions -> SUBSET Bytes]
  BY <1>3
<1>5. \A p \in Positions : new[p] =
        IF p \in WriteFd.offset .. WriteFd.offset + io.done - 1
        THEN {io.buf[p - WriteFd.offset]} ELSE holds[f][p]
  OBVIOUS
<1> HIDE DEF new
<1> QED
  BY <1>1, <1>2, <1>4, <1>5 DEF Beliefs

LEMMA ExpectedTyped ==
  ASSUME TypeInv, TransferInv, holds \in Beliefs, NEW i \in Files
  PROVE  /\ Expected(i) \in [Positions -> SUBSET Bytes]
         /\ \A p \in Positions : holds[i][p] \subseteq Expected(i)[p]
<1>1. holds[i] \in [Positions -> SUBSET Bytes]
  BY DEF Beliefs
<1>2. CASE call.pc = "xfer" /\ io.buf # << >> /\ i = WriteFd.file
  <2> DEFINE wide == [p \in Positions |->
          holds[i][p] \union
            (IF p \in WriteFd.offset .. WriteFd.offset + call.count - 1
             THEN {io.buf[p - WriteFd.offset]} ELSE {})]
  <2>1. Expected(i) = wide
    BY <1>2 DEF Expected
  <2>2. ASSUME NEW p \in Positions
        PROVE  wide[p] \in SUBSET Bytes /\ holds[i][p] \subseteq wide[p]
    <3>1. CASE p \in WriteFd.offset .. WriteFd.offset + call.count - 1
      <4>1. io # NoTransfer
        BY <1>2, NoTransferData
      <4>2. io.buf[p - WriteFd.offset] \in Bytes
        BY <1>2, <3>1, <4>1, BufferByte, PositionsAreNumbers
      <4> QED
        BY <1>1, <4>2
    <3>2. CASE ~(p \in WriteFd.offset .. WriteFd.offset + call.count - 1)
      BY <1>1, <3>2
    <3> QED
      BY <3>1, <3>2
  <2>3. wide \in [Positions -> SUBSET Bytes]
    BY <2>2
  <2> QED
    BY <2>1, <2>2, <2>3
<1>3. CASE ~(call.pc = "xfer" /\ io.buf # << >> /\ i = WriteFd.file)
  <2>1. Expected(i) = holds[i]
    BY <1>3 DEF Expected
  <2> QED
    BY <1>1, <2>1
<1> QED
  BY <1>2, <1>3

LEMMA PatchedTyped ==
  ASSUME TypeInv, TransferInv, TransferPiece, NEW old \in Block
  PROVE  Patched(old, WritePieces[io.moved + 1], io.buf) \in Block
<1>1. /\ io # NoTransfer /\ call.pc = "xfer"
      /\ io.moved + 1 \in 1 .. Len(WritePieces)
      /\ WriteFd.offset \in Nat /\ call.count \in Nat /\ call.count > 0
  BY PieceStep, Transferring DEF TransferPiece
<1>2. io.buf \in [0 .. call.count - 1 -> Bytes]
  BY <1>1 DEF TransferInv
<1>3. PICK i \in 1 .. Len(WritePieces) : i = io.moved + 1
  BY <1>1
<1>4. PICK block \in Nat, at \in Nat, from \in Nat, size \in Nat :
        PieceWithin(WriteFd.offset, call.count, i, block, at, from, size)
  BY <1>1, PieceBounds DEF WritePieces
<1>5. /\ WritePieces[i].at = at /\ WritePieces[i].from = from /\ WritePieces[i].size = size
      /\ from + size =< call.count
  BY <1>4 DEF PieceWithin, WritePieces
<1>6. Patched(old, WritePieces[i], io.buf) =
        [k \in 0 .. BlockSize - 1 |-> IF k \in at .. at + size - 1 THEN io.buf[from + k - at]
                                      ELSE old[k]]
  BY <1>5 DEF Patched
<1>7. ASSUME NEW k \in 0 .. BlockSize - 1
      PROVE  (IF k \in at .. at + size - 1 THEN io.buf[from + k - at] ELSE old[k]) \in Bytes
  <2>1. CASE k \in at .. at + size - 1
    <3>1. from + k - at \in 0 .. call.count - 1
      BY <1>1, <1>5, <2>1, BlockSizeAssumption
    <3> QED
      BY <1>2, <2>1, <3>1
  <2>2. CASE ~(k \in at .. at + size - 1)
    BY <2>2 DEF Block
  <2> QED
    BY <2>1, <2>2
<1> QED
  BY <1>3, <1>6, <1>7 DEF Block

DataTypeInv == DataTransferInv /\ DataTypeOK

LEMMA DataTypeInit == DataInit => DataTypeOK
<1> SUFFICES ASSUME DataInit
             PROVE  DataTypeOK
  OBVIOUS
<1>1. blocks \in [Blocks -> Block]
  BY BytesAssumption DEF DataInit, Block
<1>2. holds \in [Files -> [Positions -> SUBSET Bytes]]
  BY UnwrittenTyped DEF DataInit
<1> QED
  BY <1>1, <1>2 DEF DataInit, DataTypeOK

LEMMA DataTypeStep ==
  ASSUME DataTypeInv, DataNextOrStutter
  PROVE  DataTypeInv'
<1>1. DataTransferInv'
  BY DataTransferStep DEF DataTypeInv
<1>2. TypeInv /\ TransferInv /\ TransferInv'
  BY <1>1 DEF DataTypeInv, DataTransferInv
<1>3. blocks \in [Blocks -> Block] /\ holds \in Beliefs /\ gone \subseteq Files
  BY DEF DataTypeInv, DataTypeOK, Beliefs
<1> DEFINE Typed == blocks' \in [Blocks -> Block] /\ holds' \in Beliefs /\ gone' \subseteq Files
<1>io. io' # NoTransfer =>
         /\ call'.pc = "xfer"
         /\ io'.buf \in [0 .. call'.count - 1 -> Bytes]
         /\ io'.moved \in 0 .. Len(WritePieces')
         /\ io'.done \in 0 .. call'.count
  <2>1. io' # NoTransfer =>
          /\ call'.pc = "xfer"
          /\ io' \in [buf: [0 .. call'.count - 1 -> Bytes], moved: 0 .. Len(WritePieces'),
                     done: 0 .. call'.count]
    BY <1>2 DEF TransferInv, NoTransfer
  <2> QED
    BY <2>1
<1> SUFFICES Typed
  BY <1>1, <1>io DEF DataTypeInv, DataTypeOK, Beliefs, NoTransfer
<1>4. ASSUME blocks' = blocks, holds' = holds, gone' = gone
      PROVE  Typed
  BY <1>3, <1>4
<1>5. CASE UNCHANGED dataVars
  BY <1>4, <1>5 DEF dataVars
<1>6. CASE UmountData
  BY <1>3, <1>6 DEF UmountData
<1>7. ASSUME NEW name \in Names, CreateData(name) \/ DeleteData(name)
      PROVE  Typed
  <2>1. CASE CreateData(name)
    BY <1>3, <2>1, UnwrittenTyped DEF CreateData, Beliefs
  <2>2. CASE DeleteData(name)
    BY <1>3, <2>2, UnwrittenTyped DEF DeleteData, Beliefs, Named
  <2> QED
    BY <1>7, <2>1, <2>2
<1>8. CASE BeginTransfer
  BY <1>4, <1>8 DEF BeginTransfer
<1>9. CASE TransferPiece
  <2>1. PICK b : blocks' = [blocks EXCEPT ![b] = Patched(@, WritePieces[io.moved + 1], io.buf)]
    BY <1>9 DEF TransferPiece
  <2>2. blocks' \in [Blocks -> Block]
    BY <1>2, <1>3, <1>9, <2>1, PatchedTyped
  <2> QED
    BY <1>3, <1>9, <2>2 DEF TransferPiece
<1>10. CASE FinishWrite \/ FinishShort
  BY <1>2, <1>3, <1>10, HoldsWrittenTyped DEF FinishWrite, FinishShort
<1>11. CASE KillData
  <2>1. holds' = [i \in Files |->
       IF i \in gone THEN Unwritten
       ELSE [p \in Positions |->
               IF p \in Covered(disk.fat, disk.root[i].first_index)
               THEN Expected(i)[p] ELSE Bytes]]
    BY <1>11 DEF KillData
  <2>2. holds' \in Beliefs
    BY <1>2, <1>3, <2>1, UnwrittenTyped, ExpectedTyped DEF Beliefs
  <2> QED
    BY <1>3, <1>11, <2>2 DEF KillData
<1>12. ASSUME NEW fd \in Fds, NEW count \in 0 .. MaxCount, ReadData(fd, count)
       PROVE  UNCHANGED dataVars
  BY <1>12 DEF ReadData, dataVars
<1>13. ASSUME NEW fd \in Fds, NEW count \in 1 .. MaxCount, WriteNothing(fd, count)
       PROVE  UNCHANGED dataVars
  BY <1>13 DEF WriteNothing, dataVars
<1>14. CASE MountData
  BY <1>5, <1>14 DEF MountData
<1> HIDE DEF Typed
<1> QED
  BY <1>5, <1>6, <1>7, <1>8, <1>9, <1>10, <1>11, <1>12, <1>13, <1>14
  DEF DataNextOrStutter, DataNext

LEMMA DataTypeInvariant == DataSpec => []DataTypeInv
<1>1. DataInit => DataTypeInv
  BY TypeInit, TransferInit, DataTypeInit DEF DataInit, DataTransferInv, DataTypeInv
<1>2. DataTypeInv /\ [DataNext]_<<vars, dataVars>> => DataTypeInv'
  BY DataTypeStep DEF DataNextOrStutter
<1> QED
  BY <1>1, <1>2, PTL DEF DataSpec

(* The types of the data area, the transfer in progress and the observer.  *)
THEOREM DataTypeCorrect == DataSpec => []DataTypeOK
<1>1. DataTypeInv => DataTypeOK
  BY DEF DataTypeInv
<1> QED
  BY DataTypeInvariant, <1>1, PTL

(***************************************************************************)
(* Every transfer moves exactly the bytes from the offset on, each to its  *)
(* own place: whatever the offset a descriptor may have, and the count.    *)
(***************************************************************************)
THEOREM TransfersCorrect == DataSpec => []TransfersExact
<1>1. DataTypeInv => TransfersExact
  <2> SUFFICES ASSUME DataTypeInv, call.pc = "alloc", NEW n \in 0 .. 2
               PROVE  MovesExactly(WriteFd.offset, call.count + n * BlockSize)
    BY DEF TransfersExact
  <2>1. TypeInv /\ TransferInv
    BY DEF DataTypeInv, DataTransferInv
  <2>2. WriteFd.offset \in Nat
    BY <2>1, OffsetModAssumption DEF TypeInv, TypeOK, CallTyped, IsOpen, FileDescriptor, WriteFd
  <2>3. call.count \in Nat /\ call.count > 0
    BY <2>1, MaxCountAssumption DEF TypeInv, TypeOK, Calls, TransferInv
  <2>4. PICK more \in Nat : more = n * BlockSize
    <3>1. n * BlockSize \in Nat
      BY BlockSizeAssumption
    <3> QED
      BY <3>1
  <2>5. call.count + more \in Nat /\ call.count + more > 0
    BY <2>3, <2>4
  <2> QED
    BY <2>2, <2>4, <2>5, TransferExact
<1> QED
  BY DataTypeInvariant, <1>1, PTL

-----------------------------------------------------------------------------
(***************************************************************************)
(* What the blocks hold.  ContentsInv, one step at a time.                 *)
(***************************************************************************)

(* Position p of a file is in its block p \div BlockSize.                  *)
LEMMA PositionOf ==
  ASSUME NEW n \in 0 .. NumBlocks - 1, NEW k \in 0 .. BlockSize - 1
  PROVE  /\ n * BlockSize + k \in Positions
         /\ (n * BlockSize + k) \div BlockSize = n
<1>1. n \in Nat /\ NumBlocks \in Nat /\ BlockSize \in Nat /\ BlockSize > 0
  BY NumBlocksAssumption, BlockSizeAssumption
<1>2. n * BlockSize = BlockSize * n /\ (BlockSize * n + k) \div BlockSize = n
  BY <1>1, DivUnique
<1>3. (n + 1) * BlockSize =< NumBlocks * BlockSize /\ (n + 1) * BlockSize = n * BlockSize + BlockSize
  BY <1>1
<1>4. n * BlockSize \in Nat /\ NumBlocks * BlockSize \in Nat
  BY <1>1
<1>5. n * BlockSize + k \in 0 .. NumBlocks * BlockSize - 1
  BY <1>1, <1>3, <1>4
<1> QED
  BY <1>2, <1>5 DEF Positions

LEMMA BlockOfPosition ==
  ASSUME NEW p \in Positions
  PROVE  /\ p \in Nat
         /\ p \div BlockSize \in 0 .. NumBlocks - 1
         /\ p % BlockSize \in 0 .. BlockSize - 1
         /\ p = (p \div BlockSize) * BlockSize + (p % BlockSize)
<1>1. NumBlocks \in Nat /\ BlockSize \in Nat /\ BlockSize > 0
  BY NumBlocksAssumption, BlockSizeAssumption
<1>2. p \in Nat
  BY PositionsAreNumbers
<1> DEFINE q == p \div BlockSize
           r == p % BlockSize
<1>3. q \in Nat /\ r \in 0 .. BlockSize - 1 /\ p = BlockSize * q + r
  BY <1>2, DivMod
<1>4. PICK total \in Nat : total = NumBlocks * BlockSize
  BY <1>1
<1>5. q < NumBlocks
  <2>1. p =< total - 1
    BY <1>4 DEF Positions
  <2> HIDE DEF q, r
  <2>2. PICK begin \in Nat : begin = BlockSize * q
    BY <1>1, <1>3
  <2>3. p = begin + r
    BY <1>3, <2>2
  <2>4. q >= NumBlocks => begin >= total
    BY <1>1, <1>3, <1>4, <2>2
  <2> QED
    BY <1>1, <1>2, <1>3, <2>1, <2>3, <2>4
<1> HIDE DEF q, r
<1>6. q \in 0 .. NumBlocks - 1 /\ p = q * BlockSize + r
  BY <1>1, <1>3, <1>5
<1> QED
  BY <1>2, <1>3, <1>6 DEF q, r

(* HasContents and the positions not covered, with the blocks named.       *)
Holds(d, f, first, contents) ==
  \A n \in 0 .. NumBlocks - 1 :
    LET b == find_data_block(f, first, n) IN
    b # FAT_EOC => \A k \in 0 .. BlockSize - 1 : d[b][k] \in contents[n * BlockSize + k]

Unknown(f, first, contents) ==
  \A p \in Positions : find_data_block(f, first, p \div BlockSize) = FAT_EOC => contents[p] = Bytes

LEMMA HoldsIsHasContents ==
  ASSUME NEW f, NEW first, NEW contents
  PROVE  HasContents(f, first, contents) <=> Holds(blocks, f, first, contents)
BY DEF HasContents, Holds

(* A file holds what it held when its chain has only grown, and what the   *)
(* observer believed of the new positions was nothing.                     *)
LEMMA HoldsGrown ==
  ASSUME NEW d \in [Blocks -> Block], NEW f, NEW first, NEW g, NEW first2, NEW c,
         Holds(d, f, first, c), Unknown(f, first, c),
         \A n \in 0 .. NumBlocks - 1 :
           \/ find_data_block(g, first2, n) = find_data_block(f, first, n)
           \/ find_data_block(f, first, n) = FAT_EOC,
         \A n \in 0 .. NumBlocks - 1 : find_data_block(g, first2, n) \in FatEntry
  PROVE  Holds(d, g, first2, c) /\ Unknown(g, first2, c)
<1>1. ASSUME NEW n \in 0 .. NumBlocks - 1, find_data_block(g, first2, n) # FAT_EOC,
             NEW k \in 0 .. BlockSize - 1
      PROVE  d[find_data_block(g, first2, n)][k] \in c[n * BlockSize + k]
  <2>1. CASE find_data_block(f, first, n) = FAT_EOC
    <3>1. n * BlockSize + k \in Positions /\ (n * BlockSize + k) \div BlockSize = n
      BY PositionOf
    <3>2. c[n * BlockSize + k] = Bytes
      BY <2>1, <3>1 DEF Unknown
    <3>3. find_data_block(g, first2, n) \in Blocks
      BY <1>1 DEF FatEntry
    <3> QED
      BY <3>2, <3>3 DEF Block
  <2>2. CASE find_data_block(f, first, n) # FAT_EOC
    BY <1>1, <2>2 DEF Holds
  <2> QED
    BY <2>1, <2>2
<1>2. ASSUME NEW p \in Positions, find_data_block(g, first2, p \div BlockSize) = FAT_EOC
      PROVE  c[p] = Bytes
  <2>1. p \div BlockSize \in 0 .. NumBlocks - 1
    BY BlockOfPosition
  <2>2. find_data_block(f, first, p \div BlockSize) = FAT_EOC
    BY <1>2, <2>1
  <2> QED
    BY <2>2 DEF Unknown
<1> QED
  BY <1>1, <1>2 DEF Holds, Unknown

(* Nothing is believed of a file without blocks.                           *)
LEMMA HoldsEmpty ==
  ASSUME NEW d, NEW f
  PROVE  Holds(d, f, FAT_EOC, Unwritten) /\ Unknown(f, FAT_EOC, Unwritten)
<1>1. \A n \in Nat : find_data_block(f, FAT_EOC, n) = FAT_EOC
  BY EmptyChain
<1>2. \A n \in 0 .. NumBlocks - 1 : n \in Nat
  OBVIOUS
<1> QED
  BY <1>1, <1>2 DEF Holds, Unknown, Unwritten

(* ContentsInv file by file.                                               *)
FileKept(i) ==
  /\ i \in Live(root)
  /\ \A n \in 0 .. NumBlocks - 1 :
       LET b == find_data_block(disk.fat, disk.root[i].first_index, n) IN
       b # FAT_EOC => find_data_block(fat, root[i].first_index, n) = b

FileHolds(i) ==
  /\ Holds(blocks, fat, root[i].first_index, Landed(i))
  /\ Unknown(fat, root[i].first_index, holds[i])

Parked == status # "mounted" => fat = disk.fat /\ root = disk.root /\ gone = {}

LEMMA ContentsParts ==
  ContentsInv <=>
    /\ Parked
    /\ call.pc = "free" => call.arg \in gone
    /\ \A i \in Live(disk.root) \ gone : FileKept(i)
    /\ \A i \in Intact : FileHolds(i)
<1>1. \A i \in Intact :
        FileHolds(i) <=>
          /\ HasContents(fat, root[i].first_index, Landed(i))
          /\ \A p \in Positions \ Covered(fat, root[i].first_index) : holds[i][p] = Bytes
  BY HoldsIsHasContents DEF FileHolds, Unknown, Covered
<1> QED
  BY <1>1 DEF ContentsInv, FileKept, Parked

LEMMA ContentsPartsNext ==
  ContentsInv' <=>
    /\ Parked'
    /\ call'.pc = "free" => call'.arg \in gone'
    /\ \A i \in Live(disk'.root) \ gone' : FileKept(i)'
    /\ \A i \in Intact' : FileHolds(i)'
<1>1. \A i \in Intact' :
        FileHolds(i)' <=>
          /\ HasContents(fat, root[i].first_index, Landed(i))'
          /\ \A p \in Positions \ Covered(fat', root'[i].first_index) : holds'[i][p] = Bytes
  BY DEF FileHolds, Unknown, Covered, Holds, HasContents
<1> QED
  BY <1>1 DEF ContentsInv, FileKept, Parked

DataSound == VolumeSpecInv /\ WriteInv /\ DataTypeInv

(* A step that changes neither the tables nor the data area, nor what has  *)
(* landed in any file.                                                     *)
LEMMA SameTables ==
  ASSUME ContentsInv,
         fat' = fat, root' = root, disk' = disk, blocks' = blocks, gone' = gone, holds' = holds,
         call.pc # "free", call'.pc # "free",
         status' # "mounted" => status # "mounted",
         \A i \in Live(root) : Landed(i)' = Landed(i)
  PROVE  ContentsInv'
<1>1. Parked'
  BY ContentsParts DEF Parked
<1>2. Intact = Live(root) /\ Intact' = Live(root)
  BY DEF Intact, Live
<1>3. ASSUME NEW i \in Live(disk'.root) \ gone'
      PROVE  FileKept(i)'
  <2>1. FileKept(i)
    BY <1>3, ContentsParts
  <2> QED
    BY <2>1 DEF FileKept, Live
<1>4. ASSUME NEW i \in Intact'
      PROVE  FileHolds(i)'
  <2>1. FileHolds(i) /\ Landed(i)' = Landed(i)
    BY <1>2, <1>4, ContentsParts
  <2> QED
    BY <2>1 DEF FileHolds
<1> QED
  BY <1>1, <1>3, <1>4, ContentsPartsNext

LEMMA SameTablesQuiet ==
  ASSUME ContentsInv,
         fat' = fat, root' = root, disk' = disk, UNCHANGED dataVars,
         call.pc \notin {"free", "xfer"}, call'.pc \notin {"free", "xfer"},
         status' # "mounted" => status # "mounted"
  PROVE  ContentsInv'
<1>1. \A i \in Live(root) : Landed(i)' = Landed(i)
  BY DEF Landed, dataVars
<1> QED
  BY <1>1, SameTables DEF dataVars

LEMMA ContentsStutter ==
  ASSUME ContentsInv, UNCHANGED <<vars, dataVars>>
  PROVE  ContentsInv'
BY DEF ContentsInv, vars, dataVars, Live, Intact, Target, HasContents, Covered, Landed,
       HoldsWritten, WriteFd

(* A volume call that changes the tables.  Files that were there before    *)
(* and have not been deleted keep their blocks and gain new ones; a new    *)
(* file has none.                                                          *)
LEMMA ChangedTables ==
  ASSUME DataSound, VolumeSpecInv', ContentsInv, [Next]_vars,
         status = "mounted", status' = "mounted",
         disk' = disk, blocks' = blocks,
         call.pc # "xfer", call'.pc # "xfer",
         gone \subseteq gone',
         call'.pc = "free" => call'.arg \in gone',
         \A i \in Live(root) \ gone' : i \in Live(root'),
         \A i \in Intact' :
           \/ i \in Intact /\ holds'[i] = holds[i]
           \/ holds'[i] = Unwritten /\ root'[i].first_index = FAT_EOC
  PROVE  ContentsInv'
<1>1. VolumeSpecInv /\ WriteInv /\ blocks \in [Blocks -> Block]
  BY DEF DataSound, DataTypeInv, DataTypeOK
<1>2. Parked'
  BY DEF Parked
<1>3. ASSUME NEW i \in Intact, i \in Intact', NEW n \in Nat
      PROVE  \/ find_data_block(fat', root'[i].first_index, n) =
                  find_data_block(fat, root[i].first_index, n)
             \/ find_data_block(fat, root[i].first_index, n) = FAT_EOC
  BY <1>1, <1>3, ChainsStep DEF BlockAt
<1>4. ASSUME NEW i \in Live(disk'.root) \ gone'
      PROVE  FileKept(i)'
  <2>1. FileKept(i) /\ i \in Live(root)
    BY <1>4, ContentsParts DEF FileKept
  <2>2. i \in Live(root')
    BY <1>4, <2>1
  <2>3. i \in Intact
    BY <1>4, <2>1, IntactFiles, ContentsParts
  <2>4. i \in Intact'
    BY <1>4, <2>2 DEF Intact, Target
  <2>5. ASSUME NEW n \in 0 .. NumBlocks - 1,
               find_data_block(disk'.fat, disk'.root[i].first_index, n) # FAT_EOC
        PROVE  find_data_block(fat', root'[i].first_index, n) =
                 find_data_block(disk'.fat, disk'.root[i].first_index, n)
    <3>1. n \in Nat
      BY NumBlocksAssumption
    <3>2. find_data_block(fat, root[i].first_index, n) =
            find_data_block(disk'.fat, disk'.root[i].first_index, n)
      BY <2>1, <2>5 DEF FileKept
    <3> QED
      BY <1>3, <2>3, <2>4, <2>5, <3>1, <3>2
  <2>6. i \in Live(root)'
    BY <2>2 DEF Live
  <2> QED
    BY <2>5, <2>6 DEF FileKept
<1>5. ASSUME NEW i \in Intact'
      PROVE  Holds(blocks', fat', root'[i].first_index, holds'[i]) /\
             Unknown(fat', root'[i].first_index, holds'[i])
  <2>1. CASE holds'[i] = Unwritten /\ root'[i].first_index = FAT_EOC
    BY <2>1, HoldsEmpty
  <2>2. CASE i \in Intact /\ holds'[i] = holds[i]
    <3>1. FileHolds(i) /\ Landed(i) = holds[i]
      BY <2>2, ContentsParts DEF Landed
    <3>2. Holds(blocks, fat, root[i].first_index, holds[i]) /\
          Unknown(fat, root[i].first_index, holds[i])
      BY <3>1 DEF FileHolds
    <3>3. \A n \in 0 .. NumBlocks - 1 :
            \/ find_data_block(fat', root'[i].first_index, n) =
                 find_data_block(fat, root[i].first_index, n)
            \/ find_data_block(fat, root[i].first_index, n) = FAT_EOC
      BY <1>3, <1>5, <2>2, NumBlocksAssumption
    <3>4. fat' \in Fat /\ VolumeSound(fat', root', Intact')
      BY DEF VolumeSpecInv, VolumeInv, VolumesSound, TypeInv, TypeOK
    <3>5. \A n \in 0 .. NumBlocks - 1 : n \in Nat
      BY NumBlocksAssumption
    <3>6. \A n \in 0 .. NumBlocks - 1 :
            find_data_block(fat', root'[i].first_index, n) \in FatEntry
      BY <1>5, <3>4, <3>5, ChainBlock DEF FatEntry, DataBlocks
    <3> QED
      BY <1>1, <2>2, <3>2, <3>3, <3>6, HoldsGrown
  <2> QED
    BY <1>5, <2>1, <2>2
<1>6. \A i \in Intact' : FileHolds(i)'
  BY <1>5 DEF FileHolds, Landed
<1> QED
  BY <1>2, <1>4, <1>6, ContentsPartsNext

(* fs_umount between its writes: the old directory with the new FAT.  A    *)
(* file that has not been deleted starts where it did, or had no block.    *)
LEMMA UmountContents ==
  ASSUME DataSound, ContentsInv, Umount, UNCHANGED dataVars
  PROVE  ContentsInv'
<1>1. /\ status = "mounted" /\ status' = status /\ fat' = fat /\ root' = root
      /\ call.pc = "idle" /\ call'.pc = "saving"
      /\ disk.root = disk'.root /\ disk'.fat = fat
  BY DEF Umount, Ready, Idle, DataSound, VolumeSpecInv, TypeInv, TypeOK
<1>2. Parked'
  BY <1>1 DEF Parked
<1>3. ASSUME NEW i \in Live(disk'.root) \ gone'
      PROVE  FileKept(i)'
  <2>1. FileKept(i) /\ i \in Live(root)
    BY <1>1, <1>3, ContentsParts DEF FileKept, Live, dataVars
  <2> DEFINE old == disk.root[i].first_index
  <2>2. old # FAT_EOC => root[i].first_index = old
    <3>1. 0 \in 0 .. NumBlocks - 1
      BY NumBlocksAssumption
    <3>2. find_data_block(disk.fat, old, 0) = old /\
          find_data_block(fat, root[i].first_index, 0) = root[i].first_index
      BY FindFirst
    <3> QED
      BY <2>1, <3>1, <3>2 DEF FileKept
  <2>3. \A n \in 0 .. NumBlocks - 1 :
          find_data_block(fat, old, n) # FAT_EOC =>
            find_data_block(fat, root[i].first_index, n) = find_data_block(fat, old, n)
    <3>1. \A n \in 0 .. NumBlocks - 1 : n \in Nat
      BY NumBlocksAssumption
    <3>2. CASE old = FAT_EOC
      BY <3>1, <3>2, EmptyChain
    <3>3. CASE old # FAT_EOC
      BY <2>2, <3>3
    <3> QED
      BY <3>2, <3>3
  <2> QED
    BY <1>1, <2>1, <2>3 DEF FileKept, Live
<1>4. ASSUME NEW i \in Intact'
      PROVE  FileHolds(i)'
  <2>1. i \in Intact
    BY <1>1, <1>4 DEF Intact, Live
  <2>2. FileHolds(i)
    BY <2>1, ContentsParts
  <2> QED
    BY <1>1, <2>2 DEF FileHolds, Landed, dataVars
<1> QED
  BY <1>1, <1>2, <1>3, <1>4, ContentsPartsNext

(* fs_umount is over: the disk is the memory.                              *)
LEMMA UmountRootContents ==
  ASSUME DataSound, ContentsInv, UmountData
  PROVE  ContentsInv'
<1>1. /\ fat' = fat /\ root' = root /\ call.pc = "saving" /\ call'.pc = "idle"
      /\ disk'.fat = fat /\ disk'.root = root /\ gone' = {}
      /\ blocks' = blocks /\ io' = io /\ holds' = holds
  BY DEF UmountData, UmountRoot, Idle, DataSound, VolumeSpecInv, VolumeInv, TypeInv, TypeOK
<1>2. Parked'
  BY <1>1 DEF Parked
<1>3. \A i \in Live(disk'.root) \ gone' : FileKept(i)'
  BY <1>1 DEF FileKept, Live
<1>4. ASSUME NEW i \in Intact'
      PROVE  FileHolds(i)'
  <2>1. i \in Intact
    BY <1>1, <1>4 DEF Intact, Live
  <2>2. FileHolds(i)
    BY <2>1, ContentsParts
  <2> QED
    BY <1>1, <2>2 DEF FileHolds, Landed
<1> QED
  BY <1>1, <1>2, <1>3, <1>4, ContentsPartsNext

(* What the entry of a created file is; the others stay.                   *)
LEMMA CreateContents ==
  ASSUME DataSound, VolumeSpecInv', ContentsInv, NEW name \in Names, CreateData(name),
         [Next]_vars
  PROVE  ContentsInv'
<1> DEFINE e == Least(Named(NoName))
<1>1. Named(NoName) # {} /\ e \in Files /\ root[e].filename = NoName
  BY EmptyEntryIsFile DEF CreateData, Create, Named
<1>2. /\ status = "mounted" /\ status' = "mounted" /\ disk' = disk
      /\ call.pc = "idle" /\ call'.pc = "idle"
      /\ blocks' = blocks /\ gone' = gone
      /\ root' = [root EXCEPT ![e] =
           [filename |-> name, file_size |-> 0, first_index |-> FAT_EOC]]
      /\ holds' = [holds EXCEPT ![e] = Unwritten]
  BY DEF CreateData, Create, Ready, Idle
<1>3. holds \in [Files -> [Positions -> SUBSET Bytes]] /\ root \in Root
  BY DEF DataSound, DataTypeInv, DataTypeOK, VolumeSpecInv, TypeInv, TypeOK
<1> HIDE DEF e
<1>4. /\ root'[e].first_index = FAT_EOC /\ root'[e].filename = name /\ holds'[e] = Unwritten
      /\ \A i \in Files : i # e => root'[i] = root[i] /\ holds'[i] = holds[i]
  BY <1>1, <1>2, <1>3 DEF Root
<1>5. \A i \in Live(root) : i \in Live(root')
  BY <1>1, <1>4 DEF Live
<1>6. Intact = Live(root) /\ Intact' = Live(root')
  BY <1>2 DEF Intact, Live
<1>7. ASSUME NEW i \in Intact'
      PROVE  \/ i \in Intact /\ holds'[i] = holds[i]
             \/ holds'[i] = Unwritten /\ root'[i].first_index = FAT_EOC
  BY <1>4, <1>6, <1>7 DEF Live
<1> QED
  BY <1>2, <1>5, <1>7, ChangedTables

(* fs_delete of an empty file, and of one whose blocks it will free.       *)
LEMMA DeleteContents ==
  ASSUME DataSound, VolumeSpecInv', ContentsInv, NEW name \in Names, DeleteData(name),
         [Next]_vars
  PROVE  ContentsInv'
<1>1. /\ status = "mounted" /\ status' = "mounted" /\ disk' = disk
      /\ call.pc = "idle" /\ blocks' = blocks
      /\ gone' = gone \union Named(name)
  <2>1. DeleteEmpty(name) \/ Delete(name)
    BY DEF DeleteData
  <2>2. status = "mounted" /\ call = Idle /\ status' = status /\ disk' = disk
    <3>1. CASE DeleteEmpty(name)
      BY <3>1 DEF DeleteEmpty, Deletable, Ready
    <3>2. CASE Delete(name)
      BY <3>2 DEF Delete, Deletable, Ready
    <3> QED
      BY <2>1, <3>1, <3>2
  <2>3. blocks' = blocks /\ gone' = gone \union Named(name)
    BY DEF DeleteData
  <2> QED
    BY <2>2, <2>3 DEF Idle
<1>2. holds' = [i \in Files |-> IF i \in Named(name) THEN Unwritten ELSE holds[i]]
  BY DEF DeleteData
<1>3. root \in Root /\ NoName \notin Names
  BY NamesAssumption DEF DataSound, VolumeSpecInv, TypeInv, TypeOK
<1>4. Intact = Live(root)
  BY <1>1, IntactFiles
<1>5. CASE DeleteEmpty(name)
  <2>1. PICK e \in Files : /\ e \in Named(name) /\ root' = [root EXCEPT ![e] = DeletedFile]
                           /\ call'.pc = "idle"
    BY <1>1, <1>5 DEF DeleteEmpty, Deletable
  <2>2. /\ root'[e].filename = NoName
        /\ \A i \in Files : i # e => root'[i] = root[i]
    BY <1>3, <2>1 DEF Root, DeletedFile
  <2>3. Intact' = Live(root) \ {e} /\ Live(root') = Live(root) \ {e}
    BY <2>1, <2>2 DEF Intact, Live
  <2>4. \A i \in Live(root) \ {e} : i \notin Named(name)
    <3>1. NamesDiffer(root)
      BY <1>1 DEF DataSound, VolumeSpecInv, DescriptorInv, OpenFilesExist
    <3> QED
      BY <2>1, <3>1, <1>3 DEF NamesDiffer, Named, Live
  <2>5. \A i \in Intact' : i \in Intact /\ holds'[i] = holds[i]
    BY <1>2, <1>4, <2>3, <2>4 DEF Live
  <2> QED
    BY <1>1, <2>1, <2>3, <2>5, ChangedTables
<1>6. CASE Delete(name)
  <2>1. PICK e \in Files : /\ e \in Named(name) /\ root' = root
                           /\ call'.pc = "free" /\ call'.arg = e
    BY <1>6 DEF Delete, Deletable, Idle
  <2>2. Intact' = Live(root) \ {e} /\ Live(root') = Live(root)
    BY <2>1 DEF Intact, Live, Target
  <2>3. \A i \in Live(root) \ {e} : i \notin Named(name)
    <3>1. NamesDiffer(root)
      BY <1>1 DEF DataSound, VolumeSpecInv, DescriptorInv, OpenFilesExist
    <3> QED
      BY <2>1, <3>1, <1>3 DEF NamesDiffer, Named, Live
  <2>4. \A i \in Intact' : i \in Intact /\ holds'[i] = holds[i]
    BY <1>2, <1>4, <2>2, <2>3 DEF Live
  <2> QED
    BY <1>1, <2>1, <2>2, <2>4, ChangedTables
<1> QED
  BY <1>5, <1>6 DEF DeleteData

(* The first block of a file, one more block, and the loop of fs_delete    *)
(* change the FAT; the last iteration of that loop also empties the entry. *)
LEMMA AllocateContents ==
  ASSUME DataSound, VolumeSpecInv', ContentsInv, [Next]_vars, UNCHANGED dataVars,
         \/ \E fd \in Fds, count \in 1 .. MaxCount : WriteFirstBlock(fd, count)
         \/ Extend
  PROVE  ContentsInv'
<1>1. /\ status = "mounted" /\ status' = "mounted" /\ disk' = disk
      /\ call.pc \in {"idle", "alloc"} /\ call'.pc = "alloc"
  <2>1. CASE \E fd \in Fds, count \in 1 .. MaxCount : WriteFirstBlock(fd, count)
    BY <2>1 DEF WriteFirstBlock, Writable, Ready, Idle, InCall
  <2>2. CASE Extend
    <3>1. status = "mounted"
      BY <2>2, MountedVolume DEF Extend, DataSound
    <3>2. call'.pc = "alloc"
      BY <2>2 DEF Extend, DataSound, VolumeSpecInv, TypeInv, TypeOK, Calls
    <3> QED
      BY <2>2, <3>1, <3>2 DEF Extend
  <2> QED
    BY <2>1, <2>2
<1>2. \A i \in Files : root'[i].filename = root[i].filename
  <2>0. root \in Root
    BY DEF DataSound, VolumeSpecInv, TypeInv, TypeOK
  <2>1. CASE \E fd \in Fds, count \in 1 .. MaxCount : WriteFirstBlock(fd, count)
    BY <2>0, <2>1 DEF WriteFirstBlock, Root, File
  <2>2. CASE Extend
    BY <2>2 DEF Extend
  <2> QED
    BY <2>1, <2>2
<1>3. Intact = Live(root) /\ Intact' = Live(root) /\ Live(root') = Live(root)
  BY <1>1, <1>2 DEF Intact, Live
<1> QED
  BY <1>1, <1>3, ChangedTables DEF dataVars

LEMMA FreeContents ==
  ASSUME DataSound, VolumeSpecInv', ContentsInv, [Next]_vars, UNCHANGED dataVars,
         FreeBlock \/ FreeLast
  PROVE  ContentsInv'
<1>1. /\ call \in Calls /\ root \in Root
      /\ call.pc = "free" /\ status = "mounted" /\ status' = "mounted" /\ disk' = disk
      /\ call.arg \in gone
  BY MountedVolume, ContentsParts DEF FreeBlock, FreeLast, DataSound
<1>2. Intact = Live(root) \ {call.arg} /\ call.arg \in Files
  BY <1>1, IntactFiles DEF DataSound, VolumeSpecInv, TypeInv, CallTyped
<1>3. CASE FreeBlock
  <2>1. root' = root /\ call'.pc = "free" /\ call'.arg = call.arg
    BY <1>1, <1>3 DEF FreeBlock, Calls
  <2>2. Intact' = Intact
    BY <1>1, <2>1 DEF Intact, Target, Live
  <2> QED
    BY <1>1, <2>1, <2>2, ChangedTables DEF dataVars
<1>4. CASE FreeLast
  <2>1. root' = [root EXCEPT ![call.arg] = DeletedFile] /\ call'.pc = "idle"
    BY <1>4 DEF FreeLast, Idle
  <2>2. Live(root') = Live(root) \ {call.arg}
    BY <1>1, <1>2, <2>1, EmptiedEntry
  <2>3. Intact' = Intact
    BY <1>2, <2>1, <2>2 DEF Intact, Live
  <2> QED
    BY <1>1, <2>1, <2>2, <2>3, ChangedTables DEF dataVars
<1> QED
  BY <1>3, <1>4

(* A transfer that begins has brought nothing yet.                         *)
LEMMA NothingLanded ==
  ASSUME DataSound, TypeInv', TransferInv', call'.pc = "xfer", io'.done = 0, holds' = holds
  PROVE  \A i \in Files : Landed(i)' = holds[i]
<1>1. holds \in [Files -> [Positions -> SUBSET Bytes]]
  BY DEF DataSound, DataTypeInv, DataTypeOK
<1>2. WriteFd'.offset \in Nat /\ WriteFd'.file \in Files
  <2>1. /\ open_files' \in [Fds -> FileDescriptor \union {NULL}]
        /\ call'.arg \in Fds /\ open_files'[call'.arg] # NULL
    BY DEF TypeInv, TypeOK, CallTyped, IsOpen
  <2> QED
    BY <2>1, OffsetModAssumption DEF WriteFd, FileDescriptor
<1>3. ASSUME NEW i \in Files
      PROVE  Landed(i)' = holds[i]
  <2>1. Landed(i)' = HoldsWritten'[i]
    BY DEF Landed
  <2>2. \A p : p \notin WriteFd'.offset .. WriteFd'.offset + io'.done - 1
    BY <1>2
  <2>3. HoldsWritten' = [holds EXCEPT ![WriteFd'.file] = [p \in Positions |-> @[p]]]
    BY <2>2 DEF HoldsWritten
  <2>4. HoldsWritten' = holds
    BY <1>1, <1>2, <2>3
  <2> QED
    BY <2>1, <2>4
<1> QED
  BY <1>3

LEMMA BeginContents ==
  ASSUME DataSound, DataTypeInv', ContentsInv,
         BeginTransfer \/ \E fd \in Fds, count \in 1 .. MaxCount : WriteNothing(fd, count)
  PROVE  ContentsInv'
<1>1. /\ fat' = fat /\ root' = root /\ disk' = disk /\ blocks' = blocks /\ gone' = gone
      /\ holds' = holds /\ status' = status
      /\ call.pc \in {"idle", "alloc"} /\ call'.pc = "xfer" /\ io'.done = 0
  <2>0. call \in Calls /\ TransferInv
    BY DEF DataSound, DataTypeInv, DataTransferInv, TypeInv, TypeOK
  <2>1. CASE BeginTransfer
    <3>1. io'.done = 0
      BY <2>1, NoTransferData DEF BeginTransfer, NoTransfer
    <3> QED
      BY <2>0, <2>1, <3>1 DEF BeginTransfer, Allocated, Calls
  <2>2. CASE \E fd \in Fds, count \in 1 .. MaxCount : WriteNothing(fd, count)
    <3>1. call = Idle /\ io' = io
      BY <2>2 DEF WriteNothing, WriteNoBlock, Writable, Ready, dataVars
    <3>2. io' = NoTransfer
      BY <2>0, <3>1, IdleOutside DEF Idle
    <3> QED
      BY <2>2, <3>1, <3>2, NoTransferData
      DEF WriteNothing, WriteNoBlock, InCall, Idle, dataVars
  <2> QED
    BY <2>1, <2>2
<1>2. \A i \in Live(root) : Landed(i)' = Landed(i)
  <2>1. \A i \in Files : Landed(i)' = holds[i]
    BY <1>1, NothingLanded DEF DataTypeInv, DataTransferInv
  <2> QED
    BY <1>1, <2>1 DEF Landed, Live
<1> QED
  BY <1>1, <1>2, SameTables

(* What the observer is owed of a file at a position, one transfer at a    *)
(* time.                                                                   *)
LEMMA LandedAt ==
  ASSUME DataTypeInv, call.pc = "xfer"
  PROVE  \A i \in Files, p \in Positions :
           Landed(i)[p] =
             IF i = WriteFd.file /\ p \in WriteFd.offset .. WriteFd.offset + io.done - 1
             THEN {io.buf[p - WriteFd.offset]} ELSE holds[i][p]
<1>1. TypeInv /\ TransferInv /\ holds \in Beliefs
  BY DEF DataTypeInv, DataTransferInv, DataTypeOK, Beliefs
<1> QED
  BY <1>1, HoldsWrittenTyped DEF Landed

LEMMA LandedNext ==
  ASSUME DataTypeInv, call.pc = "xfer", UNCHANGED vars, UNCHANGED holds,
         io'.buf = io.buf
  PROVE  \A i \in Files, p \in Positions :
           Landed(i)'[p] =
             IF i = WriteFd.file /\ p \in WriteFd.offset .. WriteFd.offset + io'.done - 1
             THEN {io.buf[p - WriteFd.offset]} ELSE holds[i][p]
<1>1. TypeInv /\ TransferInv /\ holds \in Beliefs
  BY DEF DataTypeInv, DataTransferInv, DataTypeOK, Beliefs
<1>2. WriteFd' = WriteFd /\ WriteFd.file \in Files /\ call'.pc = "xfer"
  BY <1>1, Transferring DEF vars, WriteFd
<1> DEFINE new == [p \in Positions |->
                     IF p \in WriteFd.offset .. WriteFd.offset + io'.done - 1
                     THEN {io.buf[p - WriteFd.offset]} ELSE holds[WriteFd.file][p]]
<1>3. HoldsWritten' = [holds EXCEPT ![WriteFd.file] = new]
  BY <1>1, <1>2 DEF HoldsWritten, Beliefs
<1>4. \A p \in Positions : new[p] =
        IF p \in WriteFd.offset .. WriteFd.offset + io'.done - 1
        THEN {io.buf[p - WriteFd.offset]} ELSE holds[WriteFd.file][p]
  OBVIOUS
<1> HIDE DEF new
<1>5. /\ HoldsWritten'[WriteFd.file] = new
      /\ \A i \in Files : i # WriteFd.file => HoldsWritten'[i] = holds[i]
  BY <1>1, <1>2, <1>3 DEF Beliefs
<1>6. \A i \in Files : Landed(i)' = HoldsWritten'[i]
  BY <1>2 DEF Landed
<1> QED
  BY <1>2, <1>4, <1>5, <1>6

(* One piece.  It brings its bytes to their place in one block of the file *)
(* and leaves the rest of that block, and every other block, alone.        *)
LEMMA PieceContents ==
  ASSUME DataSound, ContentsInv, TransferPiece
  PROVE  ContentsInv'
<1>1. /\ VolumeSpecInv /\ TypeInv /\ TransferInv /\ DataTypeInv
      /\ blocks \in [Blocks -> Block] /\ holds \in Beliefs
  BY DEF DataSound, DataTypeInv, DataTransferInv, DataTypeOK, Beliefs
<1> DEFINE f      == WriteFd.file
           first  == WriteFile.first_index
           offset == WriteFd.offset
           m      == io.moved + 1
           piece  == WritePieces[m]
           target == find_data_block(fat, first, piece.block)
<1>2. /\ call.pc = "xfer" /\ UNCHANGED vars /\ UNCHANGED <<holds, gone>>
      /\ target # FAT_EOC
      /\ blocks' = [blocks EXCEPT ![target] = Patched(@, piece, io.buf)]
  BY DEF TransferPiece
<1>3. /\ io'.buf = io.buf /\ m \in 1 .. Len(WritePieces)
      /\ io.done = piece.from /\ io'.done = piece.from + piece.size
      /\ io'.done \in 0 .. call.count
  BY <1>1, PieceStep
<1>4. /\ f \in Live(root) /\ Intact = Live(root) /\ VolumeSound(fat, root, Intact)
      /\ status = "mounted" /\ fat \in Fat /\ f \in Files
  <2>1. f = open_files[call.arg].file
    BY DEF WriteFd
  <2> HIDE DEF f
  <2> QED
    BY <1>1, <1>2, <2>1, WrittenFile, MountedVolume
<1>5. offset \in Nat /\ call.count \in Nat /\ call.count > 0
  BY <1>1, <1>2, Transferring
<1>6. first = root[f].first_index
  BY DEF WriteFile
<1>7. ASSUME NEW n \in 0 .. NumBlocks - 1, NEW k \in 0 .. BlockSize - 1
      PROVE  /\ piece.block \in Nat /\ piece.at \in Nat /\ piece.from \in Nat /\ piece.size \in Nat
             /\ n * BlockSize + k \in offset + piece.from .. offset + piece.from + piece.size - 1
                  <=> n = piece.block /\ k \in piece.at .. piece.at + piece.size - 1
             /\ n = piece.block => (n * BlockSize + k) - offset = piece.from + k - piece.at
  <2>1. n \in Nat
    BY NumBlocksAssumption
  <2>2. m \in 1 .. Len(Pieces(offset, call.count)) /\ piece = Pieces(offset, call.count)[m]
    BY <1>3 DEF WritePieces
  <2> HIDE DEF f, first, offset, m, piece, target
  <2>3. Placed(offset, call.count, m, n, k)
    BY <1>5, <2>1, <2>2, PieceInFile
  <2> QED
    BY <2>2, <2>3 DEF Placed
<1>8. piece.block \in Nat /\ piece.at \in Nat /\ piece.from \in Nat /\ piece.size \in Nat
  <2>1. 0 \in 0 .. NumBlocks - 1 /\ 0 \in 0 .. BlockSize - 1
    BY NumBlocksAssumption, BlockSizeAssumption
  <2> HIDE DEF f, first, offset, m, piece, target
  <2> QED
    BY <1>7, <2>1
<1> HIDE DEF f, first, offset, m, piece, target
<1>9. target \in Blocks
  BY <1>2, <1>4, <1>6, <1>8, ChainBlock DEF target, DataBlocks
<1>10. /\ \A b \in Blocks : b # target => blocks'[b] = blocks[b]
       /\ \A k \in 0 .. BlockSize - 1 :
            blocks'[target][k] = IF k \in piece.at .. piece.at + piece.size - 1
                                 THEN io.buf[piece.from + k - piece.at] ELSE blocks[target][k]
  <2>1. blocks'[target] = Patched(blocks[target], piece, io.buf)
    BY <1>1, <1>2, <1>9
  <2> QED
    BY <1>1, <1>2, <2>1 DEF Patched
<1>11. \A i \in Files, p \in Positions :
         /\ Landed(i)[p] = IF i = f /\ p \in offset .. offset + piece.from - 1
                           THEN {io.buf[p - offset]} ELSE holds[i][p]
         /\ Landed(i)'[p] = IF i = f /\ p \in offset .. offset + piece.from + piece.size - 1
                            THEN {io.buf[p - offset]} ELSE holds[i][p]
  <2>1. UNCHANGED holds
    BY <1>2
  <2>2. offset + io'.done - 1 = offset + piece.from + piece.size - 1
    <3>1. io'.done = piece.from + piece.size
      BY <1>3
    <3>2. offset + (piece.from + piece.size) - 1 = offset + piece.from + piece.size - 1
      BY <1>5, <1>8
    <3> QED
      BY <3>1, <3>2
  <2>3. offset + io.done - 1 = offset + piece.from - 1
    BY <1>3
  <2> QED
    BY <1>1, <1>2, <1>3, <2>1, <2>2, <2>3, LandedAt, LandedNext DEF f, offset
<1>12. Parked'
  BY <1>2, <1>4 DEF Parked, vars
<1>13. ASSUME NEW i \in Live(disk'.root) \ gone'
       PROVE  FileKept(i)'
  <2>1. FileKept(i)
    BY <1>2, <1>13, ContentsParts DEF vars
  <2> QED
    BY <1>2, <2>1 DEF FileKept, vars, Live
<1>14. Intact' = Intact /\ root' = root /\ fat' = fat /\ call'.pc = "xfer"
  BY <1>2 DEF Intact, vars, Target, Live
<1>15. ASSUME NEW i \in Intact, NEW n \in 0 .. NumBlocks - 1,
              find_data_block(fat, root[i].first_index, n) # FAT_EOC,
              NEW k \in 0 .. BlockSize - 1
       PROVE  blocks'[find_data_block(fat, root[i].first_index, n)][k]
                \in Landed(i)'[n * BlockSize + k]
  <2> DEFINE b == find_data_block(fat, root[i].first_index, n)
             p == n * BlockSize + k
  <2>0. n \in Nat /\ i \in Files
    BY <1>4, <1>15, NumBlocksAssumption DEF Live
  <2>b. b \in Blocks
    BY <1>4, <1>15, <2>0, ChainBlock DEF DataBlocks
  <2>1. blocks[b][k] \in Landed(i)[p]
    BY <1>15, ContentsParts DEF FileHolds, Holds
  <2>4a. b = find_data_block(fat, root[i].first_index, n) /\ p = n * BlockSize + k
    OBVIOUS
  <2>2. b = target => i = f /\ n = piece.block
    BY <1>2, <1>4, <1>6, <1>8, <1>15, <2>0, ChainsMeetNowhere DEF target
  <2>3. p \in Positions /\ p \in Nat
    BY PositionOf, PositionsAreNumbers
  <2>4. SUFFICES blocks'[b][k] \in Landed(i)'[p]
    OBVIOUS
  <2> HIDE DEF b, p
  <2>5. CASE i # f
    <3>1. b # target
      BY <2>2, <2>5
    <3> QED
      <4>1. blocks'[b] = blocks[b]
        BY <1>10, <2>b, <3>1
      <4>2. Landed(i)'[p] = Landed(i)[p]
        BY <1>11, <2>0, <2>3, <2>5
      <4> QED
        BY <2>1, <4>1, <4>2
  <2>6. CASE i = f /\ n # piece.block
    <3>1. b # target
      BY <2>2, <2>6
    <3>2. ~(p \in offset + piece.from .. offset + piece.from + piece.size - 1)
      BY <1>7, <2>6, <2>4a
    <3>3. p \in offset .. offset + piece.from + piece.size - 1
            <=> p \in offset .. offset + piece.from - 1
      BY <1>5, <1>8, <2>3, <3>2
    <3>4. Landed(i)'[p] = Landed(i)[p]
      BY <1>11, <2>0, <2>3, <3>3
    <3> QED
      <4>1. blocks'[b] = blocks[b]
        BY <1>10, <2>b, <3>1
      <4> QED
        BY <2>1, <3>4, <4>1
  <2>7. CASE i = f /\ n = piece.block
    <3>1. b = target
      BY <1>6, <2>7, <2>4a DEF target
    <3>2. CASE k \in piece.at .. piece.at + piece.size - 1
      <4>1. p \in offset + piece.from .. offset + piece.from + piece.size - 1
        BY <1>7, <2>7, <2>4a, <3>2
      <4>2. p \in offset .. offset + piece.from + piece.size - 1
        BY <1>5, <1>8, <2>3, <4>1
      <4>3. p - offset = piece.from + k - piece.at
        BY <1>7, <2>7, <2>4a
      <4>4. blocks'[target][k] = io.buf[p - offset]
        BY <1>10, <3>2, <4>3
      <4> QED
        BY <1>11, <2>0, <2>3, <2>7, <3>1, <4>2, <4>4
    <3>3. CASE ~(k \in piece.at .. piece.at + piece.size - 1)
      <4>1. ~(p \in offset + piece.from .. offset + piece.from + piece.size - 1)
        BY <1>7, <2>7, <2>4a, <3>3
      <4>2. p \in offset .. offset + piece.from + piece.size - 1
              <=> p \in offset .. offset + piece.from - 1
        BY <1>5, <1>8, <2>3, <4>1
      <4>3. Landed(i)'[p] = Landed(i)[p]
        BY <1>11, <2>0, <2>3, <4>2
      <4>4. blocks'[b][k] = blocks[b][k]
        BY <1>10, <3>1, <3>3
      <4> QED
        BY <2>1, <4>3, <4>4
    <3> QED
      BY <3>2, <3>3
  <2> QED
    BY <2>5, <2>6, <2>7
<1>16. \A i \in Intact' : FileHolds(i)'
  <2>1. \A i \in Intact : Unknown(fat, root[i].first_index, holds[i])
    BY ContentsParts DEF FileHolds
  <2> QED
    BY <1>2, <1>14, <1>15, <2>1 DEF FileHolds, Holds, Unknown
<1> QED
  BY <1>12, <1>13, <1>14, <1>16, ContentsPartsNext

(* Bytes are counted as written only where the file has a block.           *)
LEMMA WrittenIsCovered ==
  ASSUME DataTypeInv, call.pc = "xfer",
         NEW p \in Positions, p \in WriteFd.offset .. WriteFd.offset + io.done - 1
  PROVE  find_data_block(fat, WriteFile.first_index, p \div BlockSize) # FAT_EOC
<1>1. TypeInv /\ TransferInv
  BY DEF DataTypeInv, DataTransferInv
<1>2. /\ WriteFd.offset \in Nat /\ call.count \in Nat /\ call.count > 0
      /\ io.moved \in 0 .. Len(WritePieces) /\ io.done \in 0 .. call.count
      /\ Len(WritePieces) \in Nat
  BY <1>1, Transferring
<1>3. p \in Nat /\ p \div BlockSize \in 0 .. NumBlocks - 1 /\ p % BlockSize \in 0 .. BlockSize - 1
      /\ p = (p \div BlockSize) * BlockSize + (p % BlockSize)
  BY BlockOfPosition
<1>4. io.moved # 0
  <2>1. io.done # 0
    BY <1>2, <1>3
  <2> QED
    BY <1>1, <2>1 DEF TransferInv
<1> DEFINE m     == io.moved
           piece == WritePieces[m]
           n     == p \div BlockSize
           k     == p % BlockSize
<1>5. /\ m \in 1 .. Len(WritePieces)
      /\ io.done = piece.from + piece.size
      /\ find_data_block(fat, WriteFile.first_index, piece.block) # FAT_EOC
  BY <1>1, <1>2, <1>4 DEF TransferInv
<1>6. n \in Nat /\ k \in 0 .. BlockSize - 1 /\ p = n * BlockSize + k
  BY <1>3, NumBlocksAssumption
<1>7. m \in 1 .. Len(Pieces(WriteFd.offset, call.count)) /\
      piece = Pieces(WriteFd.offset, call.count)[m]
  BY <1>5 DEF WritePieces
<1> HIDE DEF m, piece, n, k
<1>8. Placed(WriteFd.offset, call.count, m, n, k)
  BY <1>2, <1>6, <1>7, PieceInFile
<1>9. /\ piece.block \in Nat /\ piece.from \in Nat /\ piece.size \in Nat
      /\ n > piece.block => p >= WriteFd.offset + piece.from + piece.size
  BY <1>6, <1>7, <1>8 DEF Placed
<1>10. p < WriteFd.offset + piece.from + piece.size
  BY <1>2, <1>3, <1>5, <1>9
<1>11. find_data_block(fat, WriteFile.first_index, n) # FAT_EOC
  <2>1. n =< piece.block
    <3>1. ~(p >= WriteFd.offset + piece.from + piece.size)
      BY <1>2, <1>3, <1>9, <1>10
    <3> QED
      BY <1>6, <1>9, <3>1
  <2> QED
    BY <1>5, <1>6, <1>9, <2>1, ChainEnded
<1> QED
  BY <1>11 DEF n

(* fs_write returns.  What it has written is what may be relied on.        *)
LEMMA FinishContents ==
  ASSUME DataSound, ContentsInv, FinishWrite \/ FinishShort
  PROVE  ContentsInv'
<1>1. /\ VolumeSpecInv /\ TypeInv /\ TransferInv /\ DataTypeInv /\ holds \in Beliefs
      /\ root \in Root
  BY DEF DataSound, DataTypeInv, DataTransferInv, DataTypeOK, Beliefs, TypeInv, TypeOK
<1>2. /\ call.pc = "xfer" /\ call'.pc = "idle"
      /\ status' = status /\ fat' = fat /\ disk' = disk /\ blocks' = blocks /\ gone' = gone
      /\ holds' = HoldsWritten
      /\ root' = root \/ root' = [root EXCEPT ![WriteFd.file].file_size = @ + io.done]
  BY DEF FinishWrite, FinishShort, Idle
<1>3. status = "mounted" /\ Intact = Live(root)
  BY <1>1, <1>2, MountedVolume
<1>4. \A i \in Files : /\ root'[i].filename = root[i].filename
                       /\ root'[i].first_index = root[i].first_index
  BY <1>1, <1>2 DEF Root, File
<1>5. Live(root') = Live(root) /\ Intact' = Live(root) /\ Live(root) \subseteq Files
  BY <1>2, <1>4 DEF Intact, Live
<1>6. Parked'
  BY <1>2, <1>3 DEF Parked
<1>7. ASSUME NEW i \in Live(disk'.root) \ gone'
      PROVE  FileKept(i)'
  <2>1. FileKept(i) /\ i \in Live(root)
    BY <1>2, <1>7, ContentsParts DEF FileKept
  <2>2. root'[i].first_index = root[i].first_index /\ i \in Live(root')
    BY <1>4, <1>5, <2>1
  <2> QED
    BY <1>2, <2>1, <2>2 DEF FileKept, Live
<1>8. ASSUME NEW i \in Intact'
      PROVE  FileHolds(i)'
  <2>1. i \in Intact /\ i \in Files
    BY <1>3, <1>5, <1>8
  <2>2. FileHolds(i) /\ root'[i].first_index = root[i].first_index
    BY <1>4, <2>1, ContentsParts
  <2>3. Landed(i)' = Landed(i) /\ Landed(i) = holds'[i]
    BY <1>2 DEF Landed
  <2>4. ASSUME NEW p \in Positions,
               find_data_block(fat, root[i].first_index, p \div BlockSize) = FAT_EOC
        PROVE  holds'[i][p] = Bytes
    <3>1. holds[i][p] = Bytes
      BY <2>2, <2>4 DEF FileHolds, Unknown
    <3>2. i = WriteFd.file => ~(p \in WriteFd.offset .. WriteFd.offset + io.done - 1)
      BY <1>1, <1>2, <2>4, WrittenIsCovered DEF WriteFile
    <3>3. Landed(i)[p] = holds[i][p]
      BY <1>1, <1>2, <2>1, <3>2, LandedAt
    <3> QED
      BY <2>3, <3>1, <3>3
  <2> QED
    BY <1>2, <2>2, <2>3, <2>4 DEF FileHolds, Unknown
<1> QED
  BY <1>2, <1>6, <1>7, <1>8, ContentsPartsNext

(* What has landed may be there.                                           *)
LEMMA LandedExpected ==
  ASSUME DataTypeInv, NEW i \in Files, NEW p \in Positions
  PROVE  Landed(i)[p] \subseteq Expected(i)[p]
<1>1. TypeInv /\ TransferInv /\ holds \in Beliefs
  BY DEF DataTypeInv, DataTransferInv, DataTypeOK, Beliefs
<1>2. holds[i][p] \subseteq Expected(i)[p]
  BY <1>1, ExpectedTyped
<1>3. CASE Landed(i)[p] = holds[i][p]
  BY <1>2, <1>3
<1>4. CASE Landed(i)[p] # holds[i][p]
  <2>1. call.pc = "xfer"
    BY <1>4 DEF Landed
  <2>2. /\ i = WriteFd.file /\ p \in WriteFd.offset .. WriteFd.offset + io.done - 1
        /\ Landed(i)[p] = {io.buf[p - WriteFd.offset]}
    BY <1>4, <2>1, LandedAt
  <2>3. /\ WriteFd.offset \in Nat /\ call.count \in Nat /\ call.count > 0
        /\ io.done \in 0 .. call.count
    BY <1>1, <2>1, Transferring
  <2>4. p \in Nat
    BY PositionsAreNumbers
  <2>5. io # NoTransfer
    BY <2>2, <2>3, <2>4, NoTransferData
  <2>6. io.buf # << >>
    <3>1. io.buf \in [0 .. call.count - 1 -> Bytes]
      BY <1>1, <2>5 DEF TransferInv
    <3>2. 0 \in DOMAIN io.buf
      BY <2>3, <3>1
    <3>3. DOMAIN << >> = 1 .. 0
      OBVIOUS
    <3> QED
      BY <3>2, <3>3
  <2>7. p \in WriteFd.offset .. WriteFd.offset + call.count - 1
    BY <2>2, <2>3, <2>4
  <2>8. Expected(i) = [q \in Positions |->
          holds[i][q] \union
            (IF q \in WriteFd.offset .. WriteFd.offset + call.count - 1
             THEN {io.buf[q - WriteFd.offset]} ELSE {})]
    BY <2>1, <2>2, <2>6 DEF Expected
  <2> QED
    BY <2>2, <2>7, <2>8
<1> QED
  BY <1>3, <1>4

(* The process dies.  What is on the disk is as far as each file was on    *)
(* the disk before; the deleted files are back with unknown contents.      *)
LEMMA KillContents ==
  ASSUME DataSound, ContentsInv, call.pc # "saving", KillData
  PROVE  ContentsInv'
<1>1. /\ DataTypeInv /\ blocks \in [Blocks -> Block] /\ disk \in [fat: Fat, root: Root]
  BY DEF DataSound, DataTypeInv, DataTypeOK, DataTransferInv, TypeInv, TypeOK
<1>2. /\ status' = "unmounted" /\ fat' = disk.fat /\ root' = disk.root /\ disk' = disk
      /\ call'.pc = "idle" /\ gone' = {} /\ blocks' = blocks
      /\ holds' = [i \in Files |->
           IF i \in gone THEN Unwritten
           ELSE [p \in Positions |->
                   IF p \in Covered(disk.fat, disk.root[i].first_index)
                   THEN Expected(i)[p] ELSE Bytes]]
  BY DEF KillData, Kill, Idle
<1>3. VolumeSound(disk.fat, disk.root, Live(disk.root))
  BY DEF DataSound, VolumeSpecInv, VolumeInv, VolumesSound
<1>4. Parked'
  BY <1>2 DEF Parked
<1>5. \A i \in Live(disk'.root) \ gone' : FileKept(i)'
  BY <1>2 DEF FileKept, Live
<1>6. Intact' = Live(disk.root) /\ Live(disk.root) \subseteq Files
  BY <1>2 DEF Intact, Live
<1>7. ASSUME NEW i \in Live(disk.root), NEW n \in 0 .. NumBlocks - 1,
             find_data_block(disk.fat, disk.root[i].first_index, n) # FAT_EOC,
             NEW k \in 0 .. BlockSize - 1
      PROVE  blocks[find_data_block(disk.fat, disk.root[i].first_index, n)][k]
               \in holds'[i][n * BlockSize + k]
  <2> DEFINE b == find_data_block(disk.fat, disk.root[i].first_index, n)
             p == n * BlockSize + k
  <2>1. /\ p \in Positions /\ p \div BlockSize = n
    BY PositionOf
  <2>2. n \in Nat
    BY NumBlocksAssumption
  <2>3. b \in Blocks
    BY <1>1, <1>3, <1>7, <2>2, ChainBlock DEF DataBlocks
  <2>4. p \in Covered(disk.fat, disk.root[i].first_index)
    BY <1>7, <2>1 DEF Covered
  <2>5. i \in Files
    BY <1>6
  <2>6. b = find_data_block(disk.fat, disk.root[i].first_index, n) /\ p = n * BlockSize + k
    OBVIOUS
  <2>7. SUFFICES blocks[b][k] \in holds'[i][p]
    OBVIOUS
  <2> HIDE DEF b, p
  <2>8. CASE i \in gone
    <3>1. holds'[i][p] = Bytes
      BY <1>2, <2>1, <2>5, <2>8 DEF Unwritten
    <3> QED
      BY <1>1, <2>3, <3>1 DEF Block
  <2>9. CASE i \notin gone
    <3>1. FileKept(i) /\ i \in Live(root)
      BY <2>9, ContentsParts DEF FileKept
    <3>2. i \in Intact
      BY <2>9, <3>1, IntactFiles, ContentsParts
    <3>3. find_data_block(fat, root[i].first_index, n) = b /\ b # FAT_EOC
      BY <1>7, <2>6, <3>1 DEF FileKept
    <3>4. blocks[b][k] \in Landed(i)[p]
      BY <2>6, <3>2, <3>3, ContentsParts DEF FileHolds, Holds
    <3>5. Landed(i)[p] \subseteq Expected(i)[p]
      BY <1>1, <2>1, <2>5, LandedExpected
    <3>6. holds'[i][p] = Expected(i)[p]
      BY <1>2, <2>1, <2>4, <2>5, <2>9
    <3> QED
      BY <3>4, <3>5, <3>6
  <2> QED
    BY <2>8, <2>9
<1>8. ASSUME NEW i \in Live(disk.root), NEW p \in Positions,
             find_data_block(disk.fat, disk.root[i].first_index, p \div BlockSize) = FAT_EOC
      PROVE  holds'[i][p] = Bytes
  <2>1. p \notin Covered(disk.fat, disk.root[i].first_index)
    BY <1>8 DEF Covered
  <2> QED
    BY <1>2, <1>6, <2>1 DEF Unwritten
<1>9. \A i \in Intact' : FileHolds(i)'
  BY <1>2, <1>6, <1>7, <1>8 DEF FileHolds, Holds, Unknown, Landed
<1> QED
  BY <1>2, <1>4, <1>5, <1>9, ContentsPartsNext

LEMMA ContentsStep ==
  ASSUME DataSound, ContentsInv, DataNextOrStutter
  PROVE  ContentsInv'
<1>1. DataTypeInv /\ TypeInv /\ TransferInv
  BY DEF DataSound, DataTypeInv, DataTransferInv
<1>2. DataTypeInv' /\ [Next]_vars
  BY <1>1, DataTypeStep, DataImplements
<1>3. VolumeSpecInv'
  <2>1. [Next \/ Kill]_vars
    BY <1>2
  <2> QED
    BY <1>2, <2>1, TypeStep, DescriptorStep, VolumeStep DEF DataSound, VolumeSpecInv
<1>4. CASE MountData
  <2>1. CASE MountOk \/ MountFails
    <3>1. fat = disk.fat /\ root = disk.root
      BY <2>1, ContentsParts DEF MountOk, MountFails, Parked
    <3>2. /\ fat' = fat /\ root' = root /\ disk' = disk
          /\ call = Idle /\ call' = Idle /\ status # "mounted"
      BY <2>1, <3>1 DEF MountOk, MountFails
    <3> QED
      BY <1>4, <3>2, SameTablesQuiet DEF MountData, Idle
  <2>2. CASE Umount
    BY <1>4, <2>2, UmountContents DEF MountData
  <2> QED
    BY <1>4, <2>1, <2>2 DEF MountData
<1>5. CASE UmountData
  BY <1>5, UmountRootContents
<1>6. ASSUME NEW name \in Names, CreateData(name) \/ DeleteData(name)
      PROVE  ContentsInv'
  BY <1>2, <1>3, <1>6, CreateContents, DeleteContents
<1>7. ASSUME NEW name \in Names, Open(name) /\ UNCHANGED dataVars
      PROVE  ContentsInv'
  <2>1. /\ fat' = fat /\ root' = root /\ disk' = disk /\ status' = status
        /\ call = Idle /\ call' = call
    BY <1>7 DEF Open, Ready
  <2> QED
    BY <1>7, <2>1, SameTablesQuiet DEF Idle
<1>8. ASSUME NEW fd \in Fds,
             \/ Close(fd) /\ UNCHANGED dataVars
             \/ \E offset \in 0 .. MaxSize : Lseek(fd, offset) /\ UNCHANGED dataVars
             \/ \E count \in 0 .. MaxCount : ReadData(fd, count)
      PROVE  ContentsInv'
  <2>1. /\ fat' = fat /\ root' = root /\ disk' = disk /\ status' = status
        /\ call = Idle /\ call' = call /\ UNCHANGED dataVars
    BY <1>8 DEF Close, Lseek, ReadData, Ready, FlaggedMounted
  <2> QED
    BY <2>1, SameTablesQuiet DEF Idle
<1>9. ASSUME NEW fd \in Fds, NEW count \in 1 .. MaxCount,
             (Write(fd, count) \/ WriteFirstBlock(fd, count)) /\ UNCHANGED dataVars
      PROVE  ContentsInv'
  <2>1. CASE Write(fd, count)
    <3>1. /\ fat' = fat /\ root' = root /\ disk' = disk /\ status' = status
          /\ call = Idle /\ call'.pc = "alloc"
      BY <2>1 DEF Write, Writable, Ready, InCall
    <3> QED
      BY <1>9, <3>1, SameTablesQuiet DEF Idle
  <2>2. CASE WriteFirstBlock(fd, count)
    BY <1>2, <1>3, <1>9, <2>2, AllocateContents
  <2> QED
    BY <1>9, <2>1, <2>2
<1>10. ASSUME NEW fd \in Fds, NEW count \in 1 .. MaxCount, WriteNothing(fd, count)
       PROVE  ContentsInv'
  BY <1>2, <1>10, BeginContents
<1>11. CASE (FreeBlock \/ FreeLast) /\ UNCHANGED dataVars
  BY <1>2, <1>3, <1>11, FreeContents
<1>12. CASE Walk /\ UNCHANGED dataVars
  <2>1. call \in Calls
    BY <1>1 DEF TypeInv, TypeOK
  <2>2. /\ fat' = fat /\ root' = root /\ disk' = disk /\ status' = status
        /\ call.pc = "alloc" /\ call'.pc = "alloc"
    BY <1>12, <2>1 DEF Walk, Calls
  <2> QED
    BY <1>12, <2>2, SameTablesQuiet
<1>13. CASE Extend /\ UNCHANGED dataVars
  BY <1>2, <1>3, <1>13, AllocateContents
<1>14. CASE BeginTransfer
  BY <1>2, <1>14, BeginContents
<1>15. CASE TransferPiece
  BY <1>15, PieceContents
<1>16. CASE FinishWrite \/ FinishShort
  BY <1>16, FinishContents
<1>17. CASE call.pc # "saving" /\ KillData
  BY <1>17, KillContents
<1>18. CASE UNCHANGED <<vars, dataVars>>
  BY <1>18, ContentsStutter
<1> QED
  BY <1>4, <1>5, <1>6, <1>7, <1>8, <1>9, <1>10, <1>11, <1>12, <1>13, <1>14, <1>15, <1>16,
     <1>17, <1>18
  DEF DataNextOrStutter, DataNext

LEMMA ContentsInit == DataInit => ContentsInv
<1> SUFFICES ASSUME DataInit
             PROVE  ContentsInv
  OBVIOUS
<1>1. /\ Init /\ fat = disk.fat /\ root = disk.root /\ gone = {} /\ call.pc = "idle"
      /\ status = "unmounted"
  BY DEF DataInit, Init, Idle
<1>2. Live(root) = {} /\ Live(disk.root) = {} /\ Intact = {}
  <2>1. Live(root) = {}
    BY <1>1 DEF Init, Live, FormattedRoot
  <2> QED
    BY <1>1, <2>1 DEF Intact
<1> QED
  BY <1>1, <1>2, ContentsParts DEF Parked

ContentsSpecInv == DataSound /\ ContentsInv

LEMMA ContentsInvariant == DataSpec => []ContentsSpecInv
<1>1. DataSpec => [](VolumeSpecInv /\ WriteInv)
  <2>1. DataSpec => Spec
    BY DataImplementsFileSystem DEF ImplementsFileSystem
  <2>2. WriteSpecInv <=> VolumeSpecInv /\ WriteInv
    BY DEF WriteSpecInv
  <2> QED
    BY <2>1, <2>2, WriteInvariant, PTL
<1>2. VolumeSpecInv /\ WriteInv /\ DataTypeInv <=> DataSound
  BY DEF DataSound
<1>3. DataSound /\ ContentsInv /\ [DataNext]_<<vars, dataVars>> => ContentsInv'
  BY ContentsStep DEF DataNextOrStutter
<1>4. DataSpec => []DataSound
  BY <1>1, <1>2, DataTypeInvariant, PTL
<1>5. DataInit => ContentsInv
  BY ContentsInit
<1> QED
  BY <1>3, <1>4, <1>5, PTL DEF DataSpec, ContentsSpecInv

(* What has landed is there: a byte of a file in memory.                   *)
LEMMA HoldsExpected ==
  ASSUME ContentsSpecInv, NEW i \in Intact, NEW n \in 0 .. NumBlocks - 1,
         NEW k \in 0 .. BlockSize - 1,
         find_data_block(fat, root[i].first_index, n) # FAT_EOC
  PROVE  blocks[find_data_block(fat, root[i].first_index, n)][k]
           \in Expected(i)[n * BlockSize + k]
<1>1. DataTypeInv /\ i \in Files
  BY DEF ContentsSpecInv, DataSound, Intact, Live
<1>2. blocks[find_data_block(fat, root[i].first_index, n)][k] \in Landed(i)[n * BlockSize + k]
  BY ContentsParts DEF ContentsSpecInv, FileHolds, Holds
<1>3. Landed(i)[n * BlockSize + k] \subseteq Expected(i)[n * BlockSize + k]
  BY <1>1, PositionOf, LandedExpected
<1> QED
  BY <1>2, <1>3

(***************************************************************************)
(* What fs_write returned stays in the file: whatever is written, created  *)
(* or deleted since, in this session or in a later one, each position of a *)
(* file holds the last byte written to it, or being written.  Processes    *)
(* may die at any moment but one: DataSpec leaves out a death between the  *)
(* two writes of fs_umount, after which a deleted file can be back and     *)
(* share blocks with another.                                              *)
(***************************************************************************)
THEOREM ContentsCorrect == DataSpec => []ContentsKept
<1>1. ContentsSpecInv => ContentsKept
  BY HoldsExpected DEF ContentsKept, HasContents
<1> QED
  BY <1>1, ContentsInvariant, PTL

(***************************************************************************)
(* The same, read through the tables on the disk, which a process that     *)
(* dies leaves behind: for every file not deleted since the last fs_umount,*)
(* also while fs_umount is between its two writes.                         *)
(***************************************************************************)
THEOREM CrashContentsCorrect == DataSpec => []CrashKeepsContents
<1>1. ASSUME ContentsSpecInv, NEW i \in Live(disk.root) \ gone, NEW n \in 0 .. NumBlocks - 1,
             find_data_block(disk.fat, disk.root[i].first_index, n) # FAT_EOC,
             NEW k \in 0 .. BlockSize - 1
      PROVE  blocks[find_data_block(disk.fat, disk.root[i].first_index, n)][k]
               \in Expected(i)[n * BlockSize + k]
  <2>1. FileKept(i) /\ i \in Live(root)
    BY <1>1, ContentsParts DEF ContentsSpecInv, FileKept
  <2>2. i \in Intact
    BY <1>1, <2>1, IntactFiles, ContentsParts DEF ContentsSpecInv
  <2>3. find_data_block(fat, root[i].first_index, n) =
          find_data_block(disk.fat, disk.root[i].first_index, n)
    BY <1>1, <2>1 DEF FileKept
  <2> QED
    BY <1>1, <2>2, <2>3, HoldsExpected
<1>2. ContentsSpecInv => CrashKeepsContents
  BY <1>1 DEF CrashKeepsContents, HasContents
<1> QED
  BY <1>2, ContentsInvariant, PTL

-----------------------------------------------------------------------------
(***************************************************************************)
(* What fs_read returns.                                                   *)
(***************************************************************************)

(* Where a read ends, counted from its first byte.                         *)
ReadEnd(fd, count) ==
  LET pieces == Pieces(open_files[fd].offset, count)
      n      == ReadablePieces(fd, pieces)
  IN  IF n = 0 THEN 0 ELSE pieces[n].from + pieces[n].size

(* A byte is read exactly when its block is in the chain.                  *)
LEMMA ReadByte ==
  ASSUME NEW fd \in Fds, open_files[fd].offset \in Nat,
         NEW count \in Nat, count > 0, NEW j \in 0 .. count - 1
  PROVE  LET pieces == Pieces(open_files[fd].offset, count)
             x == (open_files[fd].offset + j) \div BlockSize
         IN
         /\ find_data_block(fat, root[open_files[fd].file].first_index, x) # FAT_EOC
              <=> j < ReadEnd(fd, count)
         /\ j < ReadEnd(fd, count) =>
              \E i \in 1 .. ReadablePieces(fd, pieces) :
                j \in pieces[i].from .. pieces[i].from + pieces[i].size - 1
<1> DEFINE offset == open_files[fd].offset
           pieces == Pieces(offset, count)
           n      == ReadablePieces(fd, pieces)
           q      == offset \div BlockSize
           x      == (offset + j) \div BlockSize
           k      == (offset + j) % BlockSize
           at(y)  == find_data_block(fat, root[open_files[fd].file].first_index, y)
<1>1. Len(pieces) \in Nat \ {0}
  BY PieceCount
<1>2. /\ n \in 0 .. Len(pieces)
      /\ \A i \in 1 .. n : at(pieces[i].block) # FAT_EOC
      /\ n < Len(pieces) => at(pieces[n + 1].block) = FAT_EOC
  BY <1>1, Readable DEF PieceBlock
<1>3. offset + j \in Nat /\ q \in Nat /\ x \in Nat /\ k \in 0 .. BlockSize - 1
      /\ offset + j = x * BlockSize + k
  <2>1. offset + j \in Nat
    OBVIOUS
  <2>2. x \in Nat /\ k \in 0 .. BlockSize - 1 /\ offset + j = BlockSize * x + k
    BY <2>1, DivMod
  <2>3. q \in Nat
    BY DivMod
  <2> HIDE DEF x, k, q
  <2>4. BlockSize * x = x * BlockSize
    BY <2>2, BlockSizeAssumption
  <2> QED
    BY <2>1, <2>2, <2>3, <2>4
<1>4. PICK m \in 1 .. Len(pieces) : /\ m = x - q + 1
                                    /\ j \in pieces[m].from .. pieces[m].from + pieces[m].size - 1
  BY PieceOfByte
<1>5. ASSUME NEW i \in 1 .. Len(pieces)
      PROVE  /\ pieces[i].block \in Nat /\ pieces[i].from \in Nat /\ pieces[i].size \in Nat
             /\ pieces[i].block = q + i - 1
             /\ x < pieces[i].block => offset + j < offset + pieces[i].from
             /\ x > pieces[i].block => offset + j >= offset + pieces[i].from + pieces[i].size
  <2>1. Placed(offset, count, i, x, k)
    BY <1>3, <1>5, PieceInFile
  <2> QED
    BY <1>3, <2>1 DEF Placed
<1>6. ReadEnd(fd, count) = IF n = 0 THEN 0 ELSE pieces[n].from + pieces[n].size
  BY DEF ReadEnd
<1>7. offset \in Nat
  OBVIOUS
<1> HIDE DEF offset, pieces, n, q, x, k, at
<1>8. at(x) = at(pieces[m].block) /\ x = pieces[m].block
  BY <1>3, <1>4, <1>5
<1>9. m =< n => at(x) # FAT_EOC /\ j < ReadEnd(fd, count)
  <2> SUFFICES ASSUME m =< n
               PROVE  at(x) # FAT_EOC /\ j < ReadEnd(fd, count)
    OBVIOUS
  <2>1. m \in 1 .. n /\ n \in 1 .. Len(pieces)
    BY <1>1, <1>2, <1>4
  <2>2. at(x) # FAT_EOC
    BY <1>2, <1>8, <2>1
  <2>3. j < pieces[n].from + pieces[n].size
    <3>1. CASE m = n
      BY <1>4, <1>5, <2>1, <3>1
    <3>2. CASE m # n
      <4>1. x < pieces[n].block
        BY <1>3, <1>4, <1>5, <2>1, <3>2
      <4> QED
        BY <1>5, <1>7, <2>1, <4>1
    <3> QED
      BY <3>1, <3>2
  <2> QED
    BY <1>6, <2>1, <2>2, <2>3
<1>10. m > n => at(x) = FAT_EOC /\ ~(j < ReadEnd(fd, count))
  <2> SUFFICES ASSUME m > n
               PROVE  at(x) = FAT_EOC /\ ~(j < ReadEnd(fd, count))
    OBVIOUS
  <2>1. n + 1 \in 1 .. Len(pieces) /\ n < Len(pieces)
    BY <1>1, <1>2, <1>4
  <2>2. at(pieces[n + 1].block) = FAT_EOC /\ pieces[n + 1].block = q + n
    BY <1>2, <1>3, <1>5, <2>1
  <2>3. at(x) = FAT_EOC
    <3>1. q + n =< x /\ q + n \in Nat
      BY <1>2, <1>3, <1>4, <2>1
    <3> QED
      BY <1>3, <2>2, <3>1, ChainEnded DEF at
  <2>4. CASE n = 0
    BY <1>6, <2>3, <2>4
  <2>5. CASE n # 0
    <3>1. n \in 1 .. Len(pieces)
      BY <1>2, <2>5
    <3>2. x > pieces[n].block
      BY <1>3, <1>4, <1>5, <3>1
    <3>3. j >= pieces[n].from + pieces[n].size
      BY <1>5, <1>7, <3>1, <3>2
    <3> QED
      BY <1>5, <1>6, <2>3, <2>5, <3>1, <3>3
  <2> QED
    BY <2>4, <2>5
<1>11. at(x) # FAT_EOC <=> j < ReadEnd(fd, count)
  BY <1>2, <1>4, <1>9, <1>10
<1>12. j < ReadEnd(fd, count) =>
         \E i \in 1 .. n : j \in pieces[i].from .. pieces[i].from + pieces[i].size - 1
  <2>1. j < ReadEnd(fd, count) => m \in 1 .. n
    BY <1>2, <1>4, <1>10
  <2> QED
    BY <1>4, <2>1
<1> QED
  BY <1>11, <1>12 DEF offset, pieces, n, x, at

LEMMA ReadEndRange ==
  ASSUME NEW fd \in Fds, open_files[fd].offset \in Nat, NEW count \in Nat, count > 0
  PROVE  ReadEnd(fd, count) \in 0 .. count
<1> DEFINE pieces == Pieces(open_files[fd].offset, count)
           n      == ReadablePieces(fd, pieces)
<1>1. Len(pieces) \in Nat \ {0} /\ n \in 0 .. Len(pieces)
  BY PieceCount, Readable
<1>2. CASE n = 0
  BY <1>2 DEF ReadEnd
<1>3. CASE n # 0
  <2>1. 0 \in 0 .. BlockSize - 1 /\ n \in 1 .. Len(pieces)
    BY <1>1, <1>3, BlockSizeAssumption
  <2>2. Placed(open_files[fd].offset, count, n, 0, 0)
    BY <2>1, PieceInFile
  <2>3. pieces[n].from \in Nat /\ pieces[n].size \in Nat /\ pieces[n].from + pieces[n].size =< count
    BY <2>2 DEF Placed
  <2>4. ReadEnd(fd, count) = pieces[n].from + pieces[n].size
    BY <1>3 DEF ReadEnd
  <2> HIDE DEF pieces, n
  <2> QED
    BY <2>3, <2>4
<1> QED
  BY <1>2, <1>3

(* A read gives as many bytes as the chain covers from the offset on.      *)
LEMMA ReadCount ==
  ASSUME VolumeSpecInv, Ready, NEW fd \in OpenFds, NEW count \in 1 .. MaxCount
  PROVE  /\ fs_read(fd, count).ret = ReadEnd(fd, count)
         /\ ReadEnd(fd, count) =
              Cardinality(Covered(fat, root[open_files[fd].file].first_index)
                            \intersect (open_files[fd].offset .. open_files[fd].offset + count - 1))
<1> DEFINE offset == open_files[fd].offset
           first  == root[open_files[fd].file].first_index
           end    == ReadEnd(fd, count)
<1>1. /\ fd \in Fds /\ IsOpen(fd) /\ count \in Nat /\ count > 0
      /\ open_files[fd] \in FileDescriptor /\ open_files[fd].file \in Live(root)
      /\ Intact = Live(root) /\ VolumeSound(fat, root, Intact) /\ fat \in Fat
  <2>1. fd \in Fds /\ IsOpen(fd) /\ count \in Nat /\ count > 0
    BY MaxCountAssumption DEF OpenFds
  <2> QED
    BY <2>1, OpenFile, MountedVolume
<1>2. offset \in Nat
  BY <1>1, OffsetModAssumption DEF FileDescriptor
<1>3. fs_read(fd, count).ret = end
  <2>1. Remainder(offset, count) \in 0 .. BlockSize - 1
    BY <1>1, <1>2, TransferNumbers
  <2>2. ~(Remainder(offset, count) < 0)
    BY <2>1, BlockSizeAssumption
  <2>3. fs_read(fd, count).ret =
          IF ReadablePieces(fd, Pieces(offset, count)) = Len(Pieces(offset, count))
               /\ Remainder(offset, count) < 0
          THEN -1 ELSE end
    BY DEF fs_read, ReadEnd
  <2> QED
    BY <2>2, <2>3
<1>4. end \in 0 .. count
  BY <1>1, <1>2, ReadEndRange
<1>5. Covered(fat, first) \intersect (offset .. offset + count - 1) = offset .. offset + end - 1
  <2>1. ASSUME NEW j \in 0 .. count - 1
        PROVE  offset + j \in Covered(fat, first) <=> j < end
    <3> DEFINE x == (offset + j) \div BlockSize
    <3>1. find_data_block(fat, first, x) # FAT_EOC <=> j < end
      BY <1>1, <1>2, ReadByte
    <3>2. offset + j \in Positions /\ find_data_block(fat, first, x) # FAT_EOC
            <=> offset + j \in Covered(fat, first)
      BY DEF Covered
    <3>3. find_data_block(fat, first, x) # FAT_EOC => offset + j \in Positions
      <4> SUFFICES ASSUME find_data_block(fat, first, x) # FAT_EOC
                   PROVE  offset + j \in Positions
        OBVIOUS
      <4>1. offset + j \in Nat
        BY <1>2
      <4>2. /\ x \in Nat /\ (offset + j) % BlockSize \in 0 .. BlockSize - 1
            /\ offset + j = BlockSize * x + ((offset + j) % BlockSize)
        BY <4>1, DivMod
      <4>3. x \in 0 .. NumBlocks - 1
        BY <1>1, <4>2, ChainPosition
      <4>4. x * BlockSize + ((offset + j) % BlockSize) \in Positions
        BY <4>2, <4>3, PositionOf
      <4> HIDE DEF x
      <4>5. BlockSize * x = x * BlockSize
        BY <4>2, BlockSizeAssumption
      <4> QED
        BY <4>2, <4>4, <4>5
    <3> QED
      BY <3>1, <3>2, <3>3
  <2>2. ASSUME NEW p \in Int, p \in offset .. offset + count - 1
        PROVE  p \in Covered(fat, first) <=> p \in offset .. offset + end - 1
    <3>1. PICK j \in 0 .. count - 1 : j = p - offset
      <4>1. p - offset \in 0 .. count - 1
        BY <1>1, <1>2, <2>2
      <4> QED
        BY <4>1
    <3> HIDE DEF offset, end, first
    <3>2. p = offset + j
      BY <1>2, <2>2, <3>1
    <3>3. p \in Covered(fat, first) <=> j < end
      BY <2>1, <3>2
    <3> QED
      BY <1>2, <1>4, <3>2, <3>3
  <2>3. offset .. offset + end - 1 \subseteq offset .. offset + count - 1
    <3> HIDE DEF offset, end
    <3> QED
      BY <1>1, <1>2, <1>4
  <2>4. \A p \in offset .. offset + count - 1 : p \in Int
    BY <1>2
  <2> HIDE DEF offset, end, first
  <2> QED
    BY <2>2, <2>3, <2>4
<1>6. Cardinality(offset .. offset + end - 1) = end
  <2> HIDE DEF offset, end
  <2>1. offset \in Int /\ offset + end - 1 \in Int
    BY <1>2, <1>4
  <2>2. Cardinality(offset .. offset + end - 1) =
          IF offset > offset + end - 1 THEN 0 ELSE (offset + end - 1) - offset + 1
    BY <2>1, FS_Interval
  <2> QED
    BY <1>2, <1>4, <2>2
<1> QED
  BY <1>3, <1>5, <1>6

(* Byte k of the buffer is byte offset + k of the file.                    *)
LEMMA ReadBuffer ==
  ASSUME ContentsSpecInv, Ready, NEW fd \in OpenFds, NEW count \in 1 .. MaxCount,
         NEW k \in 0 .. ReadEnd(fd, count) - 1
  PROVE  fs_read(fd, count).buf[k] \in holds[open_files[fd].file][open_files[fd].offset + k]
<1> DEFINE offset == open_files[fd].offset
           f      == open_files[fd].file
           first  == root[f].first_index
           pieces == Pieces(offset, count)
           n      == ReadablePieces(fd, pieces)
           InPiece(i) == k \in pieces[i].from .. pieces[i].from + pieces[i].size - 1
           c      == CHOOSE i \in 1 .. n : InPiece(i)
           x      == (offset + k) \div BlockSize
           y      == (offset + k) % BlockSize
<1>1. /\ VolumeSpecInv /\ fd \in Fds /\ IsOpen(fd) /\ count \in Nat /\ count > 0
  BY MaxCountAssumption DEF OpenFds, ContentsSpecInv, DataSound
<1>2. /\ open_files[fd] \in FileDescriptor /\ f \in Intact
      /\ VolumeSound(fat, root, Intact) /\ fat \in Fat
  BY <1>1, OpenFile, MountedVolume
<1>3. offset \in Nat /\ ReadEnd(fd, count) \in 0 .. count
  <2>1. offset \in Nat
    BY <1>2, OffsetModAssumption DEF FileDescriptor
  <2> QED
    BY <1>1, <2>1, ReadEndRange
<1>4. k \in 0 .. count - 1 /\ k < ReadEnd(fd, count) /\ k \in Nat
  <2>1. PICK end \in Nat : end = ReadEnd(fd, count) /\ end =< count
    BY <1>3
  <2> QED
    BY <1>1, <2>1
<1>5. /\ find_data_block(fat, first, x) # FAT_EOC
      /\ \E i \in 1 .. n : InPiece(i)
  BY <1>1, <1>3, <1>4, ReadByte
<1>6. c \in 1 .. n /\ InPiece(c)
  BY <1>5
<1>7. Len(pieces) \in Nat /\ n \in 0 .. Len(pieces)
  BY <1>1, <1>3, PieceCount, Readable
<1>8. x \in Nat /\ y \in 0 .. BlockSize - 1 /\ offset + k = x * BlockSize + y
  <2>1. offset + k \in Nat
    BY <1>3, <1>4
  <2>2. x \in Nat /\ y \in 0 .. BlockSize - 1 /\ offset + k = BlockSize * x + y
    BY <2>1, DivMod
  <2> HIDE DEF x, y
  <2>3. BlockSize * x = x * BlockSize
    BY <2>2, BlockSizeAssumption
  <2> QED
    BY <2>2, <2>3
<1>9. fs_read(fd, count).buf[k] = blocks[PieceBlock(fd, pieces[c])][pieces[c].at + k - pieces[c].from]
  BY DEF fs_read, ReadEnd
<1> HIDE DEF c, n
<1>10. c \in 1 .. Len(pieces)
  BY <1>6, <1>7
<1>11. /\ pieces[c].block \in Nat /\ pieces[c].at \in Nat
       /\ pieces[c].from \in Nat /\ pieces[c].size \in Nat
       /\ offset + k \in offset + pieces[c].from .. offset + pieces[c].from + pieces[c].size - 1
            <=> x = pieces[c].block /\ y \in pieces[c].at .. pieces[c].at + pieces[c].size - 1
       /\ x = pieces[c].block => (offset + k) - offset = pieces[c].from + y - pieces[c].at
  <2>1. Placed(offset, count, c, x, y)
    BY <1>1, <1>3, <1>8, <1>10, PieceInFile
  <2> QED
    BY <1>8, <2>1 DEF Placed
<1>12. x = pieces[c].block /\ y = pieces[c].at + k - pieces[c].from
  <2> HIDE DEF offset, pieces, x, y
  <2>1. offset + k \in offset + pieces[c].from .. offset + pieces[c].from + pieces[c].size - 1
    BY <1>3, <1>4, <1>6, <1>11
  <2>2. x = pieces[c].block
    BY <1>11, <2>1
  <2> QED
    BY <1>3, <1>4, <1>8, <1>11, <2>2
<1>13. blocks[find_data_block(fat, first, x)][y] \in holds[f][x * BlockSize + y]
  <2>1. x \in 0 .. NumBlocks - 1
    BY <1>2, <1>5, <1>8, ChainPosition
  <2>2. FileHolds(f)
    BY <1>2, ContentsParts DEF ContentsSpecInv
  <2>3. Landed(f) = holds[f]
    BY DEF Ready, Idle, Landed
  <2> QED
    BY <1>5, <1>8, <2>1, <2>2, <2>3 DEF FileHolds, Holds
<1> QED
  BY <1>8, <1>9, <1>12, <1>13 DEF PieceBlock

(***************************************************************************)
(* fs_read returns what the file holds from the offset on, in order, and   *)
(* gives fewer bytes than asked only where the chain ends.                 *)
(***************************************************************************)
THEOREM ReadsCorrect == DataSpec => []ReadsReturnContents
<1>1. ASSUME ContentsSpecInv, Ready, NEW fd \in OpenFds, NEW count \in 1 .. MaxCount
      PROVE  /\ fs_read(fd, count).ret =
                  Cardinality(Covered(fat, root[open_files[fd].file].first_index)
                    \intersect (open_files[fd].offset .. open_files[fd].offset + count - 1))
             /\ \A k \in 0 .. fs_read(fd, count).ret - 1 :
                  fs_read(fd, count).buf[k] \in holds[open_files[fd].file][open_files[fd].offset + k]
  <2>1. VolumeSpecInv
    BY <1>1 DEF ContentsSpecInv, DataSound
  <2>2. fs_read(fd, count).ret = ReadEnd(fd, count)
    BY <1>1, <2>1, ReadCount
  <2> QED
    BY <1>1, <2>1, <2>2, ReadCount, ReadBuffer
<1>2. ContentsSpecInv => ReadsReturnContents
  BY <1>1 DEF ReadsReturnContents
<1> QED
  BY <1>2, ContentsInvariant, PTL
=============================================================================
