------------------------------- MODULE FileData -------------------------------
(***************************************************************************)
(* FileSystem with the contents of the data blocks.  The loops of fs_read  *)
(* and fs_write transfer one piece (IoSegments) per step; everything else  *)
(* a call does is the action of FileSystem of the same name, which leaves  *)
(* the data area alone.                                                    *)
(*                                                                         *)
(* Data goes to the disk at once, the tables that say whose it is only in  *)
(* fs_umount.  Two observer variables say what a caller may therefore rely *)
(* on: holds, from what calls returned, and gone, the files a crash would  *)
(* bring back.                                                             *)
(***************************************************************************)
EXTENDS FileSystem

CONSTANTS
  Bytes,  (* The values of a byte.                                         *)
  Zero    (* The byte fs_make.x fills the data blocks with.                *)

ASSUME BytesAssumption == Zero \in Bytes

VARIABLES
  blocks,  (* The data blocks on the disk, from data_start_index on.       *)
  io,      (* The running transfer: the caller's buffer, how many pieces
              of it are on the disk and bytes_written.                     *)
  holds,   (* Entry of root |-> position |-> the bytes that may be found
              there: any if none was written yet, else the last one.       *)
  gone     (* The entries whose file has been deleted since the last
              fs_umount (on the disk it still exists).                     *)

dataVars == <<blocks, io, holds, gone>>

Block     == [0 .. BlockSize - 1 -> Bytes]
Positions == 0 .. NumBlocks * BlockSize - 1
Unwritten == [p \in Positions |-> Bytes]
NoTransfer == [buf |-> << >>, moved |-> 0, done |-> 0]

(* The positions of a file that its chain covers, and what is there.       *)
Covered(f, first) ==
  {p \in Positions : find_data_block(f, first, p \div BlockSize) # FAT_EOC}

HasContents(f, first, contents) ==
  \A n \in 0 .. NumBlocks - 1 :
    LET b == find_data_block(f, first, n) IN
    b # FAT_EOC => \A k \in 0 .. BlockSize - 1 : blocks[b][k] \in contents[n * BlockSize + k]

DataInit ==
  /\ Init
  /\ blocks = [b \in Blocks |-> [k \in 0 .. BlockSize - 1 |-> Zero]]
  /\ io = NoTransfer
  /\ holds = [i \in Files |-> Unwritten]
  /\ gone = {}

-----------------------------------------------------------------------------
(* The write in progress.                                                  *)
WriteFd     == open_files[call.arg]
WriteFile   == root[WriteFd.file]
WritePieces == Pieces(WriteFd.offset, call.count)

(* The transfer begins when allocation is over; the buffer is the caller's *)
(* choice.  Without any block nothing of it will be looked at.             *)
BeginTransfer ==
  /\ Allocated
  /\ \E buf \in [0 .. call.count - 1 -> Bytes] : io' = [NoTransfer EXCEPT !.buf = buf]
  /\ UNCHANGED <<blocks, holds, gone>>

(* Overwrites bytes at .. at + size - 1 of a block; the partial blocks go  *)
(* through a bounce buffer that was filled with the block first.  The      *)
(* faulty variant starts from an empty one.                                *)
PatchedUnread(old, piece, buf) ==
  [k \in 0 .. BlockSize - 1 |->
     IF k \in piece.at .. piece.at + piece.size - 1
     THEN buf[piece.from + k - piece.at] ELSE Zero]

Patched(old, piece, buf) ==
  [k \in 0 .. BlockSize - 1 |->
     IF k \in piece.at .. piece.at + piece.size - 1
     THEN buf[piece.from + k - piece.at] ELSE old[k]]

(* One piece.  The faulty variant counts a whole block for each.           *)
TransferPieceBlock ==
  LET piece == WritePieces[io.moved + 1]
      b     == find_data_block(fat, WriteFile.first_index, piece.block)
  IN
  /\ call.pc = "xfer"
  /\ io.moved < Len(WritePieces)
  /\ b # FAT_EOC
  /\ blocks' = [blocks EXCEPT ![b] = Patched(@, piece, io.buf)]
  /\ io' = [io EXCEPT !.moved = @ + 1, !.done = @ + BlockSize]
  /\ UNCHANGED <<vars, holds, gone>>

TransferPiece ==
  LET piece == WritePieces[io.moved + 1]
      b     == find_data_block(fat, WriteFile.first_index, piece.block)
  IN
  /\ call.pc = "xfer"
  /\ io.moved < Len(WritePieces)
  /\ b # FAT_EOC
  /\ blocks' = [blocks EXCEPT ![b] = Patched(@, piece, io.buf)]
  /\ io' = [io EXCEPT !.moved = @ + 1, !.done = @ + piece.size]
  /\ UNCHANGED <<vars, holds, gone>>

(* What a caller may rely on once fs_write has returned bytes_written,     *)
(* whether that is all it asked for or not.                                *)
HoldsWritten ==
  [holds EXCEPT ![WriteFd.file] = [p \in Positions |->
     IF p \in WriteFd.offset .. WriteFd.offset + io.done - 1
     THEN {io.buf[p - WriteFd.offset]} ELSE @[p]]]

(* Every piece was moved: the offset and the size grow by bytes_written.   *)
(* The faulty variant forgets the last piece, as a count of full blocks    *)
(* that is one too low would.                                              *)
FinishWriteEarly ==
  /\ call.pc = "xfer"
  /\ io.moved + 1 = Len(WritePieces)
  /\ open_files' = [open_files EXCEPT ![call.arg].offset = ToOffset(@ + io.done)]
  /\ root' = [root EXCEPT ![WriteFd.file].file_size = @ + io.done]
  /\ call' = Idle
  /\ holds' = HoldsWritten
  /\ io' = NoTransfer
  /\ UNCHANGED <<status, fat, num_open_files, disk, blocks, gone>>

FinishWrite ==
  /\ call.pc = "xfer"
  /\ io.moved = Len(WritePieces)
  /\ open_files' = [open_files EXCEPT ![call.arg].offset = ToOffset(@ + io.done)]
  /\ root' = [root EXCEPT ![WriteFd.file].file_size = @ + io.done]
  /\ call' = Idle
  /\ holds' = HoldsWritten
  /\ io' = NoTransfer
  /\ UNCHANGED <<status, fat, num_open_files, disk, blocks, gone>>

(* A piece has no block: fs_write returns bytes_written and updates        *)
(* neither, although bytes may have landed behind the end of the file.     *)
FinishShort ==
  /\ call.pc = "xfer"
  /\ io.moved < Len(WritePieces)
  /\ find_data_block(fat, WriteFile.first_index, WritePieces[io.moved + 1].block) = FAT_EOC
  /\ call' = Idle
  /\ holds' = HoldsWritten
  /\ io' = NoTransfer
  /\ UNCHANGED <<status, fat, root, open_files, num_open_files, disk, blocks, gone>>

(* WriteNoBlock goes straight to a transfer that finds no block.           *)
WriteNothing(fd, count) ==
  /\ WriteNoBlock(fd, count)
  /\ UNCHANGED dataVars

-----------------------------------------------------------------------------
(***************************************************************************)
(* fs_read.  The pieces are read in order until one has no block.  Only    *)
(* then is the remainder checked, which is negative for a count of 0 at an *)
(* offset inside a block.  The size of the file plays no part.  The faulty *)
(* variant of the look-up forgets the blocks the offset skips.             *)
(***************************************************************************)
PieceBlockFromStart(fd, piece) ==
  find_data_block(fat, root[open_files[fd].file].first_index,
                  piece.block - open_files[fd].offset \div BlockSize)

PieceBlock(fd, piece) ==
  find_data_block(fat, root[open_files[fd].file].first_index, piece.block)

(* How many pieces of the read have a block, from the first on.            *)
ReadablePieces(fd, pieces) ==
  CHOOSE n \in 0 .. Len(pieces) :
    /\ \A k \in 1 .. n : PieceBlock(fd, pieces[k]) # FAT_EOC
    /\ n < Len(pieces) => PieceBlock(fd, pieces[n + 1]) = FAT_EOC

fs_read(fd, count) ==
  LET offset == open_files[fd].offset
      pieces == Pieces(offset, count)
      n      == ReadablePieces(fd, pieces)
      bytes_read == IF n = 0 THEN 0 ELSE pieces[n].from + pieces[n].size
      buf    == [k \in 0 .. bytes_read - 1 |->
                   LET piece == pieces[CHOOSE i \in 1 .. n :
                         k \in pieces[i].from .. pieces[i].from + pieces[i].size - 1]
                   IN  blocks[PieceBlock(fd, piece)][piece.at + k - piece.from]]
      whole  == n = Len(pieces)
  IN  [ret |-> IF whole /\ Remainder(offset, count) < 0 THEN -1 ELSE bytes_read,
       buf |-> buf,
       advances |-> whole /\ Remainder(offset, count) >= 0]

(* The offset moves only when every piece was read: the early returns come *)
(* before the statement that advances it.                                  *)
ReadData(fd, count) ==
  /\ Ready
  /\ IsOpen(fd)
  /\ fs_read(fd, count).advances
  /\ open_files' = [open_files EXCEPT ![fd].offset = ToOffset(@ + fs_read(fd, count).ret)]
  /\ UNCHANGED <<status, fat, root, num_open_files, disk, call, dataVars>>

-----------------------------------------------------------------------------
(* The metadata calls, and what they tell the observer.                    *)
MountData == (MountOk \/ MountFails \/ Umount) /\ UNCHANGED dataVars

UmountData == UmountRoot /\ gone' = {} /\ UNCHANGED <<blocks, io, holds>>

CreateData(name) ==
  /\ Create(name)
  /\ holds' = [holds EXCEPT ![Least(Named(NoName))] = Unwritten]
  /\ UNCHANGED <<blocks, io, gone>>

DeleteData(name) ==
  /\ DeleteEmpty(name) \/ Delete(name)
  /\ gone' = gone \union Named(name)
  /\ holds' = [i \in Files |-> IF i \in Named(name) THEN Unwritten ELSE holds[i]]
  /\ UNCHANGED <<blocks, io>>

(* A byte that is being written may already be there.                      *)
Expected(i) ==
  IF call.pc = "xfer" /\ io.buf # << >> /\ i = WriteFd.file
  THEN [p \in Positions |->
          holds[i][p] \union
            (IF p \in WriteFd.offset .. WriteFd.offset + call.count - 1
             THEN {io.buf[p - WriteFd.offset]} ELSE {})]
  ELSE holds[i]

(* After a crash the deleted files are back, with unknown contents, and    *)
(* what was appended is gone.                                              *)
KillData ==
  /\ Kill
  /\ holds' = [i \in Files |->
       IF i \in gone THEN Unwritten
       ELSE [p \in Positions |->
               IF p \in Covered(disk.fat, disk.root[i].first_index)
               THEN Expected(i)[p] ELSE Bytes]]
  /\ io' = NoTransfer
  /\ gone' = {}
  /\ UNCHANGED blocks

DataNext ==
  \/ MountData \/ UmountData
  \/ \E name \in Names :
       \/ CreateData(name) \/ DeleteData(name)
       \/ Open(name) /\ UNCHANGED dataVars
  \/ \E fd \in Fds :
       \/ Close(fd) /\ UNCHANGED dataVars
       \/ \E offset \in 0 .. MaxSize : Lseek(fd, offset) /\ UNCHANGED dataVars
       \/ \E count \in 0 .. MaxCount : ReadData(fd, count)
       \/ \E count \in 1 .. MaxCount :
            \/ (Write(fd, count) \/ WriteFirstBlock(fd, count)) /\ UNCHANGED dataVars
            \/ WriteNothing(fd, count)
  \/ (FreeBlock \/ FreeLast \/ Walk \/ Extend) /\ UNCHANGED dataVars
  \/ BeginTransfer \/ TransferPiece \/ FinishWrite \/ FinishShort
  \/ (call.pc # "saving" /\ KillData)

DataSpec == DataInit /\ [][DataNext]_<<vars, dataVars>>

-----------------------------------------------------------------------------
DataTypeOK ==
  /\ blocks \in [Blocks -> Block]
  /\ io # NoTransfer =>
       /\ call.pc = "xfer"
       /\ io.buf \in [0 .. call.count - 1 -> Bytes]
       /\ io.moved \in 0 .. Len(WritePieces)
       /\ io.done \in 0 .. call.count
  /\ holds \in [Files -> [Positions -> SUBSET Bytes]]
  /\ gone \subseteq Files

(* What fs_write returned stays in the file: a position holds the last     *)
(* byte written there through a descriptor, whatever was written, created  *)
(* or deleted since, in this session or an earlier one, short writes       *)
(* included, and whatever process died in between, unless between the two  *)
(* writes of an fs_umount (DataSpec).                                      *)
ContentsKept == status = "mounted" =>
  \A i \in Intact : HasContents(fat, root[i].first_index, Expected(i))

(* A process that dies takes with it what it did to the tables but not to  *)
(* the data: read through the tables on the disk, every file that was not  *)
(* deleted since the last fs_umount holds the last byte written to each of *)
(* its positions, even while fs_umount is between its two writes.          *)
CrashKeepsContents ==
  \A i \in Live(disk.root) \ gone :
    HasContents(disk.fat, disk.root[i].first_index, Expected(i))

(* fs_read returns the bytes of the file from the offset on, in order, and *)
(* gives fewer than asked only where the chain ends.                       *)
ReadsReturnContents == Ready =>
  \A fd \in OpenFds, count \in 1 .. MaxCount :
    LET result == fs_read(fd, count)
        offset == open_files[fd].offset
        i      == open_files[fd].file
        chain  == Covered(fat, root[i].first_index)
    IN
    /\ result.ret = Cardinality(chain \intersect (offset .. offset + count - 1))
    /\ \A k \in 0 .. result.ret - 1 : result.buf[k] \in holds[i][offset + k]

(* A transfer puts each byte in its own place and touches no other (see    *)
(* IoSegments): the one that begins, and with up to two full blocks more.  *)
TransfersExact == call.pc = "alloc" /\ fat[call.block] = FAT_EOC =>
  \A n \in 0 .. 2 : MovesExactly(WriteFd.offset, call.count + n * BlockSize)

(* Seen without the data, this is FileSystem: piece by piece, a transfer   *)
(* moves everything exactly when the last block it needs is in the chain,  *)
(* and leaves offset and size alone otherwise (which fs.h does not say:    *)
(* see ReadFollowsHeader and WriteFollowsHeader).                          *)
ImplementsFileSystem == Spec

-----------------------------------------------------------------------------
(***************************************************************************)
(* The strengthenings that make the invariants inductive.                  *)
(***************************************************************************)

(* A transfer has moved its first pieces, each into a block of the chain,  *)
(* and counted their bytes; one that was never begun has no block.         *)
TransferInv ==
  /\ call.pc \in {"alloc", "xfer"} => call.count > 0
  /\ io # NoTransfer =>
       /\ call.pc = "xfer"
       /\ io \in [buf:   [0 .. call.count - 1 -> Bytes],
                  moved: 0 .. Len(WritePieces),
                  done:  0 .. call.count]
  /\ call.pc = "xfer" =>
       /\ io = NoTransfer => WriteFile.first_index = FAT_EOC
       /\ io.moved = 0 => io.done = 0
       /\ io.moved # 0 =>
            LET piece == WritePieces[io.moved] IN
            /\ io.done = piece.from + piece.size
            /\ find_data_block(fat, WriteFile.first_index, piece.block) # FAT_EOC

(* What is in a file: during a transfer, what its pieces brought.          *)
Landed(i) == IF call.pc = "xfer" THEN HoldsWritten[i] ELSE holds[i]

(* A file that was not deleted since the last fs_umount still begins with  *)
(* the chain it has on the disk.  Nothing is known of a position before a  *)
(* block is there.                                                         *)
ContentsInv ==
  /\ status # "mounted" => fat = disk.fat /\ root = disk.root /\ gone = {}
  /\ call.pc = "free" => call.arg \in gone
  /\ \A i \in Live(disk.root) \ gone :
       /\ i \in Live(root)
       /\ \A n \in 0 .. NumBlocks - 1 :
            LET b == find_data_block(disk.fat, disk.root[i].first_index, n) IN
            b # FAT_EOC => find_data_block(fat, root[i].first_index, n) = b
  /\ \A i \in Intact :
       /\ HasContents(fat, root[i].first_index, Landed(i))
       /\ \A p \in Positions \ Covered(fat, root[i].first_index) : holds[i][p] = Bytes

-----------------------------------------------------------------------------
(* fs.h, fs_read: "The number of bytes read can be smaller than @count if  *)
(* there are less than @count bytes until the end of the file (it can even *)
(* be 0 if the file offset is at the end of the file).  The file offset of *)
(* the file descriptor is implicitly incremented by the number of bytes    *)
(* that were actually read", so also by those of a short read.             *)
ReadFollowsHeader == Ready =>
  \A fd \in OpenFds, count \in 1 .. MaxCount :
    LET left   == root[open_files[fd].file].file_size - open_files[fd].offset
        result == fs_read(fd, count)
    IN
    /\ result.ret <= IF left > 0 THEN left ELSE 0
    /\ result.ret > 0 => result.advances

(* fs.h, fs_write: "When the function attempts to write past the end of    *)
(* the file, the file is automatically extended to hold the additional     *)
(* bytes", and on a full disk fs_write "should write as many bytes as      *)
(* possible": the size follows the bytes that the call reports, those of a *)
(* short write too, and only as far as they are behind the end.            *)
WriteFollowsHeader ==
  [][(FinishWrite \/ FinishShort) /\ io.done > 0 =>
       LET end == WriteFd.offset + io.done IN
       root'[WriteFd.file].file_size =
         IF end > WriteFile.file_size THEN end ELSE WriteFile.file_size]_<<vars, dataVars>>
=============================================================================
