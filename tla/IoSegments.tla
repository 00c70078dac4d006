------------------------------ MODULE IoSegments ------------------------------
(***************************************************************************)
(* How fs_read and fs_write of libfs/fs.c cut a transfer of count bytes at *)
(* a file offset into pieces of one block: a partial first block, the full *)
(* blocks, and what remains in the last one.  Both functions contain the   *)
(* same arithmetic.  Pure functions of the two numbers; the width of the   *)
(* offset is the caller's (FileSystem).                                    *)
(***************************************************************************)
EXTENDS Integers, Sequences

CONSTANT BlockSize  (* BLOCK_SIZE, in bytes.                               *)

ASSUME BlockSizeAssumption == BlockSize \in Nat \ {0}

(* The blocks of the file up to the last byte of the transfer, those       *)
(* skipped by the offset included.                                         *)
find_num_target_blocks(offset, count) ==
  (offset + count) \div BlockSize
    + (IF (offset + count) % BlockSize # 0 THEN 1 ELSE 0)

(* Whether the transfer starts inside a block, and how much it takes from  *)
(* that block.                                                             *)
StartsInside(offset) == offset % BlockSize # 0

PartialAmount(offset, count) ==
  IF ~StartsInside(offset) THEN 0
  ELSE IF (offset % BlockSize) + count < BlockSize THEN count
  ELSE BlockSize - (offset % BlockSize)

full_block_start_index(offset) ==
  offset \div BlockSize + (IF StartsInside(offset) THEN 1 ELSE 0)

(* num_full_blocks.  The first block is subtracted when bytes were taken   *)
(* from it, which is not quite whether the transfer starts inside it: with *)
(* a count of 0 it does and none are.                                      *)
num_full_blocks(offset, count) ==
  LET partial == PartialAmount(offset, count) IN
  find_num_target_blocks(offset, count) - offset \div BlockSize
    - (IF partial # 0 THEN 1 ELSE 0)
    - (IF (count - partial) % BlockSize # 0 THEN 1 ELSE 0)

(* remainder_block_size.                                                   *)
Remainder(offset, count) ==
  count - PartialAmount(offset, count) - BlockSize * num_full_blocks(offset, count)

(* A piece: size bytes at byte at of the block-th block of the file, found *)
(* at byte from of the caller's buffer (bytes_written, bytes_read).        *)
PartialPiece(offset, count) ==
  IF StartsInside(offset)
  THEN << [block |-> offset \div BlockSize, at |-> offset % BlockSize,
           from |-> 0, size |-> PartialAmount(offset, count)] >>
  ELSE << >>

FullPieces(offset, count) ==
  [k \in 1 .. num_full_blocks(offset, count) |->
     [block |-> full_block_start_index(offset) + k - 1, at |-> 0,
      from |-> PartialAmount(offset, count) + BlockSize * (k - 1), size |-> BlockSize]]

(* The faulty variant takes the last block of the transfer for the first   *)
(* block after the full ones, forgetting the partial one.                  *)
LastPieceMiscounted(offset, count) ==
  IF Remainder(offset, count) > 0
  THEN << [block |-> offset \div BlockSize + num_full_blocks(offset, count), at |-> 0,
           from |-> count - Remainder(offset, count), size |-> Remainder(offset, count)] >>
  ELSE << >>

LastPiece(offset, count) ==
  IF Remainder(offset, count) > 0
  THEN << [block |-> find_num_target_blocks(offset, count) - 1, at |-> 0,
           from |-> count - Remainder(offset, count), size |-> Remainder(offset, count)] >>
  ELSE << >>

Pieces(offset, count) ==
  PartialPiece(offset, count) \o FullPieces(offset, count) \o LastPiece(offset, count)

-----------------------------------------------------------------------------
(* The reference: byte k of the buffer is byte offset + k of the file, for *)
(* each k below count, and nothing else is moved.                          *)
Placement(pieces) ==
  UNION {{<<pieces[i].block * BlockSize + pieces[i].at + k, pieces[i].from + k>> :
            k \in 0 .. pieces[i].size - 1} : i \in DOMAIN pieces}

MovesExactly(offset, count) ==
  Placement(Pieces(offset, count)) = {<<offset + k, k>> : k \in 0 .. count - 1}
=============================================================================
