------------------------------ MODULE MCMounting ------------------------------
(***************************************************************************)
(* The disks of the runs of Mounting.  A FAT block holds five entries, as  *)
(* many as a directory entry is long; one volume needs two FAT blocks.     *)
(***************************************************************************)
EXTENDS Mounting, FiniteSets, TLC

HostSymmetry == Permutations(Hosts)

Zeros == [kind |-> "zero"]

SuperBlock(count, root_index, data_start_index, data_blocks, fat_blocks) ==
  [kind |-> "super",
   sb   |-> [num_blocks       |-> count,
             root_index       |-> root_index,
             data_start_index |-> data_start_index,
             num_data_blocks  |-> data_blocks,
             num_fat_blocks   |-> fat_blocks,
             padding_clear    |-> TRUE]]

FatBlock(entries) == [kind |-> "fat", entry |-> [e \in 0 .. 4 |-> entries[e + 1]]]
FirstFatBlock == FatBlock(<<FAT_EOC, 0, 0, 0, 0>>)

(* A host file of count blocks: superblock, FAT and zeros.                 *)
Image(count, super) ==
  [count |-> count, tail |-> FALSE,
   block |-> [b \in 0 .. count - 1 |->
                CASE b = 0 -> super
                  [] b = 1 -> FirstFatBlock
                  [] OTHER -> Zeros]]

OneFatBlock   == Image(5, SuperBlock(5, 2, 3, 2, 1))
TwoFatBlocks  == Image(10, SuperBlock(10, 3, 4, 6, 2))
WrongCount    == Image(4, SuperBlock(5, 2, 3, 2, 1))
NoRoomForRoot == Image(2, SuperBlock(2, 2, 3, 1, 1))
RootOverFat   == Image(4, SuperBlock(4, 1, 3, 1, 1))
RootFarther   == Image(5, SuperBlock(5, 3, 4, 1, 1))
BadRootEntry  == [Image(4, SuperBlock(4, 2, 3, 1, 1)) EXCEPT
  !.block[2] = [kind |-> "root",
                file |-> [f \in Files |-> [EncodeFile(EmptyFile) EXCEPT !.padding_clear = FALSE]]]]
FatAsRoot     == [Image(4, SuperBlock(4, 2, 3, 1, 1)) EXCEPT
  !.block[2] = FatBlock(<<FAT_EOC, 513, 3, FAT_EOC, 0>>)]
FatAsBadRoot  == [Image(4, SuperBlock(4, 2, 3, 1, 1)) EXCEPT
  !.block[2] = FatBlock(<<FAT_EOC, 0, 0, 0, FAT_EOC>>)]
EmptyHostFile == [count |-> 0, tail |-> FALSE, block |-> [b \in {} |-> Zeros]]
OddSize       == [Image(5, SuperBlock(5, 2, 3, 2, 1)) EXCEPT !.tail = TRUE]

MCHostFiles ==
  {OneFatBlock, TwoFatBlocks, WrongCount, NoRoomForRoot, RootOverFat, RootFarther,
   BadRootEntry, FatAsRoot, FatAsBadRoot, EmptyHostFile, OddSize}

(* A size and an index with bytes that differ.                             *)
MCSamples == {[filename |-> "file", file_size |-> 66051, first_index |-> 513]}

(* The bounds of the runs: one of two disks may have two FAT blocks; of    *)
(* a table, sessions change the first entries of the two FAT blocks and    *)
(* one more; and of blocks, the data blocks do not count, with junk or     *)
(* without.                                                                *)
OneLargeDisk == Cardinality({h \in Hosts : host[h].count = TwoFatBlocks.count}) =< 1

FewEntries ==
  fat.mem = "live" =>
    \A n \in DOMAIN fat.val \ {0, 1, EntriesPerBlock} : fat.val[n] # FAT_EOC

DataBlocksKept ==
  \A h \in Hosts : \A b \in 4 .. host[h].count - 1 : host[h].block[b].kind # "junk"
=============================================================================
