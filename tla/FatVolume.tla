------------------------------- MODULE FatVolume -------------------------------
(***************************************************************************)
(* The two tables that make up a volume of the MS-FAT file system of       *)
(* libfs/fs.c: the file allocation table (fat) and the root directory      *)
(* (root).  The module holds what depends on the tables alone: their       *)
(* types, the look-ups the code performs on them, and the predicates that  *)
(* say when a pair of tables describes a volume at all.                    *)
(*                                                                         *)
(* A table appears twice in the running system, once in the memory of the  *)
(* process and once on the virtual disk, so every operator takes the       *)
(* tables as arguments.                                                    *)
(***************************************************************************)
EXTENDS Integers, FiniteSets

CONSTANTS
  Names,      (* The valid file names.                                   *)
  NoName,     (* filename[0] = 0: the directory entry is empty.          *)
  NumFiles,   (* FS_FILE_MAX_COUNT, the entries of the root directory.   *)
  NumBlocks,  (* sb->num_data_blocks, the entries of the FAT.            *)
  MaxSize     (* Bound of the model on file_size, at most 2^32 - 1.      *)

(* The mark of the end of a chain, and of a file that has no block.        *)
FAT_EOC == 65535

ASSUME NamesAssumption     == NoName \notin Names
ASSUME NumFilesAssumption  == NumFiles \in Nat \ {0}
ASSUME NumBlocksAssumption == NumBlocks \in 1 .. FAT_EOC - 1
ASSUME MaxSizeAssumption   == MaxSize \in Nat

Files      == 0 .. NumFiles - 1
Blocks     == 0 .. NumBlocks - 1

(* Entry 0 of the FAT is reserved; a file only ever holds the others.      *)
DataBlocks == Blocks \ {0}

FatEntry   == Blocks \union {FAT_EOC}
Fat        == [Blocks -> FatEntry]

File       == [filename:    Names \union {NoName},
               file_size:   0 .. MaxSize,
               first_index: FatEntry]
Root       == [Files -> File]

-----------------------------------------------------------------------------
(* What fs_make.x writes: every FAT entry but the reserved one free, and   *)
(* a directory block of zeros.                                             *)
FormattedFat  == [b \in Blocks |-> IF b = 0 THEN FAT_EOC ELSE 0]
FormattedRoot == [i \in Files |-> [filename    |-> NoName,
                                   file_size   |-> 0,
                                   first_index |-> 0]]

(* The directory entries in use, and the blocks allocation may take.  The  *)
(* faulty variant takes the last block of a chain for a free one.          *)
Live(root) == {i \in Files : root[i].filename # NoName}

FreeBlocksOrEnds(fat) == {b \in DataBlocks : fat[b] \in {0, FAT_EOC}}
FreeBlocks(fat)       == {b \in DataBlocks : fat[b] = 0}

(* The index of the n-th block of the chain that starts at first, or       *)
(* FAT_EOC when the chain is shorter.                                      *)
find_data_block(fat, first, n) ==
  LET walk[k \in 0 .. n] ==
        IF k = 0 THEN first
        ELSE IF walk[k - 1] = FAT_EOC THEN FAT_EOC
        ELSE fat[walk[k - 1]]
  IN  walk[n]

(* The chain of a file as the position |-> block function, and its blocks. *)
ChainOf(fat, root, i) ==
  [n \in 0 .. NumBlocks - 1 |-> find_data_block(fat, root[i].first_index, n)]

BlocksOf(fat, root, i) ==
  {ChainOf(fat, root, i)[n] : n \in 0 .. NumBlocks - 1} \ {FAT_EOC}

(* Allocated blocks that no live file reaches.                             *)
LostBlocks(fat, root) ==
  {b \in DataBlocks : fat[b] # 0}
    \ UNION {BlocksOf(fat, root, i) : i \in Live(root)}

-----------------------------------------------------------------------------
(***************************************************************************)
(* The volume's integrity, in two forms.                                   *)
(*                                                                         *)
(* ChainIntegrity is what a user of the volume relies on: the chain of     *)
(* every file in L comes to an end after at most NumBlocks - 1 blocks, and *)
(* no block is in two files.  It speaks of whole chains.                   *)
(*                                                                         *)
(* VolumeSound is the same promise seen one FAT entry at a time, which is  *)
(* how the code changes the table, and it is inductive.  A link is an      *)
(* entry that holds the index of a block.                                  *)
(***************************************************************************)
ChainIntegrity(fat, root, L) ==
  /\ \A i \in L : find_data_block(fat, root[i].first_index, NumBlocks - 1) = FAT_EOC
  /\ \A i, j \in L : i # j =>
       BlocksOf(fat, root, i) \intersect BlocksOf(fat, root, j) = {}

IsLink(fat, b) == b \in DataBlocks /\ fat[b] # 0 /\ fat[b] # FAT_EOC

LinksSound(fat) ==
  \A b \in DataBlocks : IsLink(fat, b) =>
    /\ fat[fat[b]] # 0
    /\ \A c \in DataBlocks : c # b => fat[c] # fat[b]

HeadSound(fat, root, i) ==
  LET first == root[i].first_index IN
  first # FAT_EOC =>
    /\ first \in DataBlocks
    /\ fat[first] # 0
    /\ \A b \in DataBlocks : fat[b] # first

HeadsDiffer(root, L) ==
  \A i, j \in L : i # j /\ root[i].first_index # FAT_EOC =>
    root[i].first_index # root[j].first_index

VolumeSound(fat, root, L) ==
  /\ fat[0] \in {0, FAT_EOC}
  /\ LinksSound(fat)
  /\ \A i \in L : HeadSound(fat, root, i)
  /\ HeadsDiffer(root, L)

(* No two directory entries in use carry the same name.                    *)
NamesDiffer(root) ==
  \A i, j \in Live(root) : i # j => root[i].filename # root[j].filename
=============================================================================
