------------------------------ MODULE VolumeImage ------------------------------
(***************************************************************************)
(* The blocks of a volume and how libfs/fs.c reads and writes them: the    *)
(* checks on the superblock, the place of FAT entries in the FAT blocks,   *)
(* and the encoding of directory entries.  Pure functions.                 *)
(*                                                                         *)
(* A block is one of                                                       *)
(*   [kind |-> "super", sb |-> ...]    the superblock's fields             *)
(*   [kind |-> "fat",   entry |-> ...] EntriesPerBlock entries             *)
(*   [kind |-> "root",  file |-> ...]  encoded directory entries           *)
(*   [kind |-> "zero"]                 zeros                               *)
(*   [kind |-> "junk"]                 bytes no reader takes for anything  *)
(***************************************************************************)
EXTENDS Integers, Sequences

CONSTANTS
  EntriesPerBlock,  (* FAT entries in a block: BLOCK_SIZE / 2.             *)
  NumFiles,         (* FS_FILE_MAX_COUNT.                                  *)
  NameEntries,      (* How many FAT entries are as long as the name of a   *)
  PadEntries,       (* file and as its padding: FS_FILENAME_LEN / 2 and
                       ROOT_PAD_LEN / 2.                                   *)
  NoName,           (* filename[0] = 0.                                    *)
  Signature,        (* The name that the first bytes of a superblock spell *)
  FatName,          (* and the one that bytes of a FAT block spell.        *)
  Junk              (* An entry read from memory nobody has written, which
                       may be anything.                                    *)

FAT_EOC == 65535
Files   == 0 .. NumFiles - 1

(* A directory entry is a name, four bytes of size, two of first index and *)
(* the padding: ROOT_ENTRY_LEN / 2.                                        *)
FileEntries == NameEntries + 3 + PadEntries

ASSUME ImageNumFilesAssumption == NumFiles \in Nat \ {0}
ASSUME EntryLengthsAssumption == NameEntries \in Nat \ {0} /\ PadEntries \in Nat \ {0}
ASSUME EntriesPerBlockAssumption ==
  EntriesPerBlock \in Nat /\ EntriesPerBlock >= NumFiles * FileEntries
ASSUME JunkAssumption == Junk \in 0 .. FAT_EOC

-----------------------------------------------------------------------------
(* load_superblock: what it checks.  The signature is not compared, and    *)
(* nothing relates num_fat_blocks to num_data_blocks or to root_index.     *)
Accepts(sb, count) ==
  /\ sb.num_blocks = count
  /\ sb.root_index > 0
  /\ sb.data_start_index \notin {0, sb.root_index}
  /\ sb.num_data_blocks < sb.num_blocks
  /\ sb.num_fat_blocks < sb.num_blocks
  /\ sb.padding_clear

ZeroSuper == [num_blocks |-> 0, root_index |-> 0, data_start_index |-> 0,
              num_data_blocks |-> 0, num_fat_blocks |-> 0, padding_clear |-> TRUE]

AsSuper(block) ==
  CASE block.kind = "super" -> block.sb
    [] block.kind = "zero"  -> ZeroSuper
    [] OTHER                -> [ZeroSuper EXCEPT !.padding_clear = FALSE]

-----------------------------------------------------------------------------
(* The FAT.  FAT block i is read to element BLOCK_SIZE * i of an array of  *)
(* 16-bit entries and written from entry BLOCK_SIZE * i on, which is twice *)
(* the number of entries a block holds.                                    *)
Stride == 2 * EntriesPerBlock

AsFat(block) ==
  [e \in 0 .. EntriesPerBlock - 1 |->
     CASE block.kind = "fat"  -> block.entry[e]
       [] block.kind = "zero" -> 0
       [] OTHER               -> Junk]

(* load_fat, of the blocks of a disk.                                      *)
LoadedFat(blocks, sb) ==
  [n \in 0 .. sb.num_data_blocks - 1 |->
     LET i == n \div Stride  e == n % Stride IN
     IF i < sb.num_fat_blocks /\ e < EntriesPerBlock THEN AsFat(blocks[i + 1])[e] ELSE Junk]

FirstEntry(fat) == IF 0 \in DOMAIN fat THEN fat[0] ELSE Junk

(* What fs_umount writes to FAT block i + 1; beyond the table it is what   *)
(* the memory happens to hold.                                             *)
SavedFatBlock(fat, i) ==
  [kind  |-> "fat",
   entry |-> [e \in 0 .. EntriesPerBlock - 1 |->
                IF Stride * i + e \in DOMAIN fat THEN fat[Stride * i + e] ELSE Junk]]

(* The entry n of the table as the format has it, and those the code gets  *)
(* right.                                                                  *)
FatEntryOnDisk(blocks, n) ==
  AsFat(blocks[n \div EntriesPerBlock + 1])[n % EntriesPerBlock]

FirstBlockEntries(sb) ==
  {n \in 0 .. sb.num_data_blocks - 1 : n < EntriesPerBlock}

-----------------------------------------------------------------------------
(* Directory entries: file_size in four bytes, first_index in two, the     *)
(* least significant first (concatenate_two_bytes, concatenate_four_bytes; *)
(* fs_umount).  The faulty variant swaps the two bytes of the index.       *)
Byte(n, k) == (n \div 256 ^ k) % 256

EncodeFileSwapped(file) ==
  [filename    |-> file.filename,
   file_size   |-> [k \in 0 .. 3 |-> Byte(file.file_size, k)],
   first_index |-> [k \in 0 .. 1 |-> Byte(file.first_index, 1 - k)],
   padding_clear |-> TRUE]

EncodeFile(file) ==
  [filename    |-> file.filename,
   file_size   |-> [k \in 0 .. 3 |-> Byte(file.file_size, k)],
   first_index |-> [k \in 0 .. 1 |-> Byte(file.first_index, k)],
   padding_clear |-> TRUE]

concatenate_two_bytes(b)  == b[0] + 256 * b[1]
concatenate_four_bytes(b) == b[0] + 256 * b[1] + 65536 * b[2] + 16777216 * b[3]

DecodeFile(bytes) ==
  [filename    |-> bytes.filename,
   file_size   |-> concatenate_four_bytes(bytes.file_size),
   first_index |-> concatenate_two_bytes(bytes.first_index)]

EmptyFile == [filename |-> NoName, file_size |-> 0, first_index |-> 0]

(* An entry in memory: file_size is a uint32_t, first_index a uint16_t.    *)
FitsEntry(file) ==
  /\ file = [filename    |-> file.filename,
             file_size   |-> file.file_size,
             first_index |-> file.first_index]
  /\ file.file_size \in Nat /\ file.file_size \div 16777216 < 256
  /\ file.first_index \in Nat /\ file.first_index \div 256 < 256

(* What is in a block is bytes, a FAT entry two of them; num_fat_blocks is *)
(* one.                                                                    *)
IsBlock(block) ==
  /\ block.kind = "root" => \A f \in Files :
       /\ \A k \in 0 .. 3 : block.file[f].file_size[k] \in 0 .. 255
       /\ \A k \in 0 .. 1 : block.file[f].first_index[k] \in 0 .. 255
  /\ block.kind = "super" => block.sb.num_fat_blocks \in 0 .. 255
  /\ block.kind = "fat" => \A e \in 0 .. EntriesPerBlock - 1 : block.entry[e] \in 0 .. FAT_EOC

SavedRootBlock(root) == [kind |-> "root", file |-> [f \in Files |-> EncodeFile(root[f])]]

(* load_root_directory accepts the block: there are zeros where the        *)
(* padding of each entry is looked for.                                    *)
Padding(f) == f * FileEntries + NameEntries + 3 .. (f + 1) * FileEntries - 1

RootReadable(block) ==
  CASE block.kind = "root"  -> \A f \in Files : block.file[f].padding_clear
    [] block.kind = "fat"   -> \A f \in Files : \A e \in Padding(f) : block.entry[e] = 0
    [] block.kind = "super" -> block.sb.padding_clear
    [] OTHER                -> block.kind = "zero"

(* A directory entry made of FAT entries from first on.                    *)
FileOfFat(entry, first) ==
  [filename    |-> IF entry[first] % 256 = 0 THEN NoName ELSE FatName,
   file_size   |-> entry[first + NameEntries] + 65536 * entry[first + NameEntries + 1],
   first_index |-> entry[first + NameEntries + 2]]

(* A superblock taken for a directory has one file, named by its first     *)
(* bytes; num_fat_blocks is where file_size is looked for.                 *)
AsRoot(block) ==
  [f \in Files |->
     CASE block.kind = "root" -> DecodeFile(block.file[f])
       [] block.kind = "fat"  -> FileOfFat(block.entry, f * FileEntries)
       [] block.kind = "super" /\ f = 0 ->
            [filename |-> Signature, file_size |-> block.sb.num_fat_blocks, first_index |-> 0]
       [] OTHER -> EmptyFile]
=============================================================================
