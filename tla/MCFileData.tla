------------------------------ MODULE MCFileData ------------------------------
(* Model values, symmetry and bounds for the runs of FileData.             *)
EXTENDS FileData, TLC

CONSTANT Mark  (* A byte.                                                *)

NameSymmetry == Permutations(Names)

(* fs_umount saves once: a volume with one file of one block and formatted *)
(* blocks besides, or an empty one that can no longer be mounted.  Any     *)
(* number of sessions may begin on it or on the formatted one, and die;    *)
(* those on the saved volume hold one file at a time.                      *)
OneBlockFile ==
  /\ Live(root) = {0}
  /\ root[0].file_size = BlockSize
  /\ root[0].first_index # FAT_EOC
  /\ fat[root[0].first_index] = FAT_EOC
  /\ \A b \in FreeBlocks(fat), k \in 0 .. BlockSize - 1 : blocks[b][k] = Zero
  /\ num_open_files = 0

SavesOneFile == call.pc = "saving" =>
  /\ disk.root = FormattedRoot
  /\ OneBlockFile \/ (fat[0] # FAT_EOC /\ Live(root) = {})

(* The buffers written are told apart from the formatted blocks, and their *)
(* first byte from the others.                                             *)
MarkedBuffers ==
  \A k \in DOMAIN io.buf : io.buf[k] # Zero /\ ((io.buf[k] = Mark) <=> (k = 0))

DataBounds ==
  /\ SavesOneFile
  /\ disk.root # FormattedRoot => Cardinality(Live(root)) =< 1
  /\ MarkedBuffers
=============================================================================
