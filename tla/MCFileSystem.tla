------------------------------ MODULE MCFileSystem ------------------------------
(***************************************************************************)
(* Model values and symmetry for the runs of FileSystem.  Files are        *)
(* interchangeable by name, so the safety runs take the names as a         *)
(* symmetry set; the runs with a temporal property do not.                 *)
(***************************************************************************)
EXTENDS NamespaceRefinement, TLC

NameSymmetry == Permutations(Names)

(* The bound of the runs with long chains: one session on a formatted      *)
(* volume, from fs_mount to the first step of fs_umount.                   *)
OneSession == disk = [fat |-> FormattedFat, root |-> FormattedRoot]
=============================================================================
