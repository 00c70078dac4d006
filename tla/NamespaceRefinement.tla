-------------------------- MODULE NamespaceRefinement --------------------------
(***************************************************************************)
(* FileSystem implements Namespace.  A file is a directory entry in use; a *)
(* descriptor refers to it by position in the code and by name in the      *)
(* abstract store.  The slots a finished session leaves behind are not     *)
(* descriptors of anything, which is why fs_mount has to clear them.       *)
(***************************************************************************)
EXTENDS FileSystem

(* NULL is no descriptor of the store either.                              *)
ASSUME NULLNameAssumption ==
  NULL \notin [name: Names \union {NoName}, offset: 0 .. OffsetMod - 1]

FilesOf(dir) ==
  [name \in {dir[i].filename : i \in Live(dir)} |->
     dir[CHOOSE i \in Live(dir) : dir[i].filename = name].file_size]

Descriptor(fd) ==
  IF status = "mounted" /\ IsOpen(fd)
  THEN [name |-> root[open_files[fd].file].filename, offset |-> open_files[fd].offset]
  ELSE NULL

Store == INSTANCE Namespace WITH
  mounted <- status = "mounted",
  files   <- FilesOf(IF status = "mounted" THEN root ELSE disk.root),
  opened  <- [fd \in Fds |-> Descriptor(fd)],
  saved   <- FilesOf(disk.root)

(* Whatever is called, and whenever the process dies, fs_umount half done  *)
(* included: a call on one descriptor or file leaves all others alone, the *)
(* names stay apart, and a directory is saved as a whole or not at all.    *)
(* That open descriptors do not stop fs_umount and that a short write is   *)
(* not seen in the size is what Namespace has from the code, against fs.h. *)
ImplementsNamespace == Store!Spec
=============================================================================
