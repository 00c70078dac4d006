------------------------------- MODULE Namespace -------------------------------
(***************************************************************************)
(* What a caller of libfs sees of names, sizes and descriptors, without    *)
(* FAT, directory entries or loops: a set of named files that exists in    *)
(* memory while a volume is mounted and is saved all at once.  FileSystem  *)
(* implements it (NamespaceRefinement).                                    *)
(*                                                                         *)
(* This is what the code does, not what fs.h says.  Where they differ the  *)
(* code is followed, and FileSystem and FileData state the line of fs.h:   *)
(* fs_umount does not refuse open descriptors (RoomToOpen), a write makes  *)
(* its file longer by its count wherever it begins, unless it is short:    *)
(* then it leaves size and offset alone whatever it has written            *)
(* (WriteFollowsHeader), and a seek goes to the offset modulo OffsetMod    *)
(* (SeekGoesToOffset).                                                     *)
(***************************************************************************)
EXTENDS Integers, FiniteSets

CONSTANTS
  Names, NumFiles,   (* At most NumFiles files.                            *)
  Fds, NULL,         (* Descriptors; NULL marks a closed one.              *)
  OffsetMod, MaxSize

VARIABLES
  mounted,
  files,   (* Name of a file |-> its size.                                 *)
  opened,  (* Descriptor |-> the name of its file and an offset.           *)
  saved    (* The files on the disk.                                       *)

vars == <<mounted, files, opened, saved>>

NoFiles == [name \in {} |-> 0]
Closed  == [fd \in Fds |-> NULL]

Init ==
  /\ mounted = FALSE
  /\ files = NoFiles /\ saved = NoFiles
  /\ opened = Closed

Mount ==
  /\ ~mounted
  /\ mounted' = TRUE
  /\ files = saved /\ opened = Closed
  /\ UNCHANGED <<files, opened, saved>>

(* Saving drops every descriptor still open; by fs.h it would be refused.  *)
Umount ==
  /\ mounted
  /\ mounted' = FALSE
  /\ saved' = files
  /\ opened' = Closed
  /\ UNCHANGED files

Crash ==
  /\ mounted' = FALSE
  /\ files' = saved
  /\ opened' = Closed
  /\ UNCHANGED saved

Create(name) ==
  /\ mounted
  /\ name \notin DOMAIN files
  /\ Cardinality(DOMAIN files) < NumFiles
  /\ files' = [n \in DOMAIN files \union {name} |-> IF n = name THEN 0 ELSE files[n]]
  /\ UNCHANGED <<mounted, opened, saved>>

(* Only a file that no descriptor refers to.                               *)
Delete(name) ==
  /\ mounted
  /\ name \in DOMAIN files
  /\ \A fd \in Fds : opened[fd] # NULL => opened[fd].name # name
  /\ files' = [n \in DOMAIN files \ {name} |-> files[n]]
  /\ UNCHANGED <<mounted, opened, saved>>

Open(name, fd) ==
  /\ mounted
  /\ name \in DOMAIN files
  /\ opened[fd] = NULL
  /\ opened' = [opened EXCEPT ![fd] = [name |-> name, offset |-> 0]]
  /\ UNCHANGED <<mounted, files, saved>>

Close(fd) ==
  /\ mounted
  /\ opened[fd] # NULL
  /\ opened' = [opened EXCEPT ![fd] = NULL]
  /\ UNCHANGED <<mounted, files, saved>>

(* A seek, within the size of the file, or a read.                         *)
MoveOffset(fd, offset) ==
  /\ mounted
  /\ opened[fd] # NULL
  /\ opened' = [opened EXCEPT ![fd].offset = offset]
  /\ UNCHANGED <<mounted, files, saved>>

(* A write of count bytes moves its descriptor and lengthens its file by   *)
(* count, and touches no other descriptor, whatever file that refers to.   *)
(* One that could not transfer everything is no step here.                 *)
Write(fd, count) ==
  /\ mounted
  /\ opened[fd] # NULL
  /\ opened' = [opened EXCEPT ![fd].offset = (@ + count) % OffsetMod]
  /\ files' = [files EXCEPT ![opened[fd].name] = @ + count]
  /\ UNCHANGED <<mounted, saved>>

Next ==
  \/ Mount \/ Umount \/ Crash
  \/ \E name \in Names : Create(name) \/ Delete(name)
  \/ \E fd \in Fds :
       \/ \E name \in Names : Open(name, fd)
       \/ Close(fd)
       \/ \E offset \in 0 .. OffsetMod - 1 : MoveOffset(fd, offset)
       \/ \E count \in 1 .. MaxSize : Write(fd, count)

Spec == Init /\ [][Next]_vars
=============================================================================
