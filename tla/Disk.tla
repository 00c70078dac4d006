--------------------------------- MODULE Disk ---------------------------------
(***************************************************************************)
(* The block device of libfs/disk.c: one host file at a time, read and     *)
(* written in whole blocks.  What a block holds is left to the modules     *)
(* that use it.  Host I/O that fails for other reasons is left out.        *)
(***************************************************************************)
EXTENDS Integers

CONSTANTS
  Hosts,       (* The host files by name.                                  *)
  INVALID_FD,  (* disk.fd of a closed device.                              *)
  MaxHostFds   (* The descriptors a process may have besides the standard
                  ones.                                                    *)

ASSUME HostsAssumption == INVALID_FD \notin Hosts
ASSUME MaxHostFdsAssumption == MaxHostFds \in Nat \ {0}

VARIABLES
  host,     (* Host file |-> its size in blocks, whether some bytes follow
               the last block, and the blocks.                             *)
  disk_fd,  (* disk.fd: the host file open, or INVALID_FD.                 *)
  bcount,   (* disk.bcount, which closing leaves as it was.                *)
  stray     (* Host descriptors nobody will close.                         *)

diskVars == <<host, disk_fd, bcount, stray>>

DiskOpen == disk_fd # INVALID_FD

DiskInit == disk_fd = INVALID_FD /\ bcount = 0 /\ stray = 0

(* open(2) finds a descriptor.                                             *)
HostFdFree == stray + (IF DiskOpen THEN 1 ELSE 0) < MaxHostFds

(* block_disk_open of a host file h.                                       *)
block_disk_open(h) ==
  /\ ~DiskOpen
  /\ HostFdFree
  /\ ~host[h].tail
  /\ disk_fd' = h
  /\ bcount' = host[h].count
  /\ UNCHANGED <<host, stray>>

(* A size that is no multiple of the block size: the call fails and keeps  *)
(* the descriptor.                                                         *)
OpenOddSize(h) ==
  /\ ~DiskOpen
  /\ HostFdFree
  /\ host[h].tail
  /\ stray' = stray + 1
  /\ UNCHANGED <<host, disk_fd, bcount>>

block_disk_close ==
  /\ DiskOpen
  /\ disk_fd' = INVALID_FD
  /\ UNCHANGED <<host, bcount, stray>>

block_disk_count == IF DiskOpen THEN bcount ELSE -1

(* Whether block_read and block_write return 0.                            *)
InBounds(b) == DiskOpen /\ b < bcount

(* The faulty variant checks nothing.                                      *)
WriteUnchecked(b, contents) ==
  /\ host' = [host EXCEPT ![disk_fd].block =
       [x \in DOMAIN @ \union {b} |-> IF x = b THEN contents ELSE @[x]]]
  /\ UNCHANGED <<disk_fd, bcount, stray>>

block_write(b, contents) ==
  /\ host' = IF InBounds(b) THEN [host EXCEPT ![disk_fd].block[b] = contents] ELSE host
  /\ UNCHANGED <<disk_fd, bcount, stray>>
=============================================================================
