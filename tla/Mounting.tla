-------------------------------- MODULE Mounting --------------------------------
(***************************************************************************)
(* fs_mount and fs_umount of libfs/fs.c over the block device (Disk) and   *)
(* the layout of a volume (VolumeImage): what FileSystem takes for one     *)
(* table, one volume and one way to fail.  Here there are several disks,   *)
(* formatted well or badly, and the tables are memory that is null, live   *)
(* or freed.                                                               *)
(*                                                                         *)
(* fs_mount writes nothing and is one step; fs_umount writes one block per *)
(* step.  What the other calls do to the tables is SessionCall.            *)
(***************************************************************************)
EXTENDS Disk, VolumeImage

CONSTANTS
  HostFiles,  (* What a host file may hold to begin with.                  *)
  Samples     (* The directory entries a session may leave.                *)

(* A host file: its blocks, of which the first, where there is one, gives  *)
(* numbers for the place of the tables.                                    *)
IsHostFile(file) ==
  /\ file = [count |-> file.count, tail |-> file.tail, block |-> file.block]
  /\ file.count \in Nat
  /\ file.block = [b \in 0 .. file.count - 1 |-> file.block[b]]
  /\ file.count > 0 =>
       /\ AsSuper(file.block[0]).num_fat_blocks \in Nat
       /\ AsSuper(file.block[0]).root_index \in Nat

ASSUME HostFilesAssumption == \A file \in HostFiles :
  /\ IsHostFile(file)
  /\ file.count > 0 => file.block[0].kind \in {"super", "zero", "junk"}
  /\ \A b \in DOMAIN file.block : IsBlock(file.block[b])

ASSUME SamplesAssumption == \A file \in Samples : FitsEntry(file)

VARIABLES
  is_disk_mounted,
  sb, fat, root,  (* The globals, with the state of the memory they point
                     to.  A "partial" table was given up half filled.      *)
  loaded,         (* fs_mount returned 0 since the flag was set.           *)
  saving,         (* How many blocks the running fs_umount has written, or
                     NotSaving.                                            *)
  changed,        (* A call changed the tables since fs_mount.             *)
  saved           (* Observer.  Host file |-> the tables it holds as of the
                     last fs_umount, or Unknown after one was cut off.     *)

memVars == <<is_disk_mounted, sb, fat, root, loaded, saving, changed>>
mountVars == <<diskVars, memVars, saved>>

Null      == [mem |-> "null", val |-> "none"]
Freed     == [mem |-> "freed", val |-> "none"]
Partial   == [mem |-> "partial", val |-> "none"]
Allocated(val) == [mem |-> "live", val |-> val]

NotSaving == -1
Unknown   == [known |-> FALSE]

(* The layout that fs_make.x writes: the directory follows the FAT.        *)
InLayout(file) ==
  /\ ~file.tail
  /\ file.count > 0
  /\ LET s == AsSuper(file.block[0]) IN
     /\ Accepts(s, file.count)
     /\ s.num_fat_blocks > 0
     /\ s.root_index = s.num_fat_blocks + 1
     /\ s.root_index < file.count
     /\ RootReadable(file.block[s.root_index])

(* What a volume holds; of the FAT, what its first block holds.            *)
Contents(file) ==
  LET s == AsSuper(file.block[0]) IN
  [known |-> TRUE,
   fat   |-> [n \in FirstBlockEntries(s) |-> FatEntryOnDisk(file.block, n)],
   root  |-> AsRoot(file.block[s.root_index])]

ProcessStart ==
  /\ is_disk_mounted = FALSE
  /\ sb = Null /\ fat = Null /\ root = Null
  /\ loaded = FALSE /\ changed = FALSE
  /\ saving = NotSaving

MountInit ==
  /\ host \in [Hosts -> HostFiles]
  /\ DiskInit
  /\ ProcessStart
  /\ saved = [h \in Hosts |-> IF InLayout(host[h]) THEN Contents(host[h]) ELSE Unknown]

-----------------------------------------------------------------------------
(* fs_mount up to load_disk, which sets the flag.                          *)
LoadDisk(h) ==
  /\ ~is_disk_mounted
  /\ block_disk_open(h)
  /\ is_disk_mounted' = TRUE

MountOddSize(h) ==
  /\ ~is_disk_mounted
  /\ OpenOddSize(h)
  /\ UNCHANGED <<memVars, saved>>

Super(h) == AsSuper(host[h].block[0])

(* The block that ends up in the buffer load_root_directory is given: the  *)
(* result of block_read is not looked at, and a failed one leaves the      *)
(* superblock there.  The faulty variant is one block off.                 *)
RootSourceOff(h) ==
  LET b == Super(h).num_fat_blocks + 2 IN
  IF b < host[h].count THEN host[h].block[b] ELSE host[h].block[0]

RootSource(h) ==
  LET b == Super(h).num_fat_blocks + 1 IN
  IF b < host[h].count THEN host[h].block[b] ELSE host[h].block[0]

MountNoSuperblock(h) ==
  /\ LoadDisk(h)
  /\ host[h].count = 0
  /\ UNCHANGED <<sb, fat, root, loaded, saving, changed, saved>>

MountBadSuperblock(h) ==
  /\ LoadDisk(h)
  /\ host[h].count > 0
  /\ ~Accepts(Super(h), host[h].count)
  /\ sb' = Partial
  /\ UNCHANGED <<fat, root, loaded, saving, changed, saved>>

MountBadFat(h) ==
  /\ LoadDisk(h)
  /\ host[h].count > 0
  /\ Accepts(Super(h), host[h].count)
  /\ FirstEntry(LoadedFat(host[h].block, Super(h))) # FAT_EOC
  /\ sb' = Allocated(Super(h))
  /\ fat' = Allocated(LoadedFat(host[h].block, Super(h)))
  /\ UNCHANGED <<root, loaded, saving, changed, saved>>

TablesLoad(h) ==
  /\ host[h].count > 0
  /\ Accepts(Super(h), host[h].count)
  /\ FirstEntry(LoadedFat(host[h].block, Super(h))) = FAT_EOC
  /\ sb' = Allocated(Super(h))
  /\ fat' = Allocated(LoadedFat(host[h].block, Super(h)))

MountBadRoot(h) ==
  /\ LoadDisk(h)
  /\ TablesLoad(h)
  /\ ~RootReadable(RootSource(h))
  /\ root' = IF root.mem = "freed" THEN root ELSE Partial
  /\ UNCHANGED <<loaded, saving, changed, saved>>

MountOk(h) ==
  /\ LoadDisk(h)
  /\ TablesLoad(h)
  /\ RootReadable(RootSource(h))
  /\ root' = Allocated(AsRoot(RootSource(h)))
  /\ loaded' = TRUE
  /\ changed' = FALSE
  /\ UNCHANGED <<saving, saved>>

-----------------------------------------------------------------------------
(* A library call on the mounted volume: it links or frees a block, or     *)
(* fills or empties a directory entry.                                     *)
SessionCall ==
  /\ loaded /\ saving = NotSaving
  /\ \/ \E n \in DOMAIN fat.val, e \in {0, FAT_EOC} :
          /\ fat' = [fat EXCEPT !.val[n] = e]
          /\ root' = root
     \/ \E f \in Files, file \in Samples \union {EmptyFile} :
          /\ root' = [root EXCEPT !.val[f] = file]
          /\ fat' = fat
  /\ changed' = TRUE
  /\ UNCHANGED <<diskVars, is_disk_mounted, sb, loaded, saving, saved>>

-----------------------------------------------------------------------------
(* fs_umount of a volume that fs_mount has loaded: the FAT blocks, the     *)
(* root block, and the end.  The faulty variant counts the FAT blocks from *)
(* the start of the disk.                                                  *)
NumSaved == IF saving = NotSaving THEN 0 ELSE saving

SaveFatBlockOff ==
  /\ loaded
  /\ NumSaved < sb.val.num_fat_blocks
  /\ block_write(NumSaved, SavedFatBlock(fat.val, NumSaved))
  /\ saving' = NumSaved + 1
  /\ saved' = [saved EXCEPT ![disk_fd] = Unknown]
  /\ UNCHANGED <<is_disk_mounted, sb, fat, root, loaded, changed>>

SaveFatBlock ==
  /\ loaded
  /\ NumSaved < sb.val.num_fat_blocks
  /\ block_write(NumSaved + 1, SavedFatBlock(fat.val, NumSaved))
  /\ saving' = NumSaved + 1
  /\ saved' = [saved EXCEPT ![disk_fd] = Unknown]
  /\ UNCHANGED <<is_disk_mounted, sb, fat, root, loaded, changed>>

SaveRoot ==
  /\ loaded
  /\ NumSaved = sb.val.num_fat_blocks
  /\ block_write(sb.val.root_index, SavedRootBlock(root.val))
  /\ saving' = NumSaved + 1
  /\ saved' = [saved EXCEPT ![disk_fd] = Unknown]
  /\ UNCHANGED <<is_disk_mounted, sb, fat, root, loaded, changed>>

(* What has been saved, if the layout is the formatter's.  The faulty      *)
(* variant keeps the flag.                                                 *)
SavedNow ==
  [known |-> TRUE,
   fat   |-> [n \in FirstBlockEntries(sb.val) |-> fat.val[n]],
   root  |-> root.val]

UmountKeepsFlag ==
  /\ loaded
  /\ saving = sb.val.num_fat_blocks + 1
  /\ block_disk_close
  /\ loaded' = FALSE
  /\ saving' = NotSaving
  /\ sb' = Freed /\ fat' = Freed /\ root' = Freed
  /\ saved' = [saved EXCEPT ![disk_fd] =
       IF InLayout(host[disk_fd]) THEN SavedNow ELSE Unknown]
  /\ UNCHANGED <<is_disk_mounted, changed>>

EndUmount ==
  /\ loaded
  /\ saving = sb.val.num_fat_blocks + 1
  /\ block_disk_close
  /\ is_disk_mounted' = FALSE
  /\ loaded' = FALSE
  /\ saving' = NotSaving
  /\ sb' = Freed /\ fat' = Freed /\ root' = Freed
  /\ saved' = [saved EXCEPT ![disk_fd] =
       IF InLayout(host[disk_fd]) THEN SavedNow ELSE Unknown]
  /\ UNCHANGED changed

-----------------------------------------------------------------------------
(* The end of the process, without fs_umount or in the middle of it.       *)
EndProcess ==
  /\ disk_fd' = INVALID_FD
  /\ bcount' = 0
  /\ stray' = 0
  /\ is_disk_mounted' = FALSE
  /\ sb' = Null /\ fat' = Null /\ root' = Null
  /\ loaded' = FALSE /\ changed' = FALSE
  /\ saving' = NotSaving

Kill == EndProcess /\ UNCHANGED <<host, saved>>

(* fs_umount after a mount that failed: the flag lets it go on.  Where all *)
(* tables are as the process found them at its start it may write the FAT  *)
(* blocks back and then dereferences a null root entry.                    *)
Failed   == is_disk_mounted /\ ~loaded
Dangling == Failed /\ "freed" \in {sb.mem, fat.mem, root.mem}

UmountFailed ==
  /\ Failed
  /\ ~Dangling
  /\ host' = IF fat.mem = "live"
             THEN [host EXCEPT ![disk_fd].block =
                     [b \in DOMAIN @ |-> IF b \in 1 .. sb.val.num_fat_blocks
                                         THEN SavedFatBlock(fat.val, b - 1) ELSE @[b]]]
             ELSE host
  /\ EndProcess
  /\ UNCHANGED saved

(* With tables that an earlier fs_umount has freed the behaviour is        *)
(* undefined; some blocks of the disk may be overwritten with what the     *)
(* freed memory holds.                                                     *)
UmountDangling ==
  /\ Dangling
  /\ \E B \in SUBSET (DOMAIN host[disk_fd].block) :
       host' = [host EXCEPT ![disk_fd].block =
                  [b \in DOMAIN @ |-> IF b \in B THEN [kind |-> "junk"] ELSE @[b]]]
  /\ saved' = [saved EXCEPT ![disk_fd] = Unknown]
  /\ EndProcess

MountNext ==
  \/ \E h \in Hosts :
       \/ MountOddSize(h) \/ MountNoSuperblock(h) \/ MountBadSuperblock(h)
       \/ MountBadFat(h) \/ MountBadRoot(h) \/ MountOk(h)
  \/ SessionCall
  \/ SaveFatBlock \/ SaveRoot \/ EndUmount
  \/ UmountFailed \/ UmountDangling
  \/ Kill

MountSpec == MountInit /\ [][MountNext]_mountVars

-----------------------------------------------------------------------------
MountTypeOK ==
  /\ disk_fd \in Hosts \union {INVALID_FD}
  /\ stray \in 0 .. MaxHostFds
  /\ \A h \in Hosts : DOMAIN host[h].block = 0 .. host[h].count - 1
  /\ {sb.mem, fat.mem, root.mem} \subseteq {"null", "live", "freed", "partial"}
  /\ loaded => {sb.mem, fat.mem, root.mem} = {"live"}
  /\ loaded => sb.val.num_blocks = block_disk_count
  /\ saving # NotSaving => loaded

(* The library's flag and the device's descriptor, kept in two files, say  *)
(* the same between any two calls, whatever has failed: fs_mount never     *)
(* meets an open device and fs_umount never a closed one.                  *)
FlagFollowsDevice == is_disk_mounted <=> DiskOpen

(* A disk in the formatter's layout holds the tables of the last fs_umount *)
(* of it that ran to its end, through failed mounts, sessions on another   *)
(* disk, dead processes, and fs_umount after a failed mount in a fresh     *)
(* process; of the FAT, the part in the first block.                       *)
DiskHoldsSaved ==
  \A h \in Hosts : saved[h] # Unknown =>
    InLayout(host[h]) /\ Contents(host[h]) = saved[h]

(* And fs_mount returns just those tables.                                 *)
MountLoadsSaved ==
  loaded /\ ~changed /\ saving = NotSaving /\ saved[disk_fd] # Unknown =>
    /\ root.val = saved[disk_fd].root
    /\ \A n \in DOMAIN saved[disk_fd].fat : fat.val[n] = saved[disk_fd].fat[n]

(* Blocks are written on the open disk only, and of them only the FAT and  *)
(* the directory, as long as no freed table is in use.                     *)
WritesStayInVolume ==
  [][\A h \in Hosts : \A b \in DOMAIN host[h].block :
       host'[h].block[b] # host[h].block[b] =>
         \/ Dangling
         \/ /\ h = disk_fd
            /\ b \in 1 .. Super(h).num_fat_blocks \union {Super(h).root_index}]_mountVars

-----------------------------------------------------------------------------
(* README.md: "each FAT block is read from the disk and stored in the file *)
(* system's FAT".                                                          *)
EachFatBlockLoaded ==
  loaded /\ ~changed /\ saving = NotSaving =>
    \A n \in DOMAIN fat.val :
      n \div EntriesPerBlock < sb.val.num_fat_blocks =>
        fat.val[n] = FatEntryOnDisk(host[disk_fd].block, n)
=============================================================================
